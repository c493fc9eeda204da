------------------------------- MODULE Inspect -------------------------------
(***************************************************************************)
(* The inspect subcommand: it parses the address of a block or of an       *)
(* extrinsic and shows what the database, or the address itself, holds.    *)
(*                                                                         *)
(* An input is what split leaves of it: a sequence of parts, each of a     *)
(* class of its own.  The classes are those the three parsers tell apart;  *)
(* a part has the form of several.  Between two runs of the command the    *)
(* node imports blocks, changes to the other of two forks and prunes.      *)
(***************************************************************************)
EXTENDS Integers, Sequences

CONSTANT MaxNumber      \* bound: the highest block

ASSUME InspectBounds == MaxNumber \in Nat

Forks == {1, 2}
Blocks == (0 .. MaxNumber) \X Forks
Number(b) == b[1]

VARIABLES
    stored,             \* the blocks whose header is in the database
    bodies,             \* those whose body is
    best,               \* the fork the best chain follows above genesis
    height,             \* and its length
    shown               \* what the last run of the command printed

inspectVars == <<stored, bodies, best, height, shown>>

Genesis0 == <<0, 1>>
Canonical(n) == IF n = 0 THEN Genesis0 ELSE <<n, best>>
NumberOfExtrinsics(b) == 1 + Number(b)

-----------------------------------------------------------------------------
(* A part, by what it looks like: 64 hexadecimal digits without prefix, that *)
(* may all be decimal; a decimal number; digits after 0x; anything else.     *)
Parts ==
    [form : {"hash"}, block : Blocks]
        \cup [form : {"number"}, n : 0 .. MaxNumber + 1]
        \cup [form : {"bytes"}, decodes : BOOLEAN]
        \cup {[form |-> "junk"]}

Error(why) == [is |-> "error", why |-> why]
Block(b) == [is |-> "block", block |-> b]
RawBlock == [is |-> "raw_block"]

ParsesAsHash(p) == p.form = "hash"
ParsesAsNumber(p) == p.form = "number"
ParsesAsBytes(p) == p.form = "bytes"

(* What the client knows by an id: a hash is that of any block, a number up  *)
(* to the height of the chain is that of a block of the best one.            *)
ById(id) ==
    IF id.form = "hash" THEN {id.block}
    ELSE { Canonical(n) : n \in {id.n} \cap (0 .. height) }

BlockBody(id) == ById(id) \cap bodies
Header(id) == ById(id) \cap stored

(* The body is looked up first, then the header. *)
GetById(id) ==
    IF BlockBody(id) = {} \/ Header(id) = {} THEN Error("not_found")
    ELSE Block(CHOOSE b \in Header(id) : TRUE)

GetBlock(p) ==
    IF ParsesAsHash(p) \/ ParsesAsNumber(p) THEN GetById(p)
    ELSE IF ParsesAsBytes(p)
         THEN IF p.decodes THEN RawBlock ELSE Error("codec")
    ELSE Error("no_address")

(* ExtrinsicAddress::from_str.  Raw bytes stand alone; else the first part   *)
(* is a block, the second an index, and what follows is ignored.            *)
IsBlockAddress(p) == ParsesAsHash(p) \/ ParsesAsNumber(p) \/ ParsesAsBytes(p)

ParseExtrinsic(input) ==
    IF Len(input) = 1 /\ ParsesAsBytes(input[1]) THEN [is |-> "bytes", part |-> input[1]]
    ELSE IF ~IsBlockAddress(input[1]) THEN Error("no_address")
    ELSE IF Len(input) < 2 THEN Error("index_missing")
    ELSE IF ~ParsesAsNumber(input[2]) THEN Error("no_index")
    ELSE [is |-> "in_block", part |-> input[1], index |-> input[2].n]

(* Inspector::extrinsic.  A raw block holds one extrinsic. *)
GetExtrinsic(address) ==
    CASE address.is = "error" -> address
      [] address.is = "bytes" ->
            IF address.part.decodes THEN [is |-> "raw_extrinsic"] ELSE Error("codec")
      [] address.is = "in_block" ->
            LET found == GetBlock(address.part)
                count == IF found.is = "block" THEN NumberOfExtrinsics(found.block) ELSE 1
            IN  IF found.is = "error" THEN found
                ELSE IF address.index >= count THEN Error("not_found")
                ELSE [is |-> "extrinsic", of |-> found, index |-> address.index]

(* The text of either subcommand; an extrinsic may have one part or two. *)
BlockInputs == Parts
ExtrinsicInputs == { <<p>> : p \in Parts } \cup { <<p, q>> : p, q \in Parts }

-----------------------------------------------------------------------------
InspectInit ==
    /\ stored = {Genesis0} /\ bodies = {Genesis0}
    /\ best = 1 /\ height = 0
    /\ shown = Error("nothing_yet")

(* The node: a block on the best chain, a longer fork, a pruned body. *)
Extend ==
    /\ height < MaxNumber
    /\ height' = height + 1
    /\ stored' = stored \cup {<<height + 1, best>>}
    /\ bodies' = bodies \cup {<<height + 1, best>>}
    /\ UNCHANGED <<best, shown>>

Reorganise ==
    /\ height \in 1 .. MaxNumber - 1
    /\ best' = 3 - best
    /\ height' = height + 1
    /\ LET fork == (1 .. height + 1) \X {best'}
       IN  /\ stored' = stored \cup fork
           /\ bodies' = bodies \cup (fork \ stored)
    /\ UNCHANGED shown

Prune(b) ==
    /\ Number(b) < height
    /\ bodies' = bodies \ {b}
    /\ UNCHANGED <<stored, best, height, shown>>

InspectBlock(p) ==
    /\ shown' = GetBlock(p)
    /\ UNCHANGED <<stored, bodies, best, height>>

InspectExtrinsic(input) ==
    /\ shown' = GetExtrinsic(ParseExtrinsic(input))
    /\ UNCHANGED <<stored, bodies, best, height>>

InspectNext ==
    \/ Extend \/ Reorganise
    \/ \E b \in bodies : Prune(b)
    \/ \E p \in BlockInputs : InspectBlock(p)
    \/ \E input \in ExtrinsicInputs : InspectExtrinsic(input)

InspectSpec == InspectInit /\ [][InspectNext]_inspectVars

-----------------------------------------------------------------------------
InspectTypeOK ==
    /\ bodies \subseteq stored /\ stored \subseteq Blocks
    /\ best \in Forks /\ height \in 0 .. MaxNumber
    /\ shown.is \in {"error", "block", "raw_block", "extrinsic", "raw_extrinsic"}
=============================================================================
