---------------------------- MODULE ClientSession ----------------------------
(***************************************************************************)
(* A session of the web client: the connection to the node and the keyring *)
(* (SubstrateContext.js), what App.js puts on the screen for them, and the *)
(* login and the menu of the navbar (Navbar.js).                           *)
(*                                                                         *)
(* The handlers of the connection, the asynchronous loading of the         *)
(* accounts, the asynchronous check for the sudo key and the user's clicks *)
(* run one at a time, in any order.  The socket may drop whenever it is    *)
(* up; the provider of @polkadot/api then rejects every call that waits    *)
(* for an answer, and connects again by itself.                            *)
(***************************************************************************)
EXTENDS Naturals, Bags, BagsExt

CONSTANTS
    Pairs,          \* the accounts of the keyring
    SudoKey,        \* the account sudo.key() answers
    Nobody,         \* currentAccount is null
    MaxDrops,       \* bound: how often the socket drops
    MaxLogins       \* bound: how often somebody logs in

ASSUME SessionAssumption == SudoKey \in Pairs /\ Nobody \notin Pairs
ASSUME SessionBounds == MaxDrops \in Nat /\ MaxLogins \in Nat

VARIABLES
    socket,         \* "down" or "up", as the provider sees it
    metadata,       \* of the api: "none", "loading" or "ready", once for all
    apiState,       \* "CONNECT_INIT", "CONNECTING", "READY" or "ERROR"
    crashed,        \* React has unmounted the application after an exception
    keyringState,   \* "null", "LOADING", "READY" or "ERROR"
    keyringLoadAll, \* the flag of the module
    loading,        \* loadAccounts awaits: "nothing", "extension" or "chain"
    currentAccount,
    isSudo,         \* state of the navbar
    openModal,      \* the login modal: "closed", "open" or "failed"
    checks,         \* the calls of checkSudo that await sudo.key(), by account
    drops, logins,  \* how often the socket dropped and somebody logged in
    raced,          \* history: a login or logout overlapped a check
    seen            \* history: who has logged in

connection == <<socket, metadata, apiState, crashed, drops>>
accounts == <<keyringState, keyringLoadAll, loading>>
navbar == <<isSudo, openModal, checks>>
history == <<logins, raced, seen>>
vars == <<connection, accounts, currentAccount, navbar, history>>

-----------------------------------------------------------------------------
(* What the initial state and the first render, which calls connect, make. *)
Init ==
    /\ socket = "down" /\ metadata = "none" /\ apiState = "CONNECT_INIT"
    /\ crashed = FALSE
    /\ keyringState = "null" /\ keyringLoadAll = FALSE /\ loading = "nothing"
    /\ currentAccount = Nobody
    /\ isSudo = FALSE /\ openModal = "closed" /\ checks = EmptyBag
    /\ drops = 0 /\ logins = 0 /\ raced = FALSE /\ seen = {}

(* What App.js renders. *)
Screen ==
    IF crashed THEN "blank"
    ELSE IF apiState = "ERROR" THEN "Error Connecting to Substrate"
    ELSE IF apiState # "READY" THEN "Connecting to Substrate"
    ELSE IF keyringState # "READY" THEN "Loading accounts"
    ELSE "pages"

(* Mutant: the effect loads the accounts on every connection. *)
OnEveryRender == TRUE

FirstTimeOnly == keyringState = "null" /\ ~keyringLoadAll

(* The render after apiState is set runs the effect of the provider. *)
StartLoadingIf(ready) ==
    IF ready /\ FirstTimeOnly
    THEN keyringLoadAll' = TRUE /\ keyringState' = "LOADING" /\ loading' = "extension"
    ELSE UNCHANGED accounts

(* Another screen took the place of the pages: the state of the navbar is  *)
(* lost, and what it still awaits will find it unmounted.                  *)
NavbarUnmounts == isSudo' = FALSE /\ openModal' = "closed" /\ checks' = EmptyBag

(* Mutant: only the ready event leads to READY. *)
UntilReadyEvent == "CONNECTING"

(* The ready event is not emitted again: isReady is checked explicitly. *)
StateOnConnect == IF metadata = "ready" THEN "READY" ELSE "CONNECTING"

(* "connected": CONNECT, and CONNECT_SUCCESS right after it if the api was *)
(* ready before; else the api loads the metadata of the chain.             *)
Connected ==
    /\ socket = "down"
    /\ socket' = "up"
    /\ metadata' = IF metadata = "ready" THEN "ready" ELSE "loading"
    /\ apiState' = StateOnConnect
    /\ StartLoadingIf(metadata = "ready")
    /\ NavbarUnmounts
    /\ UNCHANGED <<crashed, drops, currentAccount, history>>

(* "ready", once in the life of the api. *)
Ready ==
    /\ socket = "up" /\ metadata = "loading"
    /\ metadata' = "ready"
    /\ apiState' = "READY"
    /\ StartLoadingIf(TRUE)
    /\ UNCHANGED <<socket, crashed, drops, currentAccount, navbar, history>>

(* Mutant: the reducer stores the name of the action. *)
KeyringErrorType ==
    keyringState' = "KEYRING_ERROR" /\ loading' = "nothing" /\ UNCHANGED keyringLoadAll

(* The catch of asyncLoadAccounts: KEYRING_ERROR. *)
KeyringError == keyringState' = "ERROR" /\ loading' = "nothing" /\ UNCHANGED keyringLoadAll

RejectAccounts == IF loading = "chain" THEN KeyringError ELSE UNCHANGED accounts

(* Mutant: the message reads what no error has. *)
NoErrorRenders(apiError) == TRUE

(* The message reads errObj.target.url; an event has a target, the Error   *)
(* the api makes when it cannot initialise has none.                       *)
RenderThrows(apiError) == apiError = "Error"

(* The socket closes and every pending call is rejected.  No handler is    *)
(* set for "disconnected", so apiState stays as it is; but if the metadata *)
(* was loading, the api emits "error" with an Error.                       *)
Drop ==
    /\ socket = "up" /\ drops < MaxDrops
    /\ socket' = "down" /\ drops' = drops + 1
    /\ RejectAccounts
    /\ IF metadata = "loading"
       THEN metadata' = "none" /\ apiState' = "ERROR" /\ crashed' = RenderThrows("Error")
       ELSE UNCHANGED <<metadata, apiState, crashed>>
    /\ checks' = EmptyBag
    /\ UNCHANGED <<isSudo, openModal, currentAccount, history>>

(* An attempt to connect again is refused: "error" with an event. *)
ConnectFails ==
    /\ socket = "down"
    /\ apiState' = "ERROR" /\ crashed' = RenderThrows("event")
    /\ NavbarUnmounts
    /\ UNCHANGED <<socket, metadata, drops, accounts, currentAccount, history>>

(* The extension has been asked for its accounts; then the chain is asked  *)
(* for its name and type, which fails at once if the socket is down.       *)
ExtensionAnswers ==
    /\ loading = "extension"
    /\ IF socket = "up"
       THEN loading' = "chain" /\ UNCHANGED <<keyringState, keyringLoadAll>>
       ELSE KeyringError
    /\ UNCHANGED <<connection, currentAccount, navbar, history>>

ChainInfoArrives ==
    /\ loading = "chain" /\ socket = "up"
    /\ keyringState' = "READY" /\ loading' = "nothing"
    /\ UNCHANGED <<keyringLoadAll, connection, currentAccount, navbar, history>>

-----------------------------------------------------------------------------
(* The user, on the pages. *)

OpenModal ==
    /\ Screen = "pages" /\ currentAccount = Nobody /\ openModal = "closed"
    /\ openModal' = "open"
    /\ UNCHANGED <<connection, accounts, currentAccount, isSudo, checks, history>>

Cancel ==
    /\ Screen = "pages" /\ openModal # "closed"
    /\ openModal' = "closed"
    /\ UNCHANGED <<connection, accounts, currentAccount, isSudo, checks, history>>

(* handleLogin with a key the keyring has; checkSudo sends its call, which *)
(* is rejected at once if the socket is down.                              *)
Login(pair) ==
    /\ Screen = "pages" /\ openModal # "closed" /\ logins < MaxLogins
    /\ currentAccount' = pair
    /\ openModal' = "closed"
    /\ checks' = IF socket = "up" THEN BagAdd(checks, pair) ELSE checks
    /\ logins' = logins + 1
    /\ raced' = (raced \/ checks # EmptyBag)
    /\ seen' = seen \cup {pair}
    /\ UNCHANGED <<connection, accounts, isSudo>>

(* getPair throws for any other key. *)
LoginFails ==
    /\ Screen = "pages" /\ openModal # "closed"
    /\ openModal' = "failed"
    /\ UNCHANGED <<connection, accounts, currentAccount, isSudo, checks, history>>

(* Mutant: it is enough that somebody has logged in. *)
IsSomebody(pair) == pair # Nobody

IsSudoer(pair) == pair = SudoKey

(* checkSudo goes on with the pair it was called for. *)
CheckAnswered(pair) ==
    /\ socket = "up" /\ BagIn(pair, checks)
    /\ checks' = BagRemove(checks, pair)
    /\ isSudo' = IsSudoer(pair)
    /\ UNCHANGED <<connection, accounts, currentAccount, openModal, history>>

(* Mutant: the menu is not reset. *)
MenuKept == isSudo

MenuReset == FALSE

Logout ==
    /\ Screen = "pages" /\ currentAccount # Nobody
    /\ currentAccount' = Nobody
    /\ isSudo' = MenuReset
    /\ raced' = (raced \/ checks # EmptyBag)
    /\ UNCHANGED <<connection, accounts, openModal, checks, logins, seen>>

-----------------------------------------------------------------------------
Environment == Connected \/ Ready \/ Drop \/ ConnectFails

User ==
    \/ OpenModal \/ Cancel \/ LoginFails \/ Logout
    \/ \E pair \in Pairs : Login(pair)

(* Nothing is left to render, or to dispatch to, after a crash. *)
Next == /\ ~crashed
        /\ \/ Environment
           \/ ExtensionAnswers
           \/ ChainInfoArrives
           \/ \E pair \in Pairs : CheckAnswered(pair)
           \/ User

Spec == Init /\ [][Next]_vars

(* The provider connects again until it succeeds and the node answers; the *)
(* user may leave the extension, the modal and the menu alone for ever.    *)
Fairness ==
    /\ WF_vars(Next /\ Connected)
    /\ WF_vars(Next /\ Ready)
    /\ WF_vars(Next /\ ChainInfoArrives)
    /\ \A pair \in Pairs : WF_vars(Next /\ CheckAnswered(pair))

FairSpec == Spec /\ Fairness

-----------------------------------------------------------------------------
SessionTypeOK ==
    /\ socket \in {"down", "up"}
    /\ metadata \in {"none", "loading", "ready"}
    /\ apiState \in {"CONNECT_INIT", "CONNECTING", "READY", "ERROR"}
    /\ keyringState \in {"null", "LOADING", "READY", "ERROR"}
    /\ loading \in {"nothing", "extension", "chain"}
    /\ {crashed, keyringLoadAll, isSudo, raced} \subseteq BOOLEAN
    /\ currentAccount \in Pairs \cup {Nobody}
    /\ openModal \in {"closed", "open", "failed"}
    /\ BagToSet(checks) \subseteq Pairs
    /\ drops \in 0 .. MaxDrops /\ logins \in 0 .. MaxLogins
    /\ seen \subseteq Pairs

(* However often the client reconnects, and whatever it awaits meanwhile,  *)
(* loadAccounts runs once: the keyring throws when it is initialised again *)
(* and a ready keyring is never taken away.                                *)
KeyringLoadedOnce ==
    [][ /\ keyringLoadAll => keyringLoadAll' /\ (loading = "nothing" => loading' = "nothing")
        /\ keyringState = "READY" => keyringState' = "READY" ]_vars

(* Whatever logins, logouts, reconnections and late answers overlap, the   *)
(* menu of the administration opens only where the sudo account has logged *)
(* in.                                                                     *)
AdminMenuNeedsSudoLogin == isSudo => SudoKey \in seen

(* If the connection held and no login or logout overlapped a check, then  *)
(* the menu is that of the account logged in, as soon as nothing is left   *)
(* to be answered; logging out needs no answer.                            *)
MenuRightUnlessRaced ==
    Screen = "pages" /\ drops = 0 /\ ~raced /\ checks = EmptyBag =>
        (isSudo <=> currentAccount = SudoKey)

(* The client is lost for good only if a connection was: a failed first    *)
(* attempt to connect, or a slow answer, is recovered from.                *)
LossNeedsDrop == crashed \/ keyringState = "ERROR" => drops > 0

(* In the end the pages are shown for good, unless the client was lost or  *)
(* the extension still waits for the user's authorization.                 *)
EventuallyShown ==
    <>[](Screen = "pages" \/ crashed \/ keyringState = "ERROR" \/ loading = "extension")

(* "Loading accounts (please review any extension's authorization)": while *)
(* this is on the screen, the accounts are being loaded.                   *)
LoadingScreenMeansLoading == Screen = "Loading accounts" => loading # "nothing"

=============================================================================
