---------------------------- MODULE SessionProofs ----------------------------
(***************************************************************************)
(* What holds of a session of the client for every keyring and every       *)
(* number of drops and logins.  The properties rest on three facts that    *)
(* none of them states: the accounts are being loaded exactly while the    *)
(* keyring says so; before the first drop nothing is under way while the   *)
(* socket is down, since there has been no page to log in on; and as long  *)
(* as nothing raced, at most one check is awaited, of the account that is  *)
(* logged in.                                                              *)
(***************************************************************************)
EXTENDS ClientSession, TLAPS

(* The keyring is loading while loadAccounts awaits something.             *)
LoadingAgrees ==
    /\ keyringState = "LOADING" <=> loading # "nothing"
    /\ keyringState # "null" => keyringLoadAll

(* Until a connection is lost, the socket is down only before the first.   *)
FirstConnection ==
    drops = 0 =>
        /\ socket = "down" => metadata = "none" /\ apiState # "READY" /\ loading = "nothing"
        /\ apiState # "READY" => currentAccount = Nobody /\ ~isSudo /\ checks = EmptyBag

(* Only those who have logged in are checked, and the checks are a bag.    *)
ChecksSeen ==
    /\ checks = [pair \in DOMAIN checks |-> checks[pair]]
    /\ DOMAIN checks \subseteq seen

(* The one check of the account that is logged in, or its answer.          *)
MenuFollows ==
    drops = 0 /\ ~raced =>
        \/ checks = EmptyBag /\ (isSudo <=> currentAccount = SudoKey)
        \/ checks = [pair \in {currentAccount} |-> 1]

SessionIInv ==
    /\ SessionTypeOK
    /\ LoadingAgrees
    /\ FirstConnection
    /\ ChecksSeen
    /\ AdminMenuNeedsSudoLogin
    /\ MenuFollows
    /\ LossNeedsDrop

-----------------------------------------------------------------------------
(* What a call of checkSudo, and its answer, do to the bag of calls.       *)
LEMMA EmptyChecks == EmptyBag = [pair \in {} |-> 1] /\ DOMAIN EmptyBag = {}
BY DEF EmptyBag, SetToBag

(* checkSudo sends one question more, about the pair it was called for. *)
LEMMA CheckSent ==
    ASSUME NEW B, NEW pair
    PROVE  /\ DOMAIN BagAdd(B, pair) = DOMAIN B \cup {pair}
           /\ BagAdd(B, pair) = [e \in DOMAIN BagAdd(B, pair) |-> BagAdd(B, pair)[e]]
           /\ B = EmptyBag => BagAdd(B, pair) = [e \in {pair} |-> 1]
<1>1. CASE pair \in DOMAIN B
  <2>1. BagAdd(B, pair) = [e \in DOMAIN B |-> IF e = pair THEN B[e] + 1 ELSE B[e]]
    BY <1>1 DEF BagAdd
  <2> QED
    BY <1>1, <2>1, EmptyChecks
<1>2. CASE pair \notin DOMAIN B
  <2>1. BagAdd(B, pair) = [e \in DOMAIN B \cup {pair} |-> IF e = pair THEN 1 ELSE B[e]]
    BY <1>2 DEF BagAdd
  <2>2. ASSUME B = EmptyBag PROVE BagAdd(B, pair) = [e \in {pair} |-> 1]
    BY <2>1, <2>2, EmptyChecks
  <2> QED
    BY <2>1, <2>2
<1> QED
  BY <1>1, <1>2

(* Its answer takes that question out. *)
LEMMA CheckTaken ==
    ASSUME NEW B, NEW pair, B = [e \in DOMAIN B |-> B[e]]
    PROVE  /\ DOMAIN BagRemove(B, pair) \subseteq DOMAIN B
           /\ BagRemove(B, pair) = [e \in DOMAIN BagRemove(B, pair) |-> BagRemove(B, pair)[e]]
           /\ B = [e \in {pair} |-> 1] => BagRemove(B, pair) = EmptyBag
<1>1. CASE pair \in DOMAIN B /\ B[pair] = 1
  <2>1. BagRemove(B, pair) = [e \in DOMAIN B \ {pair} |-> B[e]]
    BY <1>1 DEF BagRemove
  <2>2. ASSUME B = [e \in {pair} |-> 1] PROVE BagRemove(B, pair) = EmptyBag
    BY <2>1, <2>2, EmptyChecks
  <2> QED
    BY <2>1, <2>2
<1>2. CASE pair \in DOMAIN B /\ B[pair] # 1
  <2>1. BagRemove(B, pair) = [e \in DOMAIN B |-> IF e = pair THEN B[e] - 1 ELSE B[e]]
    BY <1>2 DEF BagRemove
  <2> QED
    BY <1>2, <2>1
<1>3. CASE pair \notin DOMAIN B
  BY <1>3 DEF BagRemove
<1> QED
  BY <1>1, <1>2, <1>3

-----------------------------------------------------------------------------
(* The page starts with no connection, no keyring and no login. *)
LEMMA SessionInitInv == Init => SessionIInv
<1> SUFFICES ASSUME Init PROVE SessionIInv
  OBVIOUS
<1> USE EmptyChecks DEF Init
<1>1. 0 \in 0 .. MaxDrops /\ 0 \in 0 .. MaxLogins
  BY SessionBounds
<1>2. SessionTypeOK
  BY <1>1 DEF SessionTypeOK, BagToSet
<1>3. LoadingAgrees /\ FirstConnection
  BY DEF LoadingAgrees, FirstConnection
<1>4. ChecksSeen
  BY DEF ChecksSeen
<1>5. AdminMenuNeedsSudoLogin /\ MenuFollows /\ LossNeedsDrop
  BY SessionAssumption DEF AdminMenuNeedsSudoLogin, MenuFollows, LossNeedsDrop
<1> QED
  BY <1>2, <1>3, <1>4, <1>5 DEF SessionIInv

(* A new connection takes the menu and its checks with it.                   *)
LEMMA ConnectedKeeps ==
    ASSUME SessionIInv, Connected PROVE SessionIInv'
<1> USE DEF SessionIInv, Connected, StateOnConnect, StartLoadingIf, FirstTimeOnly, NavbarUnmounts, connection, accounts, navbar, history
<1>1. SessionTypeOK'
  BY EmptyChecks DEF SessionTypeOK, BagToSet
<1>2. LoadingAgrees'
  BY DEF LoadingAgrees
<1>3. FirstConnection'
  BY EmptyChecks DEF LoadingAgrees, FirstConnection
<1>4. ChecksSeen'
  BY EmptyChecks DEF ChecksSeen
<1>5. AdminMenuNeedsSudoLogin'
  BY DEF ChecksSeen, AdminMenuNeedsSudoLogin
<1>6. MenuFollows'
  BY EmptyChecks DEF SessionTypeOK, ChecksSeen, FirstConnection, MenuFollows
<1>7. LossNeedsDrop'
  BY DEF SessionTypeOK, LoadingAgrees, FirstConnection, LossNeedsDrop
<1> QED
  BY <1>1, <1>2, <1>3, <1>4, <1>5, <1>6, <1>7

(* ready: the accounts are loaded if they were not before. *)
LEMMA ReadyKeeps ==
    ASSUME SessionIInv, Ready PROVE SessionIInv'
<1> USE DEF SessionIInv, Ready, StartLoadingIf, FirstTimeOnly, connection, accounts, navbar, history
<1>1. SessionTypeOK'
  BY DEF SessionTypeOK, BagToSet
<1>2. LoadingAgrees'
  BY DEF LoadingAgrees
<1>3. FirstConnection'
  BY DEF LoadingAgrees, FirstConnection
<1>4. ChecksSeen'
  BY DEF ChecksSeen
<1>5. AdminMenuNeedsSudoLogin'
  BY DEF ChecksSeen, AdminMenuNeedsSudoLogin
<1>6. MenuFollows'
  BY DEF SessionTypeOK, ChecksSeen, FirstConnection, MenuFollows
<1>7. LossNeedsDrop'
  BY DEF SessionTypeOK, LoadingAgrees, FirstConnection, LossNeedsDrop
<1> QED
  BY <1>1, <1>2, <1>3, <1>4, <1>5, <1>6, <1>7

(* The socket closes: every pending call is rejected, the rest is kept. *)
LEMMA DropKeeps ==
    ASSUME SessionIInv, Drop PROVE SessionIInv'
<1> USE DEF SessionIInv, Drop, RejectAccounts, KeyringError, RenderThrows, connection, accounts, navbar, history
<1>d. drops' \in 0 .. MaxDrops /\ drops' # 0 /\ drops' > 0
  BY SessionBounds DEF SessionTypeOK
<1>1. SessionTypeOK'
  BY <1>d, EmptyChecks DEF SessionTypeOK, BagToSet
<1>2. LoadingAgrees'
  BY DEF LoadingAgrees
<1>3. FirstConnection'
  BY <1>d DEF LoadingAgrees, FirstConnection
<1>4. ChecksSeen'
  BY EmptyChecks DEF ChecksSeen
<1>5. AdminMenuNeedsSudoLogin'
  BY DEF ChecksSeen, AdminMenuNeedsSudoLogin
<1>6. MenuFollows'
  BY <1>d DEF SessionTypeOK, ChecksSeen, FirstConnection, MenuFollows
<1>7. LossNeedsDrop'
  BY <1>d DEF SessionTypeOK, LoadingAgrees, FirstConnection, LossNeedsDrop
<1> QED
  BY <1>1, <1>2, <1>3, <1>4, <1>5, <1>6, <1>7

(* A refused connection renders the error message instead of the pages. *)
LEMMA ConnectFailsKeeps ==
    ASSUME SessionIInv, ConnectFails PROVE SessionIInv'
<1> USE DEF SessionIInv, ConnectFails, NavbarUnmounts, RenderThrows, connection, accounts, navbar, history
<1>1. SessionTypeOK'
  BY EmptyChecks DEF SessionTypeOK, BagToSet
<1>2. LoadingAgrees'
  BY DEF LoadingAgrees
<1>3. FirstConnection'
  BY EmptyChecks DEF LoadingAgrees, FirstConnection
<1>4. ChecksSeen'
  BY EmptyChecks DEF ChecksSeen
<1>5. AdminMenuNeedsSudoLogin'
  BY DEF ChecksSeen, AdminMenuNeedsSudoLogin
<1>6. MenuFollows'
  BY EmptyChecks DEF SessionTypeOK, ChecksSeen, FirstConnection, MenuFollows
<1>7. LossNeedsDrop'
  BY DEF SessionTypeOK, LoadingAgrees, FirstConnection, LossNeedsDrop
<1> QED
  BY <1>1, <1>2, <1>3, <1>4, <1>5, <1>6, <1>7

(* The extension answers, and the chain is asked for its type. *)
LEMMA ExtensionAnswersKeeps ==
    ASSUME SessionIInv, ExtensionAnswers PROVE SessionIInv'
<1> USE DEF SessionIInv, ExtensionAnswers, KeyringError, connection, accounts, navbar, history
<1>d. socket = "down" => drops > 0
  BY SessionBounds DEF SessionTypeOK, FirstConnection
<1>1. SessionTypeOK'
  BY DEF SessionTypeOK, BagToSet
<1>2. LoadingAgrees'
  BY DEF LoadingAgrees
<1>3. FirstConnection'
  BY DEF LoadingAgrees, FirstConnection
<1>4. ChecksSeen'
  BY DEF ChecksSeen
<1>5. AdminMenuNeedsSudoLogin'
  BY DEF ChecksSeen, AdminMenuNeedsSudoLogin
<1>6. MenuFollows'
  BY DEF SessionTypeOK, ChecksSeen, FirstConnection, MenuFollows
<1>7. LossNeedsDrop'
  BY <1>d DEF SessionTypeOK, LoadingAgrees, FirstConnection, LossNeedsDrop
<1> QED
  BY <1>1, <1>2, <1>3, <1>4, <1>5, <1>6, <1>7

(* The type of the chain arrives and the keyring is ready. *)
LEMMA ChainInfoArrivesKeeps ==
    ASSUME SessionIInv, ChainInfoArrives PROVE SessionIInv'
<1> USE DEF SessionIInv, ChainInfoArrives, connection, accounts, navbar, history
<1>1. SessionTypeOK'
  BY DEF SessionTypeOK, BagToSet
<1>2. LoadingAgrees'
  BY DEF LoadingAgrees
<1>3. FirstConnection'
  BY DEF LoadingAgrees, FirstConnection
<1>4. ChecksSeen'
  BY DEF ChecksSeen
<1>5. AdminMenuNeedsSudoLogin'
  BY DEF ChecksSeen, AdminMenuNeedsSudoLogin
<1>6. MenuFollows'
  BY DEF SessionTypeOK, ChecksSeen, FirstConnection, MenuFollows
<1>7. LossNeedsDrop'
  BY DEF SessionTypeOK, LoadingAgrees, FirstConnection, LossNeedsDrop
<1> QED
  BY <1>1, <1>2, <1>3, <1>4, <1>5, <1>6, <1>7

(* Login sets the account and asks whether it is the sudo key. *)
LEMMA LoginKeeps ==
    ASSUME NEW pair \in Pairs, SessionIInv, Login(pair) PROVE SessionIInv'
<1> USE DEF SessionIInv, Login, Screen, connection, accounts, navbar, history
<1>a. logins' \in 0 .. MaxLogins
  BY SessionBounds DEF SessionTypeOK
<1>b. /\ checks' = [e \in DOMAIN checks' |-> checks'[e]]
      /\ DOMAIN checks' \subseteq DOMAIN checks \cup {pair}
      /\ socket = "up" /\ checks = EmptyBag => checks' = [e \in {pair} |-> 1]
  <2>1. IF socket = "up" THEN checks' = BagAdd(checks, pair) ELSE checks' = checks
    OBVIOUS
  <2>2. checks = [e \in DOMAIN checks |-> checks[e]]
    BY DEF ChecksSeen
  <2> HIDE DEF SessionIInv, Login
  <2>3. CASE socket = "up"
    <3>1. checks' = BagAdd(checks, pair)
      BY <2>1, <2>3
    <3>2. /\ DOMAIN BagAdd(checks, pair) = DOMAIN checks \cup {pair}
          /\ BagAdd(checks, pair) = [e \in DOMAIN BagAdd(checks, pair) |-> BagAdd(checks, pair)[e]]
          /\ checks = EmptyBag => BagAdd(checks, pair) = [e \in {pair} |-> 1]
      BY CheckSent
    <3> QED
      BY <3>1, <3>2
  <2> QED
    BY <2>1, <2>2, <2>3
<1>1. SessionTypeOK'
  BY <1>a, <1>b DEF SessionTypeOK, BagToSet
<1>2. LoadingAgrees'
  BY DEF LoadingAgrees
<1>3. FirstConnection'
  BY <1>b DEF LoadingAgrees, FirstConnection
<1>4. ChecksSeen'
  BY <1>b DEF ChecksSeen
<1>5. AdminMenuNeedsSudoLogin'
  BY DEF ChecksSeen, AdminMenuNeedsSudoLogin
<1>6. MenuFollows'
  BY <1>b DEF SessionTypeOK, ChecksSeen, FirstConnection, MenuFollows
<1>7. LossNeedsDrop'
  BY DEF SessionTypeOK, LoadingAgrees, FirstConnection, LossNeedsDrop
<1> QED
  BY <1>1, <1>2, <1>3, <1>4, <1>5, <1>6, <1>7

(* An answer about the sudo key arrives, perhaps late and out of order. *)
LEMMA CheckAnsweredKeeps ==
    ASSUME NEW pair \in Pairs, SessionIInv, CheckAnswered(pair) PROVE SessionIInv'
<1> USE DEF SessionIInv, CheckAnswered, IsSudoer, BagIn, connection, accounts, navbar, history
<1>a. /\ pair \in DOMAIN checks
      /\ DOMAIN checks' \subseteq DOMAIN checks
      /\ checks' = [e \in DOMAIN checks' |-> checks'[e]]
      /\ checks = [e \in {pair} |-> 1] => checks' = EmptyBag
  <2>1. pair \in DOMAIN checks /\ checks' = BagRemove(checks, pair)
    BY DEF BagToSet
  <2>2. checks = [e \in DOMAIN checks |-> checks[e]]
    BY DEF ChecksSeen
  <2> HIDE DEF SessionIInv, CheckAnswered
  <2> QED
    BY <2>1, <2>2, CheckTaken
<1>1. SessionTypeOK'
  BY <1>a DEF SessionTypeOK, BagToSet
<1>2. LoadingAgrees'
  BY DEF LoadingAgrees
<1>3. FirstConnection'
  BY <1>a, EmptyChecks DEF LoadingAgrees, FirstConnection
<1>4. ChecksSeen'
  BY <1>a DEF ChecksSeen
<1>5. AdminMenuNeedsSudoLogin'
  BY <1>a DEF ChecksSeen, AdminMenuNeedsSudoLogin
<1>6. MenuFollows'
  <2>1. ASSUME drops' = 0, ~raced' PROVE checks' = EmptyBag /\ (isSudo' <=> currentAccount' = SudoKey)
    <3>1. checks # EmptyBag
      BY <1>a, EmptyChecks
    <3>2. checks = [e \in {currentAccount} |-> 1]
      BY <2>1, <3>1 DEF MenuFollows
    <3>3. pair = currentAccount
      BY <1>a, <3>2
    <3> QED
      BY <1>a, <3>2, <3>3
  <2> QED
    BY <2>1 DEF MenuFollows
<1>7. LossNeedsDrop'
  BY DEF SessionTypeOK, LoadingAgrees, FirstConnection, LossNeedsDrop
<1> QED
  BY <1>1, <1>2, <1>3, <1>4, <1>5, <1>6, <1>7

(* Logout forgets the account and resets isSudo, whatever is still to be answered. *)
LEMMA LogoutKeeps ==
    ASSUME SessionIInv, Logout PROVE SessionIInv'
<1> USE DEF SessionIInv, Logout, MenuReset, Screen, connection, accounts, navbar, history
<1>1. SessionTypeOK'
  BY DEF SessionTypeOK, BagToSet
<1>2. LoadingAgrees'
  BY DEF LoadingAgrees
<1>3. FirstConnection'
  BY DEF LoadingAgrees, FirstConnection
<1>4. ChecksSeen'
  BY DEF ChecksSeen
<1>5. AdminMenuNeedsSudoLogin'
  BY DEF ChecksSeen, AdminMenuNeedsSudoLogin
<1>6. MenuFollows'
  BY SessionAssumption DEF SessionTypeOK, ChecksSeen, FirstConnection, MenuFollows
<1>7. LossNeedsDrop'
  BY DEF SessionTypeOK, LoadingAgrees, FirstConnection, LossNeedsDrop
<1> QED
  BY <1>1, <1>2, <1>3, <1>4, <1>5, <1>6, <1>7

(* Opening, cancelling or failing in the login modal changes nothing else. *)
LEMMA ModalKeeps ==
    ASSUME SessionIInv, OpenModal \/ Cancel \/ LoginFails PROVE SessionIInv'
<1> USE DEF SessionIInv, OpenModal, Cancel, LoginFails, connection, accounts, navbar, history
<1>1. SessionTypeOK'
  BY DEF SessionTypeOK, BagToSet
<1>2. LoadingAgrees'
  BY DEF LoadingAgrees
<1>3. FirstConnection'
  BY DEF LoadingAgrees, FirstConnection
<1>4. ChecksSeen'
  BY DEF ChecksSeen
<1>5. AdminMenuNeedsSudoLogin'
  BY DEF ChecksSeen, AdminMenuNeedsSudoLogin
<1>6. MenuFollows'
  BY DEF SessionTypeOK, ChecksSeen, FirstConnection, MenuFollows
<1>7. LossNeedsDrop'
  BY DEF SessionTypeOK, LoadingAgrees, FirstConnection, LossNeedsDrop
<1> QED
  BY <1>1, <1>2, <1>3, <1>4, <1>5, <1>6, <1>7

(* A step that changes nothing keeps the invariant. *)
LEMMA StutterKeeps ==
    ASSUME SessionIInv, UNCHANGED vars PROVE SessionIInv'
<1> USE DEF SessionIInv, vars, connection, accounts, navbar, history
<1>1. SessionTypeOK'
  BY DEF SessionTypeOK, BagToSet
<1>2. LoadingAgrees'
  BY DEF LoadingAgrees
<1>3. FirstConnection'
  BY DEF LoadingAgrees, FirstConnection
<1>4. ChecksSeen'
  BY DEF ChecksSeen
<1>5. AdminMenuNeedsSudoLogin'
  BY DEF ChecksSeen, AdminMenuNeedsSudoLogin
<1>6. MenuFollows'
  BY DEF SessionTypeOK, ChecksSeen, FirstConnection, MenuFollows
<1>7. LossNeedsDrop'
  BY DEF SessionTypeOK, LoadingAgrees, FirstConnection, LossNeedsDrop
<1> QED
  BY <1>1, <1>2, <1>3, <1>4, <1>5, <1>6, <1>7


(* Every event of the connection, of the keyring and of the navbar keeps the invariant. *)
LEMMA SessionNextInv == SessionIInv /\ [Next]_vars => SessionIInv'
<1> SUFFICES ASSUME SessionIInv, [Next]_vars PROVE SessionIInv'
  OBVIOUS
<1>1. CASE Connected
  BY <1>1, ConnectedKeeps
<1>2. CASE Ready
  BY <1>2, ReadyKeeps
<1>3. CASE Drop
  BY <1>3, DropKeeps
<1>4. CASE ConnectFails
  BY <1>4, ConnectFailsKeeps
<1>5. CASE ExtensionAnswers
  BY <1>5, ExtensionAnswersKeeps
<1>6. CASE ChainInfoArrives
  BY <1>6, ChainInfoArrivesKeeps
<1>7. ASSUME NEW pair \in Pairs, CheckAnswered(pair) PROVE SessionIInv'
  BY <1>7, CheckAnsweredKeeps
<1>8. ASSUME NEW pair \in Pairs, Login(pair) PROVE SessionIInv'
  BY <1>8, LoginKeeps
<1>9. CASE Logout
  BY <1>9, LogoutKeeps
<1>10. CASE OpenModal \/ Cancel \/ LoginFails
  BY <1>10, ModalKeeps
<1>11. CASE UNCHANGED vars
  BY <1>11, StutterKeeps
<1> QED
  BY <1>1, <1>2, <1>3, <1>4, <1>5, <1>6, <1>7, <1>8, <1>9, <1>10, <1>11
     DEF Next, Environment, User

(* The inductive invariant, and what the runs check of it. *)
THEOREM SessionInvariance == Spec => []SessionIInv
BY SessionInitInv, SessionNextInv, PTL DEF Spec

(* Every state of a session is one of the screens, menus and keyrings the  *)
(* client has.                                                             *)
THEOREM SessionTyped == Spec => []SessionTypeOK
<1>1. SessionIInv => SessionTypeOK
  BY DEF SessionIInv
<1> QED
  BY <1>1, SessionInvariance, PTL

(* Whatever overlaps, the administration menu opens only where the sudo    *)
(* account has logged in (checkSudo of Navbar.js).                         *)
THEOREM SessionMenuNeedsSudo == Spec => []AdminMenuNeedsSudoLogin
<1>1. SessionIInv => AdminMenuNeedsSudoLogin
  BY DEF SessionIInv
<1> QED
  BY <1>1, SessionInvariance, PTL

(* Without a drop and without a race, the menu is that of the account that *)
(* is logged in as soon as its check is answered.                          *)
THEOREM SessionMenuRight == Spec => []MenuRightUnlessRaced
<1>1. SessionIInv => MenuRightUnlessRaced
  <2> SUFFICES ASSUME SessionIInv, drops = 0, ~raced, checks = EmptyBag
               PROVE isSudo <=> currentAccount = SudoKey
    BY DEF MenuRightUnlessRaced
  <2>1. checks # [pair \in {currentAccount} |-> 1]
    BY EmptyChecks
  <2> QED
    BY <2>1 DEF SessionIInv, MenuFollows
<1> QED
  BY <1>1, SessionInvariance, PTL

(* Only a client that has lost a connection is lost itself, by the render  *)
(* of App.js that throws or by the catch of asyncLoadAccounts.             *)
THEOREM SessionLossNeedsDrop == Spec => []LossNeedsDrop
<1>1. SessionIInv => LossNeedsDrop
  BY DEF SessionIInv
<1> QED
  BY <1>1, SessionInvariance, PTL

(* loadAccounts runs once in the life of the page, and a ready keyring is  *)
(* never taken away, whatever reconnects.                                  *)
THEOREM SessionKeyringOnce == Spec => KeyringLoadedOnce
<1> DEFINE Kept ==
      /\ keyringLoadAll => keyringLoadAll' /\ (loading = "nothing" => loading' = "nothing")
      /\ keyringState = "READY" => keyringState' = "READY"
<1>1. SessionIInv /\ [Next]_vars => [Kept]_vars
  <2> SUFFICES ASSUME SessionIInv, Next PROVE Kept
    OBVIOUS
  <2> USE DEF accounts, StartLoadingIf, FirstTimeOnly, RejectAccounts, KeyringError
  <2>1. CASE UNCHANGED accounts
    BY <2>1
  <2>2. CASE Connected \/ Ready
    BY <2>2 DEF Connected, Ready
  <2>3. CASE Drop \/ ExtensionAnswers \/ ChainInfoArrives
    BY <2>3 DEF SessionIInv, LoadingAgrees, Drop, ExtensionAnswers, ChainInfoArrives
  <2> QED
    BY <2>1, <2>2, <2>3
       DEF Next, Environment, User, ConnectFails, CheckAnswered, Login, Logout, OpenModal,
           Cancel, LoginFails
<1> QED
  BY <1>1, SessionInvariance, PTL DEF Spec, KeyringLoadedOnce
=============================================================================
