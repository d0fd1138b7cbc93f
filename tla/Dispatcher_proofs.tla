--------------------------- MODULE Dispatcher_proofs ---------------------------
(***************************************************************************)
(* Proofs about the event broker module, for every number of checks and    *)
(* every length of the pipe: types, the order of what is heard, what the   *)
(* subscriber misses and what an unload leaves behind.                     *)
(***************************************************************************)
EXTENDS Dispatcher, SequenceLemmas

(* What start_connection() leaves: at most a socket in the context it has made. *)
LEMMA StartConnectionTypes ==
  ASSUME TypeOK, checks < MaxChecks, checks' = checks + 1,
         Connected \/ NotConnected
  PROVE  /\ context' \in 0..checks' /\ sender' \in 0..checks'
         /\ contexts' \subseteq 1..checks' /\ sockets' \subseteq contexts'
         /\ module = "loaded" => /\ context' \in contexts' \cup {NULL}
                                /\ sender' \in sockets' \cup {NULL}
         /\ port' \in sockets' \cup {NULL}
<1>1. checks \in Nat /\ checks + 1 \in 1..checks' /\ 0 \in 0..checks'
      /\ 0..checks \subseteq 0..checks' /\ 1..checks \subseteq 1..checks'
      /\ checks + 1 # NULL /\ NULL \in 0..checks'
  BY BoundsAssumption DEF TypeOK, NULL
<1>2. CASE UNCHANGED socketVars
  BY <1>1, <1>2 DEF TypeOK, socketVars
<1>3. ASSUME NEW ctx \in {NULL, checks + 1}, NEW snd \in {NULL, ctx},
             NEW prt \in {port, snd}, StartConnection(ctx, snd, prt)
      PROVE  /\ context' \in 0..checks' /\ sender' \in 0..checks'
             /\ contexts' \subseteq 1..checks' /\ sockets' \subseteq contexts'
             /\ context' \in contexts' \cup {NULL}
             /\ sender' \in sockets' \cup {NULL}
             /\ port' \in sockets' \cup {NULL}
  BY <1>1, <1>3 DEF TypeOK, StartConnection
<1> QED
  BY <1>2, <1>3 DEF Connected, NotConnected

(* Every step keeps the kind of value of each variable: the pipe of the socket stays
   within its limit whatever handle_check() publishes, and the statics point to
   nothing that is closed or destroyed. *)
THEOREM TypeCorrect == Spec => []TypeOK
<1>1. Init => TypeOK
  <2> SUFFICES ASSUME Init PROVE TypeOK
    OBVIOUS
  <2>1. <<>> \in Seq(Texts) /\ Len(<<>>) = 0
    OBVIOUS
  <2>2. pipe \in Seq(Texts) /\ Len(pipe) <= MaxPipe /\ heard \in Seq(Texts)
    BY <2>1, BoundsAssumption DEF Init
  <2>3. checks \in 0..MaxChecks /\ NULL \in 0..checks
    BY BoundsAssumption DEF Init, NULL
  <2> QED
    BY <2>2, <2>3 DEF Init, TypeOK
<1>2. TypeOK /\ [Next]_vars => TypeOK'
  <2> SUFFICES ASSUME TypeOK, [Next]_vars PROVE TypeOK'
    OBVIOUS
  <2>0. NULL \in 0..checks /\ checks \in Nat
    BY BoundsAssumption DEF NULL, TypeOK
  <2>1. CASE NebmoduleInit
    BY <2>0, <2>1 DEF TypeOK, NebmoduleInit, Statics, busVars
  <2>2. CASE HandleCheck
    <3>1. /\ checks < MaxChecks /\ checks' = checks + 1 /\ Connected
          /\ UNCHANGED <<module, connection, heard>>
          /\ claimed' = claimed \cup {checks + 1}
      BY <2>2 DEF HandleCheck
    <3>2. checks + 1 \in 1..MaxChecks /\ checks + 1 \in 1..checks'
          /\ checks' \in 0..MaxChecks
          /\ 0..checks \subseteq 0..checks' /\ 1..checks \subseteq 1..checks'
      BY <2>0, <3>1, BoundsAssumption
    <3>3. PICK text \in {checks + 1, NullText} :
            /\ Publish(text)
            /\ owed' = owed \cup
                 IF connection # NULL /\ Len(pipe) < MaxPipe THEN {text} \ {NullText}
                 ELSE {}
      BY <2>2 DEF HandleCheck
    <3>4. text \in Texts
      BY <3>2 DEF Texts
    <3>5. pipe' \in Seq(Texts) /\ Len(pipe') <= MaxPipe
      <4>1. CASE Len(pipe) < MaxPipe /\ pipe' = Append(pipe, text)
        <5>1. Append(pipe, text) \in Seq(Texts)
              /\ Len(Append(pipe, text)) = Len(pipe) + 1 /\ Len(pipe) \in Nat
          BY <3>4 DEF TypeOK
        <5> QED
          BY <4>1, <5>1, BoundsAssumption
      <4>2. CASE pipe' = pipe
        BY <4>2 DEF TypeOK
      <4> QED
        BY <3>3, <4>1, <4>2 DEF Publish, Piped
    <3>6. claimed' \subseteq 1..checks' /\ owed' \subseteq claimed'
      BY <3>1, <3>2, <3>3 DEF TypeOK
    <3>7. heard' \in Seq(Texts) /\ connection' \in 0..checks'
          /\ module' \in {"loaded", "stopping", "unloaded"} /\ module' = module
      BY <3>1, <3>2 DEF TypeOK
    <3> QED
      BY <3>1, <3>2, <3>5, <3>6, <3>7, StartConnectionTypes DEF TypeOK
  <2>3. CASE HandleCheckReturns
    <3>1. /\ checks < MaxChecks /\ checks' = checks + 1
          /\ Connected \/ NotConnected
          /\ UNCHANGED <<module, busVars, claimed>>
      BY <2>3 DEF HandleCheckReturns
    <3>2. /\ checks' \in 0..MaxChecks
          /\ 0..checks \subseteq 0..checks' /\ 1..checks \subseteq 1..checks'
      BY <2>0, <3>1, BoundsAssumption
    <3> QED
      BY <3>1, <3>2, StartConnectionTypes DEF TypeOK, busVars
  <2>4. CASE NebmoduleDeinit
    BY <2>4 DEF TypeOK, NebmoduleDeinit, OpenAfterClose, busVars
  <2>5. CASE NebmoduleDeinitEnds
    BY <2>0, <2>5 DEF TypeOK, NebmoduleDeinitEnds, Destroyed
  <2>6. CASE Subscribe
    BY <2>0, <2>6 DEF TypeOK, Subscribe, socketVars
  <2>7. CASE Receive
    <3>1. pipe \in Seq(Texts) /\ heard \in Seq(Texts) /\ pipe # <<>>
      BY <2>7 DEF Receive, TypeOK
    <3>2. Head(pipe) \in Texts /\ Tail(pipe) \in Seq(Texts)
          /\ Len(Tail(pipe)) = Len(pipe) - 1
      BY <3>1, HeadTailProperties
    <3>3. Len(Tail(pipe)) <= MaxPipe
      BY <3>1, <3>2, BoundsAssumption, LenProperties DEF TypeOK
    <3>4. Append(heard, Head(pipe)) \in Seq(Texts)
      BY <3>1, <3>2
    <3> QED
      BY <2>7, <3>2, <3>3, <3>4 DEF TypeOK, Receive, socketVars
  <2>8. CASE Unsubscribe
    <3>1. <<>> \in Seq(Texts) /\ Len(<<>>) = 0
      OBVIOUS
    <3>2. pipe' \in Seq(Texts) /\ Len(pipe') <= MaxPipe
      BY <2>8, <3>1, BoundsAssumption DEF Unsubscribe
    <3> QED
      BY <2>0, <2>8, <3>2 DEF TypeOK, Unsubscribe, socketVars
  <2>9. CASE UNCHANGED vars
    BY <2>9 DEF TypeOK, vars, socketVars, busVars
  <2> QED
    BY <2>1, <2>2, <2>3, <2>4, <2>5, <2>6, <2>7, <2>8, <2>9 DEF Next
<1> QED
  BY <1>1, <1>2, PTL DEF Spec

-----------------------------------------------------------------------------
(* Texts in the order of their checks, of which there were n. *)
Orderly(s, n) ==
  /\ s \in Seq(Texts)
  /\ \A i \in DOMAIN s : s[i] # NullText => s[i] <= n
  /\ \A i, j \in DOMAIN s :
       i < j /\ s[i] # NullText /\ s[j] # NullText => s[i] < s[j]

(* The text of the next check keeps the order. *)
LEMMA OrderlyAppend ==
  ASSUME NEW n \in Nat, n + 1 <= MaxChecks, NEW s, Orderly(s, n),
         NEW text \in {n + 1, NullText}
  PROVE  Orderly(Append(s, text), n + 1)
<1> DEFINE t == Append(s, text)
<1>1. s \in Seq(Texts) /\ text \in Texts
  BY BoundsAssumption DEF Orderly, Texts
<1>2. /\ t \in Seq(Texts)
      /\ DOMAIN t = 1..(Len(s) + 1)
      /\ DOMAIN s = 1..Len(s)
      /\ Len(s) \in Nat
      /\ \A i \in 1..Len(s) : t[i] = s[i]
      /\ t[Len(s) + 1] = text
  BY <1>1
<1> HIDE DEF t
<1>3. \A i \in DOMAIN s : s[i] # NullText => s[i] \in Nat /\ s[i] <= n
  BY <1>1, BoundsAssumption DEF Orderly, Texts
<1>4. ASSUME NEW i \in DOMAIN t, t[i] # NullText
      PROVE  t[i] <= n + 1
  <2>1. CASE i \in DOMAIN s
    BY <1>2, <1>3, <1>4, <2>1
  <2>2. CASE i = Len(s) + 1
    BY <1>2, <1>4, <2>2
  <2> QED
    BY <1>2, <2>1, <2>2
<1>5. ASSUME NEW i \in DOMAIN t, NEW j \in DOMAIN t, i < j,
             t[i] # NullText, t[j] # NullText
      PROVE  t[i] < t[j]
  <2>1. i \in DOMAIN s
    BY <1>2, <1>5
  <2>2. CASE j \in DOMAIN s
    BY <1>2, <1>5, <2>1, <2>2 DEF Orderly
  <2>3. CASE j = Len(s) + 1
    <3>1. t[j] = n + 1
      BY <1>2, <1>5, <2>3
    <3> QED
      BY <1>2, <1>3, <1>5, <2>1, <3>1
  <2> QED
    BY <1>2, <2>2, <2>3
<1>6. t \in Seq(Texts)
  BY <1>2
<1>7. Orderly(t, n + 1)
  BY <1>4, <1>5, <1>6 DEF Orderly
<1> QED
  BY <1>7 DEF t

(* A check of which nothing is published keeps the order. *)
LEMMA OrderlyLater ==
  ASSUME NEW n \in Nat, NEW s, Orderly(s, n)
  PROVE  Orderly(s, n + 1)
<1>1. \A i \in DOMAIN s : s[i] # NullText => s[i] \in Nat /\ s[i] <= n
  BY BoundsAssumption DEF Orderly, Texts
<1> QED
  BY <1>1 DEF Orderly

(* What is lost at the end leaves an ordered beginning. *)
LEMMA OrderlyPrefix ==
  ASSUME NEW n \in Nat, NEW s \in Seq(Texts), NEW t \in Seq(Texts),
         Orderly(s \o t, n)
  PROVE  Orderly(s, n)
<1>1. DOMAIN s \subseteq DOMAIN (s \o t) /\ \A i \in DOMAIN s : (s \o t)[i] = s[i]
  OBVIOUS
<1> QED
  BY <1>1 DEF Orderly

(* The inductive invariant: what was heard and what is in the pipe are texts of
   the checks there were, in their order. *)
InOrder == Orderly(heard \o pipe, checks)

(* Texts are heard and wait in the order of their checks. *)
THEOREM AlwaysInOrder == Spec => []InOrder
<1>1. Init => InOrder
  <2> SUFFICES ASSUME Init PROVE InOrder
    OBVIOUS
  <2>1. heard \o pipe = <<>> /\ <<>> \in Seq(Texts) /\ DOMAIN <<>> = {}
    BY DEF Init
  <2> QED
    BY <2>1 DEF InOrder, Orderly
<1>2. TypeOK /\ InOrder /\ [Next]_vars => InOrder'
  <2> SUFFICES ASSUME TypeOK, Orderly(heard \o pipe, checks), [Next]_vars
               PROVE  Orderly(heard' \o pipe', checks')
    BY DEF InOrder
  <2>1. heard \in Seq(Texts) /\ pipe \in Seq(Texts) /\ checks \in Nat
    BY BoundsAssumption DEF TypeOK
  <2>2. CASE HandleCheck
    <3>1. checks + 1 <= MaxChecks /\ checks' = checks + 1 /\ heard' = heard
      BY <2>1, <2>2, BoundsAssumption DEF HandleCheck
    <3>2. PICK text \in {checks + 1, NullText} : Publish(text)
      BY <2>2 DEF HandleCheck
    <3>3. CASE pipe' = Append(pipe, text)
      <4>1. text \in Texts
        BY <2>1, <3>1, BoundsAssumption DEF Texts
      <4>2. heard' \o pipe' = Append(heard \o pipe, text)
        BY <2>1, <3>1, <3>3, <4>1, ConcatAppend
      <4> QED
        BY <2>1, <3>1, <4>2, OrderlyAppend
    <3>4. CASE pipe' = pipe
      BY <2>1, <3>1, <3>4, OrderlyLater
    <3> QED
      BY <3>2, <3>3, <3>4 DEF Publish, Piped
  <2>3. CASE HandleCheckReturns
    BY <2>1, <2>3, OrderlyLater DEF HandleCheckReturns, busVars
  <2>4. CASE Receive
    <3>1. heard' \o pipe' = heard \o pipe
      BY <2>1, <2>4, MoveHead DEF Receive
    <3> QED
      BY <2>4, <3>1 DEF Receive
  <2>5. CASE Unsubscribe
    <3>1. heard' \o pipe' = heard
      BY <2>1, <2>5 DEF Unsubscribe
    <3> QED
      BY <2>1, <2>5, <3>1, OrderlyPrefix DEF Unsubscribe
  <2>6. CASE UNCHANGED <<checks, pipe, heard>>
    BY <2>6
  <2> QED
    BY <2>2, <2>3, <2>4, <2>5, <2>6
    DEF Next, NebmoduleInit, NebmoduleDeinit, NebmoduleDeinitEnds, Subscribe,
        vars, busVars
<1> QED
  BY <1>1, <1>2, TypeCorrect, PTL DEF Spec

(* The subscriber hears the checks in the order in which Nagios called
   handle_check(), whatever the socket drops or loses. *)
THEOREM HeardAlwaysInOrder == Spec => []HeardInOrder
<1>1. InOrder => HeardInOrder
  BY DEF InOrder, Orderly, HeardInOrder
<1> QED
  BY <1>1, AlwaysInOrder, PTL

-----------------------------------------------------------------------------
(* The inductive invariant of the sockets.  While the module is loaded sender is the
   only socket there is, it is in the context the module has, and the port and the
   subscriber have no other; nebmodule_deinit() closes it, and until it has
   returned a subscriber may still read from it. *)
Owned ==
  /\ module = "loaded" =>
       /\ sockets \subseteq {sender}
       /\ port \in {NULL, sender}
       /\ sender # NULL => sender = context
       /\ connection # NULL => connection = sender
  /\ module # "loaded" => sockets = {} /\ port = NULL
  /\ module = "stopping" /\ connection # NULL => connection = context
  /\ module = "unloaded" => connection = NULL

(* handle_check() keeps the socket there is; without one nobody is connected. *)
LEMMA ConnectedOwned ==
  ASSUME TypeOK, Owned, module = "loaded", UNCHANGED <<module, connection>>,
         Connected \/ NotConnected
  PROVE  Owned'
<1>1. CASE UNCHANGED socketVars
  BY <1>1 DEF Owned, socketVars
<1>2. CASE sender = NULL
  <2>1. sockets = {} /\ connection = NULL /\ port = NULL
    <3>1. NULL \notin sockets
      BY DEF TypeOK, NULL
    <3> QED
      BY <1>2, <3>1 DEF Owned
  <2> QED
    BY <1>2, <2>1 DEF Owned, Connected, NotConnected, StartConnection, socketVars
<1> QED
  BY <1>1, <1>2 DEF Connected, NotConnected

(* Sockets, port and subscriber belong together at every time. *)
THEOREM AlwaysOwned == Spec => []Owned
<1>1. Init => Owned
  BY DEF Init, Owned
<1>2. TypeOK /\ Owned /\ [Next]_vars => Owned'
  <2> SUFFICES ASSUME TypeOK, Owned, [Next]_vars PROVE Owned'
    OBVIOUS
  <2>1. CASE NebmoduleInit
    BY <2>1 DEF Owned, NebmoduleInit, Statics, busVars
  <2>2. CASE HandleCheck
    BY <2>2, ConnectedOwned DEF HandleCheck
  <2>3. CASE HandleCheckReturns
    BY <2>3, ConnectedOwned DEF HandleCheckReturns, busVars
  <2>4. CASE NebmoduleDeinit
    BY <2>4 DEF Owned, NebmoduleDeinit, OpenAfterClose, busVars
  <2>5. CASE NebmoduleDeinitEnds
    BY <2>5 DEF Owned, NebmoduleDeinitEnds
  <2>6. CASE Subscribe
    BY <2>6 DEF Owned, Subscribe, socketVars, TypeOK
  <2>7. CASE Receive
    BY <2>7 DEF Owned, Receive, socketVars
  <2>8. CASE Unsubscribe
    BY <2>8 DEF Owned, Unsubscribe, socketVars
  <2>9. CASE UNCHANGED vars
    BY <2>9 DEF Owned, vars, socketVars, busVars
  <2> QED
    BY <2>1, <2>2, <2>3, <2>4, <2>5, <2>6, <2>7, <2>8, <2>9 DEF Next
<1> QED
  BY <1>1, <1>2, TypeCorrect, PTL DEF Spec

(* Unloading leaves no socket and a free port, whatever call of start_connection()
   has failed and however often it was tried again. *)
THEOREM NoSocketEverLeftBehind == Spec => []NoSocketLeftBehind
<1>1. Owned => NoSocketLeftBehind
  BY DEF Owned, NoSocketLeftBehind
<1> QED
  BY <1>1, AlwaysOwned, PTL

(* What is heard or waits after an append is heard or waits as before, or is the
   text appended. *)
LEMMA AppendShows ==
  ASSUME NEW s \in Seq(Texts), NEW e \in Texts
  PROVE  /\ \A i \in DOMAIN s : i \in DOMAIN Append(s, e) /\ Append(s, e)[i] = s[i]
         /\ \E i \in DOMAIN Append(s, e) : Append(s, e)[i] = e
<1>1. Len(s) \in Nat /\ DOMAIN s = 1..Len(s)
      /\ DOMAIN Append(s, e) = 1..(Len(s) + 1)
      /\ Append(s, e)[Len(s) + 1] = e /\ \A i \in 1..Len(s) : Append(s, e)[i] = s[i]
  OBVIOUS
<1>2. Len(s) + 1 \in DOMAIN Append(s, e)
  BY <1>1
<1> QED
  BY <1>1, <1>2

(* A connected subscriber has or gets what the log says is sent, but for what cannot
   be dumped and what finds the pipe full. *)
THEOREM OnlyOverrunsEverMissed == Spec => []OnlyOverrunsMissed
<1>1. Init => OnlyOverrunsMissed
  BY DEF Init, OnlyOverrunsMissed
<1>2. TypeOK /\ Owned /\ OnlyOverrunsMissed /\ [Next]_vars => OnlyOverrunsMissed'
  <2> SUFFICES ASSUME TypeOK, Owned, OnlyOverrunsMissed, [Next]_vars
               PROVE  OnlyOverrunsMissed'
    OBVIOUS
  <2>1. heard \in Seq(Texts) /\ pipe \in Seq(Texts) /\ checks \in Nat
    BY BoundsAssumption DEF TypeOK
  <2>2. CASE HandleCheck
    <3>1. PICK text \in {checks + 1, NullText} :
            /\ Publish(text)
            /\ owed' = owed \cup
                 IF connection # NULL /\ Len(pipe) < MaxPipe THEN {text} \ {NullText}
                 ELSE {}
      BY <2>2 DEF HandleCheck
    <3>2. text \in Texts /\ heard' = heard
      BY <2>1, <2>2, <3>1, BoundsAssumption DEF HandleCheck, Texts
    <3>3. connection # NULL => sender' = connection
      BY <2>2 DEF HandleCheck, Connected, socketVars, Owned
    <3>4. CASE pipe' = Append(pipe, text)
      <4>1. heard' \o pipe' = Append(heard \o pipe, text)
        BY <2>1, <3>2, <3>4, ConcatAppend
      <4>2. heard \o pipe \in Seq(Texts)
        BY <2>1
      <4>3. PICK all : all = heard \o pipe
        OBVIOUS
      <4>4. \A check \in owed : \E i \in DOMAIN all : all[i] = check
        BY <4>3 DEF OnlyOverrunsMissed
      <4>5. \A check \in owed \cup {text} :
              \E i \in DOMAIN Append(all, text) : Append(all, text)[i] = check
        <5> DEFINE more == Append(all, text)
        <5>1. all \in Seq(Texts)
          BY <4>2, <4>3
        <5>2. /\ \A i \in DOMAIN all : i \in DOMAIN more /\ more[i] = all[i]
              /\ \E i \in DOMAIN more : more[i] = text
          BY <3>2, <5>1, AppendShows
        <5> HIDE DEF more
        <5>3. \A check \in owed : \E i \in DOMAIN more : more[i] = check
          BY <4>4, <5>2
        <5>4. \A check \in owed \cup {text} : \E i \in DOMAIN more : more[i] = check
          BY <5>2, <5>3
        <5> QED
          BY <5>4 DEF more
      <4> QED
        BY <3>1, <4>1, <4>3, <4>5 DEF OnlyOverrunsMissed
    <3>5. CASE pipe' # Append(pipe, text)
      <4>1. pipe' = pipe /\ owed' = owed
        BY <3>1, <3>3, <3>5 DEF Publish, Piped
      <4> QED
        BY <3>2, <4>1 DEF OnlyOverrunsMissed
    <3> QED
      BY <3>4, <3>5
  <2>3. CASE Receive
    <3>1. heard' \o pipe' = heard \o pipe
      BY <2>1, <2>3, MoveHead DEF Receive
    <3> QED
      BY <2>3, <3>1 DEF Receive, OnlyOverrunsMissed
  <2>4. CASE owed' = {}
    BY <2>4 DEF OnlyOverrunsMissed
  <2>5. CASE UNCHANGED <<heard, pipe, owed>>
    BY <2>5 DEF OnlyOverrunsMissed
  <2> QED
    BY <2>2, <2>3, <2>4, <2>5
    DEF Next, NebmoduleInit, HandleCheckReturns, NebmoduleDeinit,
        NebmoduleDeinitEnds, Subscribe, Unsubscribe, vars, busVars
<1> QED
  BY <1>1, <1>2, TypeCorrect, AlwaysOwned, PTL DEF Spec
=============================================================================
