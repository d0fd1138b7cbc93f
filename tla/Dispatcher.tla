------------------------------ MODULE Dispatcher ------------------------------
(***************************************************************************)
(* The Nagios event broker module (broker/dispatcher.c): on every service  *)
(* check Nagios calls handle_check(), which opens a ZMQ PUB socket if there*)
(* is none and publishes the check as text.  Nagios calls one handler at a *)
(* time and numbers the checks; any library call may fail.  A check makes  *)
(* at most one context and one socket in it: both have its number.         *)
(*                                                                         *)
(* ZMQ is external, modelled from its use.  The port has one socket at a   *)
(* time.  What is published on the socket the subscriber is connected to   *)
(* waits in a pipe of limited length; it is dropped without an error when  *)
(* the pipe is full, when nobody subscribes or when the socket is not      *)
(* bound.  zmq_ctx_destroy() waits until every socket of the context is    *)
(* closed and what they published has gone (the default linger); a         *)
(* subscriber is free never to read.                                       *)
(*                                                                         *)
(* heard, claimed and owed are history variables; no guard reads them.     *)
(***************************************************************************)
EXTENDS Naturals, Sequences

CONSTANTS
  MaxChecks,  \* bound: service checks in a behaviour
  MaxPipe,    \* high water mark of the PUB socket
  NullText    \* what asprintf makes of a NULL json text: "events (null)"

ASSUME BoundsAssumption == MaxChecks \in Nat /\ MaxPipe \in Nat \ {0}
ASSUME NullTextAssumption == NullText \notin Nat

VARIABLES
  module,      \* "loaded", "stopping" (inside nebmodule_deinit) or "unloaded"
  context,     \* the static `context': NULL or a context
  sender,      \* the static `sender': NULL or a socket
  contexts,    \* the contexts of the process that have not been destroyed
  sockets,     \* its sockets that have not been closed
  port,        \* the socket bound to the port, or NULL
  checks,      \* number of checks so far; the text of a check is its number
  connection,  \* the socket the subscriber is connected to, or NULL
  pipe,        \* published there, not yet received
  heard,       \* received by the subscriber
  claimed,     \* checks after which the log says "message sent"
  owed         \* of these, the ones there was room for in the pipe, since the
               \* subscriber connected

socketVars == <<context, sender, contexts, sockets, port>>
busVars == <<connection, pipe, heard, owed>>
vars == <<module, socketVars, checks, busVars, claimed>>

NULL == 0
Texts == 1..MaxChecks \cup {NullText}

-----------------------------------------------------------------------------
Init ==
  /\ module = "unloaded"
  /\ context = NULL
  /\ sender = NULL
  /\ contexts = {}
  /\ sockets = {}
  /\ port = NULL
  /\ checks = 0
  /\ connection = NULL
  /\ pipe = <<>>
  /\ heard = <<>>
  /\ claimed = {}
  /\ owed = {}

(* A mutated form: the library stays in memory between two loads. *)
StaticsKept == UNCHANGED <<context, sender>>

(* Nagios loads a fresh copy of the module, with fresh statics. *)
Statics ==
  /\ context' = NULL
  /\ sender' = NULL

(* nebmodule_init(). *)
NebmoduleInit ==
  /\ module = "unloaded"
  /\ module' = "loaded"
  /\ Statics
  /\ UNCHANGED <<contexts, sockets, port, checks, busVars, claimed>>

(* start_connection(), which leaves the statics at ctx and snd and the port with
   prt. *)
StartConnection(ctx, snd, prt) ==
  /\ context' = ctx
  /\ sender' = snd
  /\ port' = prt
  /\ contexts' = contexts \cup ({ctx} \ {NULL})
  /\ sockets' = sockets \cup ({snd} \ {NULL})

(* A mutated form: every check has a socket of its own. *)
ConnectedAnew ==
  /\ context' = checks + 1
  /\ sender' = checks + 1
  /\ port' = checks + 1
  /\ contexts' = (contexts \ {context}) \cup {checks + 1}
  /\ sockets' = (sockets \ {sender}) \cup {checks + 1}

(* The first conditional of handle_check(): go on with the socket there is, or
   with one just created and bound. *)
Connected ==
  \/ sender # NULL /\ UNCHANGED socketVars
  \/ /\ sender = NULL /\ port = NULL
     /\ StartConnection(checks + 1, checks + 1, checks + 1)

(* A mutated form: a socket that cannot be bound is forgotten, not closed. *)
NotConnectedForgetting ==
  /\ sender = NULL
  /\ \E new \in {{}, {checks + 1}} :
       /\ context' = checks + 1
       /\ contexts' = contexts \cup {checks + 1}
       /\ sockets' = sockets \cup new
       /\ UNCHANGED <<sender, port>>

(* start_connection() fails to create the context, to create the socket or to
   bind it. *)
NotConnected ==
  /\ sender = NULL
  /\ \/ StartConnection(NULL, NULL, port)
     \/ StartConnection(checks + 1, NULL, port)
     \/ StartConnection(checks + 1, checks + 1, port)

Piped(text) == IF Len(pipe) < MaxPipe THEN Append(pipe, text) ELSE pipe

(* A mutated form: a message that was sent is sent again. *)
PublishTwice(text) ==
  pipe' = IF sender' = connection /\ Len(pipe) + 1 < MaxPipe
          THEN pipe \o <<text, text>> ELSE pipe

(* zmq_msg_send() on the PUB socket. *)
Publish(text) ==
  pipe' = IF sender' = connection THEN Piped(text) ELSE pipe

(* handle_check(), to its end: json_dumps() fails into NullText, because the
   test after it looks at json and not at strjson. *)
HandleCheck ==
  /\ module = "loaded"
  /\ checks < MaxChecks
  /\ checks' = checks + 1
  /\ Connected
  /\ \E text \in {checks + 1, NullText} :
       /\ Publish(text)
       /\ owed' = owed \cup
            IF connection # NULL /\ Len(pipe) < MaxPipe THEN {text} \ {NullText}
            ELSE {}
  /\ claimed' = claimed \cup {checks + 1}
  /\ UNCHANGED <<module, connection, heard>>

(* handle_check() returning early: no connection, not a processed check, an
   unknown service, a text jansson cannot pack, no memory for the message or a
   send that fails. *)
HandleCheckReturns ==
  /\ module = "loaded"
  /\ checks < MaxChecks
  /\ checks' = checks + 1
  /\ NotConnected \/ Connected
  /\ UNCHANGED <<module, busVars, claimed>>

(* A mutated form: the context is destroyed before the socket is closed. *)
OpenAtDestroy == sockets

(* zmq_close(). *)
OpenAfterClose == sockets \ {sender}

(* nebmodule_deinit(), up to the wait in zmq_ctx_destroy(). *)
NebmoduleDeinit ==
  /\ module = "loaded"
  /\ module' = "stopping"
  /\ sockets' = OpenAfterClose
  /\ port' = IF port = sender THEN NULL ELSE port
  /\ UNCHANGED <<context, sender, contexts, checks, busVars, claimed>>

(* zmq_ctx_destroy() returns. *)
Destroyed == context \notin sockets /\ (connection = context => pipe = <<>>)

NebmoduleDeinitEnds ==
  /\ module = "stopping"
  /\ Destroyed
  /\ module' = "unloaded"
  /\ contexts' = contexts \ {context}
  /\ connection' = IF connection = context THEN NULL ELSE connection
  /\ UNCHANGED <<context, sender, sockets, port, checks, pipe, heard, claimed, owed>>

-----------------------------------------------------------------------------
(* The subscriber connects, receives and goes away. *)
Subscribe ==
  /\ port # NULL
  /\ connection = NULL
  /\ connection' = port
  /\ owed' = {}
  /\ UNCHANGED <<module, socketVars, checks, pipe, heard, claimed>>

Receive ==
  /\ pipe # <<>>
  /\ pipe' = Tail(pipe)
  /\ heard' = Append(heard, Head(pipe))
  /\ UNCHANGED <<module, socketVars, checks, connection, claimed, owed>>

Unsubscribe ==
  /\ connection # NULL
  /\ connection' = NULL
  /\ pipe' = <<>>
  /\ owed' = {}
  /\ UNCHANGED <<module, socketVars, checks, heard, claimed>>

Next ==
  \/ NebmoduleInit
  \/ HandleCheck
  \/ HandleCheckReturns
  \/ NebmoduleDeinit
  \/ NebmoduleDeinitEnds
  \/ Subscribe
  \/ Receive
  \/ Unsubscribe

(* A call of nebmodule_deinit that can return does; nobody has to read. *)
Fairness == WF_vars(NebmoduleDeinitEnds)

Spec == Init /\ [][Next]_vars /\ Fairness

-----------------------------------------------------------------------------
(* Each variable has the kind of value the code stores in it; the statics of a
   loaded module never point to what has been closed or destroyed. *)
TypeOK ==
  /\ module \in {"loaded", "stopping", "unloaded"}
  /\ checks \in 0..MaxChecks
  /\ context \in 0..checks /\ sender \in 0..checks
  /\ contexts \subseteq 1..checks /\ sockets \subseteq contexts
  /\ module = "loaded" => context \in contexts \cup {NULL}
                         /\ sender \in sockets \cup {NULL}
  /\ port \in sockets \cup {NULL}
  /\ connection \in 0..checks
  /\ pipe \in Seq(Texts) /\ Len(pipe) <= MaxPipe
  /\ heard \in Seq(Texts)
  /\ claimed \subseteq 1..checks /\ owed \subseteq claimed

(* What the subscriber has and what is on its way to it are checks in the
   order Nagios made them, none twice, whatever is dropped, fails or is
   reloaded: the order the status board relies on. *)
HeardInOrder ==
  \A i, j \in DOMAIN (heard \o pipe) :
    LET a == (heard \o pipe)[i]
        b == (heard \o pipe)[j]
    IN  i < j /\ a # NullText /\ b # NullText => a < b

(* A subscriber misses only what finds its pipe full: as long as it stays connected,
   it has or will get every check the log says is sent and that could be dumped.
   handle_check() goes on with the socket the subscriber is connected to, through
   the checks that return early and the calls that fail. *)
OnlyOverrunsMissed ==
  \A check \in owed : \E i \in DOMAIN (heard \o pipe) : (heard \o pipe)[i] = check

(* Unloading leaves no socket behind, so the port is free for the next load: what
   start_connection() loses when it is called again after it has failed
   is contexts without a socket. *)
NoSocketLeftBehind == module = "unloaded" => sockets = {} /\ port = NULL

(* If nebmodule_deinit never returns, so that Nagios cannot stop, the reason is a
   subscriber that stays connected and does not read what waits for it. *)
DeinitWaitsOnlyForReader ==
  <>[](module = "stopping") => <>[](connection # NULL /\ pipe # <<>>)

-----------------------------------------------------------------------------
(* dispatcher.c:204 logs "message sent" of checks that went to the socket: they
   did only if the socket is bound.  After a failed bind sender is not NULL, so
   the next check takes it for a connection. *)
ClaimedMeansBound ==
  module = "loaded" /\ checks \in claimed => sender = port

(* dispatcher.c:165-172 means to drop a check that cannot be dumped ("unable to
   dump json -> string"): no text is published for it. *)
UndumpedNotPublished ==
  \A i \in DOMAIN (heard \o pipe) : (heard \o pipe)[i] # NullText
=============================================================================
