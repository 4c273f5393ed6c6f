---------------------------- MODULE SocketProofs ----------------------------
(***************************************************************************)
(* The safety of cmd/run/socket for any number of handlers that run on an  *)
(* inode.  SocketInv is inductive; from it follow the order of the states, *)
(* the meaning of a connect that succeeds and the life of its connections. *)
(* LifeInv is inductive relative to it: it says who is still to close each *)
(* descriptor, bind socket, connection and listener.  From it follow that  *)
(* nobody uses a bind socket that is closed, that the end of an inode is   *)
(* reached once, that nothing leaks, and that descriptors and bind sockets *)
(* are entered and closed as GuardedFile says.                             *)
(***************************************************************************)
EXTENDS Socket, TLAPS
-----------------------------------------------------------------------------
(* The first inductive invariant: who may publish what, and who has won.    *)

\* Where each operation can be.
Stages(o) ==
    CASE o = "none" -> {"idle"}
      [] o = "connect" -> {"enter", "load", "sockname", "named", "publish",
                           "dummy", "attach", "wait", "done"}
      [] o = "bind" -> {"enter", "load", "bind", "bound", "done"}
      [] o = "getsockname" -> {"enter", "load", "sockname", "named", "done"}
      [] o = "getsockopt" -> {"enter", "load", "done"}
      [] o = "listen" -> {"enter", "load", "park", "sockname", "named", "netlisten",
                          "unbind", "listening", "done"}
      [] o = "dup" -> {"enter", "dup", "install", "done"}
      [] o = "import" -> {"import", "done"}
      [] o \in {"close", "cleanup"} -> {"mark", "drain", "remove", "final", "end",
                                        "panic", "release", "lock", "done"}
Labels == {"idle", "enter", "load", "sockname", "named", "publish", "dummy", "attach",
           "wait", "bind", "bound", "park", "netlisten", "unbind", "listening", "dup",
           "install", "import", "mark", "drain", "remove", "final", "end", "panic",
           "release", "lock", "done"}
DialStages == {"idle", "join", "swap", "reply", "hangup", "unbind", "lock", "done"}

\* The full types of the variables.
CallType == [pc : Labels, op : Operations \cup {"none"}, sock : Maker,
             blocking : BOOLEAN, prev : States, ref : BOOLEAN,
             held : Call \cup {None}, res : Results]
DialType == [pc : DialStages, accepted : BOOLEAN, bind : Call \cup {None},
             next : States, errno : Results, reply : Results]
ProxyType == [run : {"idle", "running", "ending", "ended"}, skip : BOOLEAN,
              conns : {"none", "open", "closed"}]
LisType == [phase : Phases, active : BOOLEAN, loop : BOOLEAN]

Shape ==
    /\ state \in States
    /\ open \subseteq Maker /\ installed \subseteq Maker
    /\ sphase \in [Maker -> Phases] /\ bphase \in [Call -> Phases]
    /\ call \in [Call -> CallType] /\ dial \in [Call -> DialType]
    /\ proxy \in [Call -> ProxyType] /\ lis \in [Call -> LisType]

StageInv == \A c \in Call : call[c].pc \in Stages(call[c].op)

\* A handler that will publish has loaded a state it may replace, and a handler
\* that is releasing has closed the inode.
PrevOK(c) ==
    /\ call[c].pc \in {"sockname", "named"} /\ call[c].op # "getsockname"
          => call[c].prev.kind = "passive"
    /\ call[c].pc \in {"publish", "bind", "bound", "park", "netlisten", "unbind",
                       "listening"} => call[c].prev.kind = "passive"
    /\ call[c].pc = "end" => call[c].prev.kind # "closed"
    /\ call[c].pc = "release" =>
          /\ state.kind = "closed"
          /\ call[c].prev.kind \in {"connected", "listening"} => call[c].prev.by \in Call
PrevInv == \A c \in Call : PrevOK(c)

\* What the published record names: a Connecting state has a bind socket, and a
\* Connected or Listening one comes from a call.  A goroutine has won when its
\* connect made the socket Connected, which only a close undoes.
Won(c) == dial[c].pc \notin {"idle", "join", "swap"} /\ dial[c].errno = "ok"
StateInv == /\ state.kind = "connecting" => state.bind # None
            /\ state.kind = "listening" => state.by \in Call
            /\ state.kind = "connected" => state.by \in Call /\ Won(state.by)

\* A completion goroutine: it runs for its own connect, publishes its own
\* record, and answers "ok" only for a record it has published.
DialOK(c) ==
    /\ dial[c].pc # "idle" => call[c].pc \in {"attach", "wait", "done"}
    /\ dial[c].pc # "idle" \/ call[c].pc = "dummy" => dial[c].bind # None
    /\ dial[c].pc = "swap" =>
          dial[c].next = IF dial[c].errno = "ok" THEN Plain("connected", c)
                         ELSE Passive(dial[c].bind, "ECONNREFUSED", c)
    /\ dial[c].pc \in {"idle", "join", "swap", "reply"} => dial[c].reply = "none"
    /\ dial[c].reply \in {"none", dial[c].errno}
    /\ Won(c) => state = Plain("connected", c) \/ state.kind = "closed"
DialInv == \A c \in Call : DialOK(c)

\* While the inode lives, only its proxy takes the connections of a successful
\* dial down.
Carried(c) ==
    IF dial[c].pc \in {"idle", "join"}
    THEN proxy[c].run = "idle" /\ ~proxy[c].skip
    ELSE dial[c].errno = "ok" =>
            \/ proxy[c].run = "ended"
            \/ proxy[c].run = "ending" /\ proxy[c].conns = "open"
            \/ proxy[c].run = "running" /\ proxy[c].conns = "open" /\ ~proxy[c].skip
ProxyInv == state.kind # "closed" => \A c \in Call : Carried(c)

SocketInv == /\ Shape /\ StageInv /\ PrevInv /\ StateInv /\ DialInv /\ ProxyInv
             /\ ConnectOkMeansConnected
-----------------------------------------------------------------------------
(* What becomes of everything a socket is made of: a second invariant, over *)
(* the descriptors, the bind sockets, the connections and the listeners.    *)

\* A descriptor exists once its dup or import has made it.  While it is not
\* closed it is in Inode.open, whoever is inside it, and it is in some map, or
\* in the hands of the call that makes it or closes it.
Made(s) == sphase[s] # "none"
Closing(s) == {c \in Call : call[c].pc \in {"drain", "remove"} /\ call[c].sock = s}
MadeInv ==
    /\ \A c \in Call : /\ Made(c) => call[c].pc \in {"install", "done"}
                       /\ call[c].pc = "install" => Made(c)
    /\ \A s \in open \cup installed : Made(s)
    /\ \A c \in Call : Made(call[c].sock)
CloserOK(c) ==
    /\ call[c].pc = "drain" => sphase[call[c].sock] = "closing"
    /\ call[c].pc = "remove" => sphase[call[c].sock] = "closed"
    /\ \A d \in Closing(call[c].sock) : c \in Closing(call[c].sock) => c = d
RefOK(c) ==
    /\ call[c].pc = "idle" => ~call[c].ref
    /\ call[c].pc = "dup" => call[c].ref
    /\ call[c].ref => sphase[call[c].sock] \in {"open", "closing"}
    /\ call[c].res = "cancelled" => call[c].pc = "done"
Reachable(s) ==
    \/ s \in installed
    \/ \E c \in Call : call[c].pc = "mark" /\ call[c].sock = s
    \/ s \in Call /\ (call[s].pc = "install" \/ call[s].res = "cancelled")
FileOK(s) ==
    /\ sphase[s] \in {"open", "closing"} => s \in open
    /\ s \in open /\ sphase[s] = "closed" =>
          \E c \in Call : call[c].pc = "remove" /\ call[c].sock = s
    /\ sphase[s] = "closing" => \E c \in Call : call[c].pc = "drain" /\ call[c].sock = s
    /\ sphase[s] = "open" => Reachable(s)
FileInv == /\ MadeInv
           /\ \A c \in Call : CloserOK(c) /\ RefOK(c)
           /\ \A s \in Maker : FileOK(s)

\* The inode ends when its last descriptor goes, and only then, as long as no
\* import brings it back.
Ending == {c \in Call : call[c].pc \in {"final", "end"}}
Ended == {c \in Call : call[c].pc \in {"final", "end", "panic", "release", "lock"}}
EndInv ==
    /\ open = {} => state.kind = "closed" \/ \E c \in Call : call[c].pc \in {"final", "end", "panic"}
    /\ ~Called("import") =>
          /\ Ended # {} \/ state.kind = "closed" => open = {}
          /\ \A c, d \in Ending : c = d
          /\ Ending # {} => state.kind # "closed"
          /\ NeverPanics

\* The goroutine of a connect publishes in place of its own Connecting state,
\* which nothing else replaces but the end of the inode.
Underway(c) == call[c].pc = "dummy" \/ dial[c].pc \in {"join", "swap"}
GoroutineOK(c) ==
    /\ dial[c].pc \in {"idle", "join"} => dial[c].errno = "ok"
    /\ dial[c].pc = "swap" => dial[c].errno \in {"ok", "ECONNREFUSED"}
    /\ dial[c].errno \in {"ok", "ECONNREFUSED", "ENOSYS", "ERESTART"}
    /\ dial[c].errno = "ERESTART" => state.kind = "closed"
    /\ dial[c].pc = "unbind" => dial[c].errno # "ECONNREFUSED"
    /\ Underway(c) => state = Connecting(dial[c].bind, c) \/ state.kind = "closed"
GoroutineInv == \A c \in Call : GoroutineOK(c)

\* A bind socket is made by a connect or a bind that publishes it, so whatever
\* names one names one that was made.  An open one has an owner that will close
\* it: the state, a goroutine that is about to, or the close that ended the inode.
Bound(b) == b = None \/ bphase[b] # "none"
NamedInv ==
    /\ Bound(state.bind)
    /\ \A c \in Call : /\ Bound(call[c].prev.bind) /\ Bound(call[c].held) /\ Bound(dial[c].bind)
                       /\ bphase[c] # "none" => call[c].pc \in {"dummy", "attach", "wait", "done"}
Alive == state.kind \in {"passive", "connecting"}
WillUnbind(c) ==
    \/ dial[c].pc \in {"reply", "hangup"} /\ ~KeepsBind(c)
    \/ dial[c].pc = "unbind"
Releasing(c) == call[c].pc = "release" /\ call[c].prev.kind \in {"passive", "connecting"}
Owned(b) ==
    \/ Alive /\ state.bind = b
    \/ \E c \in Call : WillUnbind(c) /\ dial[c].bind = b
    \/ \E c \in Call : Releasing(c) /\ call[c].prev.bind = b
BindOK(b) ==
    /\ bphase[b] = "open" => Owned(b)
    /\ bphase[b] = "closing" =>
          \/ \E c \in Call : dial[c].pc = "lock" /\ dial[c].bind = b
          \/ \E c \in Call : call[c].pc = "lock" /\ call[c].prev.bind = b
LockOK(c) ==
    /\ dial[c].pc \in {"unbind", "lock"} => dial[c].bind # None
    /\ dial[c].pc = "lock" => bphase[dial[c].bind] # "open"
    /\ call[c].pc = "lock" => call[c].prev.bind # None /\ bphase[call[c].prev.bind] # "open"
    /\ call[c].pc = "listening" /\ call[c].prev.bind # None =>
          bphase[call[c].prev.bind] # "open"
BindInv == /\ NamedInv
           /\ \A c \in Call : LockOK(c)
           /\ \A b \in Call : BindOK(b)
           /\ NoBindUseAfterClose /\ StateBindOpen

\* The connections of a dial are closed by its goroutine or by their proxy, and
\* a listener by the listen that lost, or it has an accept loop.
CarrierOK(c) ==
    /\ proxy[c].conns = "open" =>
          \/ proxy[c].run \in {"running", "ending"}
          \/ dial[c].pc \in {"swap", "reply", "hangup"} /\ MustHangUp(c)
    /\ lis[c].phase # "closing"
    /\ lis[c].phase = "open" => lis[c].loop \/ call[c].pc \in {"unbind", "listening"}
CarrierInv == \A c \in Call : CarrierOK(c)

LifeInv == FileInv /\ EndInv /\ GoroutineInv /\ BindInv /\ CarrierInv
-----------------------------------------------------------------------------
\* The records that a handler publishes are states.
LEMMA BindTypes ==
    ASSUME NEW c \in Maker, NEW b \in Call \cup {None}, NEW e \in Results
    PROVE  Passive(b, e, c) \in States /\ Connecting(b, c) \in States
BY DEF Passive, Connecting, States, Kinds, Results

LEMMA PlainType ==
    ASSUME NEW c \in Maker, NEW k \in Kinds
    PROVE  Plain(k, c) \in States
BY DEF Plain, States, Results

LEMMA CallIsMaker == ASSUME NEW c \in Call PROVE c \in Maker /\ c # None
BY SocketAssumption DEF Maker, SocketAssumption

LEMMA SomeResults ==
    {"ok", "cancelled", "unanswered", "EBADF", "EINVAL", "EISCONN", "EALREADY", "EINPROGRESS",
     "ERESTART", "ECONNREFUSED", "ENOSYS", "EADDRINUSE"} \subseteq Results
BY DEF Results

\* What a handler answers from the state it loads is a result, and what it may
\* go on with is a Passive state, or a Connecting one to be named.
LEMMA VerdictType ==
    ASSUME NEW o, NEW s \in States, NEW b
    PROVE  Verdict(o, s, b) \in Results \cup {"go"}
<1>1. s.errno \in Results
  BY DEF States
<1>2. BusyVerdict(o, s.kind, b) \in Results \cup {"go"}
  BY SomeResults DEF BusyVerdict, ConnectVerdict
<1>3. QED
  BY <1>1, <1>2, SomeResults DEF Verdict

LEMMA VerdictGo ==
    ASSUME NEW o, NEW s \in States, NEW b, Verdict(o, s, b) = "go"
    PROVE  o # "getsockopt" /\ (s.kind = "passive" \/ o = "getsockname")
<1>1. s.errno # "go" /\ s.kind \in Kinds
  BY DEF States, Results
<1>2. QED
  BY <1>1 DEF Verdict, BusyVerdict, ConnectVerdict, Kinds

\* A step of c's handler: its operation, its new label, the state it has loaded
\* and its result.
Moved(c, o, l, v, r) ==
    /\ call' \in [Call -> CallType]
    /\ \A d \in Call \ {c} : call'[d] = call[d]
    /\ call'[c].op = o /\ call'[c].pc = l /\ call'[c].prev = v /\ call'[c].res = r

LEMMA GotoEffect ==
    ASSUME call \in [Call -> CallType], NEW c \in Call, NEW l \in Labels, Goto(c, l)
    PROVE  Moved(c, call[c].op, l, call[c].prev, call[c].res)
BY DEF CallType, Goto, Moved

LEMMA ReturnEffect ==
    ASSUME call \in [Call -> CallType], NEW c \in Call, NEW r \in Results, Return(c, r)
    PROVE  Moved(c, call[c].op, "done", call[c].prev, r)
<1>1. "done" \in Labels
  BY DEF Labels
<1>2. QED
  BY <1>1 DEF CallType, Return, Moved

LEMMA BeginEffect ==
    ASSUME call \in [Call -> CallType], NEW c \in Call, NEW l \in Labels,
           NEW o \in Operations, NEW s \in Maker, NEW b \in BOOLEAN,
           call' = [call EXCEPT ![c] =
                      [@ EXCEPT !.op = o, !.sock = s, !.blocking = b, !.pc = l]]
    PROVE  Moved(c, o, l, call[c].prev, call[c].res)
BY DEF CallType, Moved

LEMMA EnterEffect ==
    ASSUME call \in [Call -> CallType], NEW c \in Call, NEW l \in Labels,
           call' = [call EXCEPT ![c] = [@ EXCEPT !.ref = TRUE, !.pc = l]]
    PROVE  Moved(c, call[c].op, l, call[c].prev, call[c].res)
BY DEF CallType, Moved

LEMMA LoadEffect ==
    ASSUME call \in [Call -> CallType], NEW c \in Call, NEW l \in Labels, NEW v \in States,
           call' = [call EXCEPT ![c] = [@ EXCEPT !.prev = v, !.pc = l]]
    PROVE  Moved(c, call[c].op, l, v, call[c].res)
BY DEF CallType, Moved

LEMMA HoldEffect ==
    ASSUME call \in [Call -> CallType], NEW c \in Call, NEW l \in Labels,
           NEW b \in Call \cup {None},
           call' = [call EXCEPT ![c] = [@ EXCEPT !.held = b, !.pc = l]]
    PROVE  Moved(c, call[c].op, l, call[c].prev, call[c].res)
BY DEF CallType, Moved

LEMMA AwaitEffect ==
    ASSUME call \in [Call -> CallType], NEW c \in Call, NEW l \in Labels, NEW r \in Results,
           call' = [call EXCEPT ![c] = [@ EXCEPT !.pc = l, !.res = r]]
    PROVE  Moved(c, call[c].op, l, call[c].prev, r)
BY DEF CallType, Moved

LEMMA SomeLabels ==
    {"enter", "load", "sockname", "named", "publish", "dummy", "attach", "wait", "bind",
     "bound", "park", "netlisten", "unbind", "listening", "dup", "install", "import",
     "mark", "drain", "remove", "final", "end", "panic", "release", "lock", "done"}
       \subseteq Labels
BY DEF Labels

\* Where a handler is tells its operation.
LEMMA StageOf ==
    ASSUME NEW o \in Operations \cup {"none"}, NEW p \in Stages(o)
    PROVE  /\ p = "idle" <=> o = "none"
           /\ p = "enter" => o \in {"connect", "bind", "getsockname", "getsockopt",
                                    "listen", "dup"}
           /\ p = "load" => o \in {"connect", "bind", "getsockname", "getsockopt", "listen"}
           /\ p \in {"sockname", "named"} => o \in {"connect", "getsockname", "listen"}
           /\ p \in {"publish", "dummy", "attach", "wait"} => o = "connect"
           /\ p \in {"bind", "bound"} => o = "bind"
           /\ p \in {"park", "netlisten", "unbind", "listening"} => o = "listen"
           /\ p \in {"dup", "install"} => o = "dup"
           /\ p = "import" => o = "import"
           /\ p \in {"mark", "drain", "remove", "final", "end", "release", "lock"}
                 => o \in {"close", "cleanup"}
BY DEF Stages, Operations

LEMMA DoneIsStage == ASSUME NEW o \in Operations PROVE "done" \in Stages(o)
BY DEF Stages, Operations

\* What SocketInv says of the variables and of one handler.
LEMMA Here ==
    ASSUME SocketInv, NEW c \in Call
    PROVE  /\ call \in [Call -> CallType] /\ dial \in [Call -> DialType]
           /\ proxy \in [Call -> ProxyType] /\ state \in States
           /\ call[c].op \in Operations \cup {"none"} /\ call[c].pc \in Stages(call[c].op)
           /\ call[c].prev \in States /\ call[c].res \in Results
           /\ c \in Maker /\ c # None
<1>1. Shape /\ StageInv
  BY DEF SocketInv
<1>2. call \in [Call -> CallType] /\ dial \in [Call -> DialType]
      /\ proxy \in [Call -> ProxyType] /\ state \in States
  BY <1>1 DEF Shape
<1>3. QED
  BY <1>1, <1>2, CallIsMaker DEF CallType, StageInv
-----------------------------------------------------------------------------
(* Frames: what a step of one call leaves alone.                            *)

\* Every step leaves the state, closes it, or replaces one that is not settled.
Forward == \/ state' = state
           \/ state'.kind = "closed"
           \/ state.kind \in {"passive", "connecting"}

LEMMA CallFrame ==
    ASSUME SocketInv, Forward, NEW c \in Call, \A d \in Call \ {c} : call'[d] = call[d],
           call'[c].pc \in Stages(call'[c].op), PrevOK(c)',
           call'[c].op = "connect" /\ call'[c].pc = "done" /\ call'[c].res = "ok" =>
              (state' = Plain("connected", c) \/ state'.kind = "closed")
    PROVE  StageInv' /\ PrevInv' /\ ConnectOkMeansConnected'
<1>1. StageInv /\ PrevInv /\ ConnectOkMeansConnected
  BY DEF SocketInv
<1>2. StageInv'
  BY <1>1 DEF StageInv
<1>3. PrevInv'
  BY <1>1 DEF PrevInv, PrevOK, Forward
<1>4. ConnectOkMeansConnected'
  <2> SUFFICES ASSUME NEW d \in Call, d # c,
                      call'[d].op = "connect", call'[d].pc = "done", call'[d].res = "ok"
               PROVE  state' = Plain("connected", d) \/ state'.kind = "closed"
    BY DEF ConnectOkMeansConnected, At, Plain
  <2>1. state = Plain("connected", d) \/ state.kind = "closed"
    BY <1>1 DEF ConnectOkMeansConnected, At, Plain
  <2>2. QED
    BY <2>1 DEF Forward, Plain
<1>5. QED
  BY <1>2, <1>3, <1>4

LEMMA DialFrame ==
    ASSUME SocketInv, Forward, NEW c \in Call, DialOK(c)',
           \A d \in Call \ {c} : call'[d] = call[d] /\ dial'[d] = dial[d]
    PROVE  DialInv'
<1> SUFFICES ASSUME NEW d \in Call, d # c
             PROVE  DialOK(d)'
  BY DEF DialInv
<1>1. DialOK(d)
  BY DEF SocketInv, DialInv
<1>2. Won(d)' => Won(d)
  BY DEF Won
<1>3. Won(d)' => state' = Plain("connected", d) \/ state'.kind = "closed"
  BY <1>1, <1>2 DEF DialOK, Forward, Plain
<1>4. QED
  BY <1>1, <1>3 DEF DialOK, Plain, Passive

LEMMA ProxyFrame ==
    ASSUME SocketInv, Forward, NEW c \in Call, state'.kind # "closed" => Carried(c)',
           \A d \in Call \ {c} : dial'[d] = dial[d] /\ proxy'[d] = proxy[d]
    PROVE  ProxyInv'
<1>1. ProxyInv
  BY DEF SocketInv
<1>2. QED
  BY <1>1 DEF ProxyInv, Carried, Forward

\* The variables that the invariant only types.
Rest == /\ open \subseteq Maker /\ installed \subseteq Maker
        /\ sphase \in [Maker -> Phases] /\ bphase \in [Call -> Phases]
        /\ lis \in [Call -> LisType]

\* A step of a handler outside connect's second half, that publishes nothing.
LEMMA QuietStep ==
    ASSUME SocketInv, Rest', UNCHANGED <<state, dial, proxy>>,
           NEW c \in Call, NEW o, NEW l, NEW v, NEW r, Moved(c, o, l, v, r),
           call[c].pc \notin {"attach", "wait", "done"},
           l \in Stages(o), l # "dummy", PrevOK(c)',
           ~(o = "connect" /\ l = "done" /\ r = "ok")
    PROVE  SocketInv'
<1>1. Shape'
  BY Here DEF SocketInv, Shape, Rest, Moved
<1>2. Forward
  BY DEF Forward
<1>3. StageInv' /\ PrevInv' /\ ConnectOkMeansConnected'
  BY <1>2, CallFrame DEF Moved
<1>4. DialInv'
  <2>1. DialOK(c)
    BY DEF SocketInv, DialInv
  <2>2. DialOK(c)'
    BY <2>1 DEF DialOK, Moved, Won, Plain, Passive
  <2>3. QED
    BY <1>2, <2>2, DialFrame DEF Moved
<1>5. StateInv' /\ ProxyInv'
  BY DEF SocketInv, StateInv, Won, ProxyInv, Carried
<1>6. QED
  BY <1>1, <1>3, <1>4, <1>5 DEF SocketInv
-----------------------------------------------------------------------------
(* The variables that only their types matter of.                           *)

LEMMA RestKept == ASSUME Rest, UNCHANGED <<open, installed, sphase, bphase, lis>> PROVE Rest'
BY DEF Rest

LEMMA SomePhases == {"open", "closing", "closed"} \subseteq Phases
BY DEF Phases

LEMMA RestOfHandlers ==
    ASSUME SocketInv, NEW c \in Call, Lookup(c) \/ Handle(c)
    PROVE  Rest'
<1>0. Rest /\ c \in Maker /\ call[c].sock \in Maker
  <2>1. Rest
    BY DEF SocketInv, Shape, Rest
  <2>2. QED
    BY <2>1, Here DEF CallType
<1>1. CASE \/ Enter(c) \/ Load(c) \/ EnterBind(c) \/ GotName(c) \/ ConnectDummy(c)
           \/ ConnectAttach(c) \/ ConnectWait(c) \/ BindEnter(c) \/ ListenPark(c)
           \/ CloseLoad(c) \/ CloseEnd(c) \/ CloseReleaseProxy(c)
  BY <1>0, <1>1, RestKept
  DEF Enter, Load, EnterBind, GotName, ConnectDummy, ConnectAttach, ConnectWait, BindEnter,
      ListenPark, CloseLoad, CloseEnd, CloseReleaseProxy
<1>2. CASE Lookup(c)
  BY <1>0, <1>2 DEF Rest, Lookup
<1>3. CASE ConnectPublish(c) \/ BindPublish(c) \/ ListenUnbind(c) \/ CloseReleaseBind(c)
           \/ CloseBind(c)
  BY <1>0, <1>3, SomePhases
  DEF Rest, ConnectPublish, BindPublish, ListenUnbind, CloseReleaseBind, CloseBind
<1>4. CASE NetListen(c) \/ ListenPublish(c) \/ CloseReleaseListener(c)
  BY <1>0, <1>4, SomePhases
  DEF Rest, NetListen, ListenPublish, CloseReleaseListener, LisType
<1>5. CASE \/ DupCreate(c) \/ DupInstall(c) \/ Import(c) \/ CloseMark(c)
           \/ CloseDrain(c) \/ CloseRemove(c)
  BY <1>0, <1>5, SomePhases
  DEF Rest, DupCreate, DupInstall, Import, CloseMark, CloseDrain, CloseRemove
<1>6. QED
  BY <1>1, <1>2, <1>3, <1>4, <1>5 DEF Handle, Close

LEMMA RestOfGoroutines ==
    ASSUME SocketInv, NEW c \in Call,
           Completion(c) \/ ProxyEnd(c) \/ ProxyClose(c) \/ AcceptLoopEnd(c)
    PROVE  Rest'
<1>0. Rest
  BY DEF SocketInv, Shape, Rest
<1>1. CASE Join(c) \/ Resolve(c) \/ Reply(c) \/ HangUp(c) \/ ProxyEnd(c) \/ ProxyClose(c)
  BY <1>0, <1>1, RestKept DEF Join, Resolve, Reply, HangUp, ProxyEnd, ProxyClose
<1>2. CASE DialUnbind(c) \/ DialCloseBind(c)
  BY <1>0, <1>2, SomePhases DEF Rest, DialUnbind, DialCloseBind
<1>3. CASE AcceptLoopEnd(c)
  BY <1>0, <1>3, SomePhases DEF Rest, AcceptLoopEnd, LisType
<1>4. QED
  BY <1>1, <1>2, <1>3 DEF Completion
-----------------------------------------------------------------------------
(* The quiet steps.                                                         *)

LEMMA BeginStep ==
    ASSUME SocketInv, NEW c \in Call, Lookup(c) \/ Enter(c)
    PROVE  SocketInv'
<1>0. Rest' /\ call \in [Call -> CallType]
  BY RestOfHandlers, Here DEF Handle
<1>1. CASE Lookup(c)
  <2>1. PICK o \in Operations, s \in Maker, b \in BOOLEAN :
           call' = [call EXCEPT ![c] =
                      [@ EXCEPT !.op = o, !.sock = s, !.blocking = b, !.pc = First(o)]]
    BY <1>1, SocketAssumption DEF Lookup, SocketAssumption, SocketInv, Shape
  <2>2. First(o) \in {"mark", "import", "enter"} /\ First(o) \in Stages(o)
    BY DEF First, Stages, Operations
  <2>3. Moved(c, o, First(o), call[c].prev, call[c].res)
    BY <1>0, <2>1, <2>2, BeginEffect, SomeLabels
  <2>4. PrevOK(c)'
    BY <2>2, <2>3 DEF PrevOK, Moved
  <2>5. QED
    BY <1>0, <1>1, <2>2, <2>3, <2>4, QuietStep DEF Lookup, At
<1>2. CASE Enter(c)
  <2>1. call[c].pc = "enter" /\ UNCHANGED <<state, dial, proxy>>
    BY <1>2 DEF Enter, At
  <2>2. call[c].op \in Operations \ {"close", "cleanup", "import"}
    BY <2>1, Here, StageOf
  <2>3. PICK l \in {"dup", "load", "done"}, r \in Results :
           /\ Moved(c, call[c].op, l, call[c].prev, r)
           /\ l \in Stages(call[c].op)
           /\ l = "done" => r = "EBADF"
    <3>1. CASE sphase[call[c].sock] = "open"
      <4> DEFINE l == IF call[c].op = "dup" THEN "dup" ELSE "load"
      <4>1. l \in {"dup", "load"} /\ l \in Stages(call[c].op)
        BY <2>2 DEF Stages, Operations
      <4>2. call' = [call EXCEPT ![c] = [@ EXCEPT !.ref = TRUE, !.pc = l]]
        BY <1>2, <3>1 DEF Enter
      <4>3. QED
        BY <1>0, <4>1, <4>2, Here, EnterEffect, SomeLabels
    <3>2. CASE sphase[call[c].sock] # "open"
      <4>1. Return(c, "EBADF")
        BY <1>2, <3>2 DEF Enter
      <4>2. QED
        BY <1>0, <2>2, <4>1, ReturnEffect, SomeResults, DoneIsStage
    <3>3. QED
      BY <3>1, <3>2
  <2>4. PrevOK(c)'
    BY <2>3 DEF PrevOK, Moved
  <2>5. QED
    BY <1>0, <2>1, <2>3, <2>4, QuietStep
<1>3. QED
  BY <1>1, <1>2

LEMMA QuietReturn ==
    ASSUME SocketInv, Rest', UNCHANGED <<state, dial, proxy>>, NEW c \in Call,
           call[c].pc \notin {"idle", "attach", "wait", "done"},
           NEW r \in Results, Return(c, r), ~(call[c].op = "connect" /\ r = "ok")
    PROVE  SocketInv'
<1>1. call[c].op \in Operations
  BY Here, StageOf
<1>2. Moved(c, call[c].op, "done", call[c].prev, r)
  BY Here, ReturnEffect
<1>3. "done" \in Stages(call[c].op)
  BY <1>1, DoneIsStage
<1>4. PrevOK(c)'
  BY <1>2 DEF PrevOK, Moved
<1>5. QED
  BY <1>2, <1>3, <1>4, QuietStep

LEMMA QuietGoto ==
    ASSUME SocketInv, Rest', UNCHANGED <<state, dial, proxy>>, NEW c \in Call,
           call[c].pc \notin {"attach", "wait", "done"},
           NEW l \in Labels, Goto(c, l), l \in Stages(call[c].op),
           l \notin {"dummy", "done", "end", "release"},
           l \in {"sockname", "named", "publish", "bind", "bound", "park", "netlisten",
                  "unbind", "listening"}
              => \/ call[c].op = "getsockname" /\ l \in {"sockname", "named"}
                 \/ call[c].prev.kind = "passive"
    PROVE  SocketInv'
<1>1. Moved(c, call[c].op, l, call[c].prev, call[c].res)
  BY Here, GotoEffect
<1>2. PrevOK(c)'
  BY <1>1 DEF PrevOK, Moved
<1>3. QED
  BY <1>1, <1>2, QuietStep

LEMMA LoadStep ==
    ASSUME SocketInv, NEW c \in Call, Load(c)
    PROVE  SocketInv'
<1> DEFINE v == Verdict(call[c].op, state, call[c].blocking)
<1>a. Rest'
  BY RestOfHandlers DEF Handle
<1>b. call[c].pc = "load" /\ UNCHANGED <<state, dial, proxy>>
  BY DEF Load, At
<1>0. /\ Rest' /\ UNCHANGED <<state, dial, proxy>>
      /\ call[c].pc = "load" /\ call \in [Call -> CallType] /\ state \in States
      /\ call[c].op \in {"connect", "bind", "getsockname", "getsockopt", "listen"}
  BY <1>a, <1>b, Here, StageOf
<1>1. CASE v = "go"
  <2> DEFINE l == Onward(call[c].op)
  <2>1. /\ state.kind = "passive" \/ call[c].op = "getsockname"
        /\ call[c].op # "getsockopt"
    BY <1>0, <1>1, VerdictGo
  <2>2. l \in {"bind", "park", "sockname"} /\ l \in Stages(call[c].op)
        /\ (call[c].op = "getsockname" => l = "sockname")
    BY <1>0, <2>1 DEF Onward, Stages
  <2>3. Moved(c, call[c].op, l, state, call[c].res)
    BY <1>0, <1>1, <2>2, LoadEffect, SomeLabels DEF Load
  <2>4. PrevOK(c)'
    BY <2>1, <2>2, <2>3 DEF PrevOK, Moved
  <2>5. QED
    BY <1>0, <2>2, <2>3, <2>4, QuietStep
<1>2. CASE v # "go"
  <2>1. v \in Results
    BY <1>0, <1>2, VerdictType
  <2>2. call[c].op = "connect" => v # "ok"
    BY <1>0 DEF Verdict, BusyVerdict, ConnectVerdict, States, Kinds
  <2>3. QED
    BY <1>0, <1>2, <2>1, <2>2, QuietReturn DEF Load
<1>3. QED
  BY <1>1, <1>2

LEMMA NameStep ==
    ASSUME SocketInv, NEW c \in Call, EnterBind(c) \/ GotName(c)
    PROVE  SocketInv'
<1> DEFINE after == AfterName(call[c].op)
<1>a. Rest'
  BY RestOfHandlers DEF Handle
<1>b. call[c].pc \in {"sockname", "named"} /\ UNCHANGED <<state, dial, proxy>>
  BY DEF EnterBind, GotName, At
<1>0. /\ Rest' /\ UNCHANGED <<state, dial, proxy>>
      /\ call[c].pc \in {"sockname", "named"} /\ call \in [Call -> CallType]
      /\ call[c].op \in {"connect", "getsockname", "listen"}
  BY <1>a, <1>b, Here, StageOf
<1>1. call[c].op # "getsockname" => call[c].prev.kind = "passive"
  BY <1>0 DEF SocketInv, PrevInv, PrevOK
<1>2. call[c].op # "getsockname" => after \in {"publish", "netlisten"}
                                    /\ after \in Stages(call[c].op)
  BY <1>0 DEF AfterName, Stages
<1>3. ASSUME NEW b \in Call \cup {None}, NEW l \in {"named", after},
             l = "named" \/ call[c].op # "getsockname",
             call' = [call EXCEPT ![c] = [@ EXCEPT !.held = b, !.pc = l]]
      PROVE  SocketInv'
  <2>1. l \in Labels /\ l \in Stages(call[c].op) /\ l \in {"named", "publish", "netlisten"}
    BY <1>0, <1>2, <1>3, SomeLabels DEF Stages
  <2>2. Moved(c, call[c].op, l, call[c].prev, call[c].res)
    BY <1>0, <1>3, <2>1, HoldEffect
  <2>3. PrevOK(c)'
    BY <1>1, <1>3, <2>1, <2>2 DEF PrevOK, Moved
  <2>4. QED
    BY <1>0, <2>1, <2>2, <2>3, QuietStep
<1>4. CASE EnterBind(c)
  <2> DEFINE b == call[c].prev.bind
  <2>1. b \in Call \cup {None}
    BY Here DEF States
  <2>2. CASE \/ Return(c, "ok") /\ call[c].op = "getsockname"
             \/ Return(c, "EBADF")
    BY <1>0, <2>2, SomeResults, QuietReturn
  <2>3. CASE Goto(c, after) /\ call[c].op # "getsockname"
    BY <1>0, <1>1, <1>2, <2>3, SomeLabels, QuietGoto
  <2>4. CASE call' = [call EXCEPT ![c] = [@ EXCEPT !.held = b, !.pc = "named"]]
    BY <1>3, <2>1, <2>4
  <2>5. QED
    BY <1>0, <1>4, <2>2, <2>3, <2>4 DEF EnterBind
<1>5. CASE GotName(c)
  <2>1. CASE call[c].op = "getsockname"
    BY <1>0, <1>5, <2>1, SomeResults, QuietReturn DEF GotName
  <2>2. CASE call[c].op # "getsockname"
    BY <1>3, <1>5, <2>2 DEF GotName
  <2>3. QED
    BY <2>1, <2>2
<1>6. QED
  BY <1>4, <1>5

\* bind and listen, up to the step that publishes.
LEMMA PrepareStep ==
    ASSUME SocketInv, NEW c \in Call,
           BindEnter(c) \/ ListenPark(c) \/ NetListen(c) \/ ListenUnbind(c)
    PROVE  SocketInv'
<1>a. Rest'
  BY RestOfHandlers DEF Handle
<1>b. call[c].pc \in {"bind", "park", "netlisten", "unbind"} /\ UNCHANGED <<state, dial, proxy>>
  BY DEF BindEnter, ListenPark, NetListen, ListenUnbind, At
<1>c. /\ call \in [Call -> CallType]
      /\ call[c].op = IF call[c].pc = "bind" THEN "bind" ELSE "listen"
  BY <1>b, Here, StageOf
<1>d. call[c].prev.kind = "passive" /\ call[c].prev.bind \in Call \cup {None}
  BY <1>b, Here DEF SocketInv, PrevInv, PrevOK, States
<1>1. CASE \E r \in {"EBADF", "unanswered", "EADDRINUSE"} : Return(c, r)
  BY <1>a, <1>b, <1>c, <1>1, SomeResults, QuietReturn
<1>2. CASE \E l \in {"sockname", "unbind", "listening"} : Goto(c, l) /\ call[c].pc # "bind"
  <2>1. PICK l \in {"sockname", "unbind", "listening"} : Goto(c, l) /\ call[c].pc # "bind"
    BY <1>2
  <2>2. l \in Labels /\ l \in Stages(call[c].op)
    BY <1>c, <2>1, SomeLabels DEF Stages
  <2>3. QED
    BY <1>a, <1>b, <1>d, <2>1, <2>2, QuietGoto
<1>3. CASE /\ call[c].pc = "bind"
           /\ call' = [call EXCEPT ![c] = [@ EXCEPT !.held = call[c].prev.bind, !.pc = "bound"]]
  <2>1. Moved(c, "bind", "bound", call[c].prev, call[c].res)
    BY <1>c, <1>d, <1>3, HoldEffect, SomeLabels
  <2>2. "bound" \in Stages("bind") /\ PrevOK(c)'
    BY <1>d, <2>1 DEF Stages, PrevOK, Moved
  <2>3. QED
    BY <1>a, <1>b, <2>1, <2>2, QuietStep
<1>4. QED
  <2>1. CASE BindEnter(c)
    BY <1>1, <1>3, <2>1 DEF BindEnter, At
  <2>2. CASE ListenPark(c) \/ NetListen(c) \/ ListenUnbind(c)
    BY <1>1, <1>2, <2>2 DEF ListenPark, NetListen, ListenUnbind, At
  <2>3. QED
    BY <2>1, <2>2

\* fcntl and the import of a child's descriptors.
LEMMA DuplicateStep ==
    ASSUME SocketInv, NEW c \in Call, DupCreate(c) \/ DupInstall(c) \/ Import(c)
    PROVE  SocketInv'
<1>a. Rest'
  BY RestOfHandlers DEF Handle
<1>b. call[c].pc \in {"dup", "install", "import"} /\ UNCHANGED <<state, dial, proxy>>
  BY DEF DupCreate, DupInstall, Import, At
<1>c. call[c].op = IF call[c].pc = "import" THEN "import" ELSE "dup"
  BY <1>b, Here, StageOf
<1>1. CASE \E r \in {"ok", "cancelled"} : Return(c, r)
  BY <1>a, <1>b, <1>c, <1>1, SomeResults, QuietReturn
<1>2. CASE call[c].pc = "dup" /\ Goto(c, "install")
  <2>1. "install" \in Labels /\ "install" \in Stages(call[c].op)
    BY <1>c, <1>2, SomeLabels DEF Stages
  <2>2. QED
    BY <1>a, <1>b, <1>2, <2>1, QuietGoto
<1>3. QED
  BY <1>1, <1>2 DEF DupCreate, DupInstall, Import, At

\* close(2) and cleanup, but for the step that ends the inode and the release
\* of a proxy.
LEMMA CloseStep ==
    ASSUME SocketInv, NEW c \in Call,
           \/ CloseMark(c) \/ CloseDrain(c) \/ CloseRemove(c) \/ CloseLoad(c)
           \/ CloseReleaseBind(c) \/ CloseBind(c) \/ CloseReleaseListener(c)
    PROVE  SocketInv'
<1>a. Rest'
  BY RestOfHandlers DEF Handle, Close
<1>b. call[c].pc \in {"mark", "drain", "remove", "final", "release", "lock"}
      /\ UNCHANGED <<state, dial, proxy>>
  BY DEF CloseMark, CloseDrain, CloseRemove, CloseLoad, CloseReleaseBind, CloseBind,
         CloseReleaseListener, At
<1>c. /\ call \in [Call -> CallType] /\ state \in States
      /\ call[c].op \in {"close", "cleanup"}
  BY <1>b, Here, StageOf
<1>1. CASE \E r \in {"ok", "EBADF"} : Return(c, r)
  BY <1>a, <1>b, <1>c, <1>1, SomeResults, QuietReturn
<1>2. CASE \E l \in {"drain", "remove", "final", "lock"} : Goto(c, l)
  <2>1. PICK l \in {"drain", "remove", "final", "lock"} : Goto(c, l)
    BY <1>2
  <2>2. l \in Labels /\ l \in Stages(call[c].op)
    BY <1>c, SomeLabels DEF Stages
  <2>3. QED
    BY <1>a, <1>b, <2>1, <2>2, QuietGoto
<1>3. CASE CloseLoad(c)
  <2> DEFINE l == IF state.kind = "closed" THEN "panic" ELSE "end"
  <2>1. l \in Labels /\ l \in Stages(call[c].op) /\ l \in {"panic", "end"}
    BY <1>c, SomeLabels DEF Stages
  <2>2. Moved(c, call[c].op, l, state, call[c].res)
    BY <1>c, <1>3, <2>1, LoadEffect DEF CloseLoad
  <2>3. PrevOK(c)'
    BY <2>2 DEF PrevOK, Moved
  <2>4. QED
    BY <1>a, <1>b, <2>1, <2>2, <2>3, QuietStep
<1>4. QED
  BY <1>1, <1>2, <1>3
  DEF CloseMark, CloseDrain, CloseRemove, CloseReleaseBind, CloseBind, CloseReleaseListener
-----------------------------------------------------------------------------
(* The steps that publish a state, and connect's second half.               *)

\* The compare-and-swap of a handler that has loaded a Passive state: nobody
\* has won, and nobody can be connected.
LEMMA PublishStep ==
    ASSUME SocketInv, Rest', NEW c \in Call, state.kind = "passive",
           state' \in States, state'.kind \in {"passive", "listening"},
           state'.kind = "listening" => state'.by \in Call,
           UNCHANGED <<dial, proxy>>,
           call[c].pc \in {"bound", "listening"}, NEW r \in Results, Return(c, r)
    PROVE  SocketInv'
<1>1. Forward /\ call[c].op \in {"bind", "listen"}
  BY Here, StageOf DEF Forward
<1>2. Moved(c, call[c].op, "done", call[c].prev, r)
  BY Here, ReturnEffect
<1>3. Shape'
  BY <1>2, Here DEF SocketInv, Shape, Rest, Moved
<1>4. StageInv' /\ PrevInv' /\ ConnectOkMeansConnected'
  <2>1. PrevOK(c)' /\ "done" \in Stages(call[c].op)
    BY <1>1, <1>2, DoneIsStage DEF PrevOK, Moved, Operations
  <2>2. QED
    BY <1>1, <1>2, <2>1, CallFrame DEF Moved
<1>5. DialInv'
  <2>1. DialOK(c)
    BY DEF SocketInv, DialInv
  <2>2. ~Won(c)
    BY <2>1 DEF DialOK, Plain
  <2>3. DialOK(c)'
    BY <1>2, <2>1, <2>2 DEF DialOK, Moved, Won, Plain, Passive
  <2>4. QED
    BY <1>1, <1>2, <2>3, DialFrame DEF Moved
<1>6. StateInv' /\ ProxyInv'
  BY DEF SocketInv, StateInv, ProxyInv, Carried
<1>7. QED
  BY <1>3, <1>4, <1>5, <1>6 DEF SocketInv

LEMMA BindPublishStep ==
    ASSUME SocketInv, NEW c \in Call, BindPublish(c)
    PROVE  SocketInv'
<1>a. Rest'
  BY RestOfHandlers DEF Handle
<1>b. call[c].pc = "bound" /\ UNCHANGED <<dial, proxy>>
  BY DEF BindPublish, At
<1>c. /\ call[c].op = "bind" /\ call[c].prev.kind = "passive"
      /\ call[c].prev.bind \in Call \cup {None} /\ c \in Maker
  BY <1>b, Here, StageOf DEF SocketInv, PrevInv, PrevOK, States
<1>1. PICK e \in {"ok", "EADDRINUSE", "EINVAL"}, b \in Call \cup {None} :
        /\ state' = IF state = call[c].prev THEN Passive(b, e, c) ELSE state
        /\ Return(c, IF state = call[c].prev THEN e ELSE "ERESTART")
  BY <1>c DEF BindPublish
<1>2. CASE state = call[c].prev
  <2>1. state' \in States /\ state'.kind = "passive"
    BY <1>1, <1>2, <1>c, SomeResults, BindTypes DEF Passive
  <2>2. QED
    BY <1>a, <1>b, <1>c, <1>1, <1>2, <2>1, SomeResults, PublishStep
<1>3. CASE state # call[c].prev
  BY <1>a, <1>b, <1>c, <1>1, <1>3, SomeResults, QuietReturn
<1>4. QED
  BY <1>2, <1>3

LEMMA ListenPublishStep ==
    ASSUME SocketInv, NEW c \in Call, ListenPublish(c)
    PROVE  SocketInv'
<1>a. Rest'
  BY RestOfHandlers DEF Handle
<1>b. call[c].pc = "listening" /\ UNCHANGED <<dial, proxy>>
  BY DEF ListenPublish, At
<1>c. call[c].op = "listen" /\ call[c].prev.kind = "passive" /\ c \in Maker
  BY <1>b, Here, StageOf DEF SocketInv, PrevInv, PrevOK
<1>1. CASE state = call[c].prev
  <2>1. state' = Plain("listening", c) /\ Return(c, "ok")
    BY <1>1 DEF ListenPublish
  <2>2. state' \in States /\ state'.kind = "listening" /\ state'.by = c
    BY <1>c, <2>1, PlainType DEF Plain, Kinds
  <2>3. QED
    BY <1>a, <1>b, <1>c, <1>1, <2>1, <2>2, SomeResults, PublishStep
<1>2. CASE state # call[c].prev
  BY <1>a, <1>b, <1>c, <1>2, SomeResults, QuietReturn DEF ListenPublish
<1>3. QED
  BY <1>1, <1>2

\* The end of the inode: every claim about a live state is void.
LEMMA CloseEndStep ==
    ASSUME SocketInv, NEW c \in Call, CloseEnd(c)
    PROVE  SocketInv'
<1>a. Rest'
  BY RestOfHandlers DEF Handle, Close
<1>b. call[c].pc = "end" /\ UNCHANGED <<dial, proxy>>
  BY DEF CloseEnd, At
<1>c. /\ call[c].op \in {"close", "cleanup"} /\ c \in Maker
      /\ "release" \in Labels /\ "final" \in Labels
  BY <1>b, Here, StageOf, SomeLabels
<1>1. CASE state # call[c].prev
  <2>1. Goto(c, "final") /\ UNCHANGED state
    BY <1>1 DEF CloseEnd
  <2>2. "final" \in Stages(call[c].op)
    BY <1>c DEF Stages
  <2>3. QED
    BY <1>a, <1>b, <1>c, <2>1, <2>2, QuietGoto
<1>2. CASE state = call[c].prev
  <2>1. state' = Plain("closed", c) /\ Goto(c, "release")
    BY <1>2 DEF CloseEnd
  <2>2. Moved(c, call[c].op, "release", call[c].prev, call[c].res)
    BY <1>c, <2>1, Here, GotoEffect
  <2>3. state' \in States /\ state'.kind = "closed" /\ Forward
    BY <1>c, <2>1, PlainType DEF Plain, Kinds, Forward
  <2>4. Shape'
    BY <1>a, <1>b, <2>2, <2>3, Here DEF SocketInv, Shape, Rest, Moved
  <2>5. StageInv' /\ PrevInv' /\ ConnectOkMeansConnected'
    <3>1. PrevOK(c)'
      BY <1>2, <2>2, <2>3 DEF PrevOK, Moved, SocketInv, StateInv
    <3>2. "release" \in Stages(call[c].op)
      BY <1>c DEF Stages
    <3>3. QED
      BY <2>2, <2>3, <3>1, <3>2, CallFrame DEF Moved
  <2>6. DialInv'
    <3>1. DialOK(c)
      BY DEF SocketInv, DialInv
    <3>2. DialOK(c)'
      BY <1>b, <2>2, <2>3, <3>1 DEF DialOK, Moved, Plain, Passive
    <3>3. QED
      BY <1>b, <2>2, <2>3, <3>2, DialFrame DEF Moved
  <2>7. StateInv' /\ ProxyInv'
    BY <2>3 DEF StateInv, ProxyInv
  <2>8. QED
    BY <2>4, <2>5, <2>6, <2>7 DEF SocketInv
<1>3. QED
  BY <1>1, <1>2

\* The release of a proxy, which only a closed inode has.
LEMMA ReleaseProxyStep ==
    ASSUME SocketInv, NEW c \in Call, CloseReleaseProxy(c)
    PROVE  SocketInv'
<1>a. Rest'
  BY RestOfHandlers DEF Handle, Close
<1>b. call[c].pc = "release" /\ Return(c, "ok") /\ UNCHANGED <<state, dial>>
  BY DEF CloseReleaseProxy, At
<1>c. state.kind = "closed" /\ call[c].prev.by \in Call
      /\ call[c].op \in {"close", "cleanup"}
  BY <1>b, Here, StageOf DEF SocketInv, PrevInv, PrevOK, CloseReleaseProxy
<1>1. proxy' \in [Call -> ProxyType]
  <2> DEFINE p == call[c].prev.by
             r == [proxy[p] EXCEPT !.skip = TRUE,
                     !.conns = IF proxy[p].skip THEN "closed" ELSE proxy[p].conns]
  <2>1. proxy' = [proxy EXCEPT ![p] = r]
    BY DEF CloseReleaseProxy
  <2>2. proxy \in [Call -> ProxyType] /\ p \in Call
    BY <1>c, Here
  <2>3. proxy[p] \in ProxyType
    BY <2>2
  <2>4. r \in ProxyType
    BY <2>3 DEF ProxyType
  <2>5. QED
    <3> HIDE DEF p, r
    <3> QED
      BY <2>1, <2>2, <2>4
<1>2. Moved(c, call[c].op, "done", call[c].prev, "ok")
  BY <1>b, Here, ReturnEffect, SomeResults
<1>3. Shape' /\ Forward
  BY <1>a, <1>b, <1>1, <1>2, Here DEF SocketInv, Shape, Rest, Moved, Forward
<1>4. StageInv' /\ PrevInv' /\ ConnectOkMeansConnected'
  <2>1. PrevOK(c)' /\ "done" \in Stages(call[c].op)
    BY <1>2, <1>c, DoneIsStage DEF PrevOK, Moved, Operations
  <2>2. QED
    BY <1>2, <1>3, <1>c, <2>1, CallFrame DEF Moved
<1>5. DialInv'
  <2>1. DialOK(c)
    BY DEF SocketInv, DialInv
  <2>2. DialOK(c)'
    BY <1>b, <1>2, <2>1 DEF DialOK, Moved, Won, Plain, Passive
  <2>3. QED
    BY <1>b, <1>2, <1>3, <2>2, DialFrame DEF Moved
<1>6. StateInv' /\ ProxyInv'
  BY <1>b, <1>c DEF SocketInv, StateInv, Won, ProxyInv
<1>7. QED
  BY <1>3, <1>4, <1>5, <1>6 DEF SocketInv

\* connect up to the tracee's connect(2).
LEMMA ConnectPublishStep ==
    ASSUME SocketInv, NEW c \in Call, ConnectPublish(c)
    PROVE  SocketInv'
<1> DEFINE b == BindFor(c)
<1>a. Rest'
  BY RestOfHandlers DEF Handle
<1>b. call[c].pc = "publish" /\ UNCHANGED proxy
  BY DEF ConnectPublish, At
<1>c. /\ call[c].op = "connect" /\ call[c].prev.kind = "passive" /\ c \in Maker
      /\ b \in Call
  BY <1>b, Here, StageOf DEF SocketInv, PrevInv, PrevOK, States, BindFor
<1>1. CASE state # call[c].prev
  BY <1>a, <1>b, <1>c, <1>1, SomeResults, QuietReturn DEF ConnectPublish
<1>2. CASE state = call[c].prev
  <2>1. /\ state' = Connecting(b, c) /\ Goto(c, "dummy")
        /\ dial' = [dial EXCEPT ![c].bind = b]
    BY <1>2 DEF ConnectPublish
  <2>2. /\ state' \in States /\ state'.kind = "connecting" /\ state'.bind # None
        /\ Forward
    BY <1>c, <1>2, <2>1, SocketAssumption, SomeResults, BindTypes
    DEF Connecting, Forward, SocketAssumption
  <2>3. Moved(c, "connect", "dummy", call[c].prev, call[c].res)
    BY <1>c, <2>1, SomeLabels, Here, GotoEffect
  <2>4. /\ dial' \in [Call -> DialType]
        /\ dial'[c] = [dial[c] EXCEPT !.bind = b]
        /\ \A d \in Call \ {c} : dial'[d] = dial[d]
    BY <1>c, <2>1, Here DEF DialType
  <2>5. Shape'
    BY <1>a, <1>b, <2>2, <2>3, <2>4, Here DEF SocketInv, Shape, Rest, Moved
  <2>6. StageInv' /\ PrevInv' /\ ConnectOkMeansConnected'
    <3>1. PrevOK(c)' /\ "dummy" \in Stages("connect")
      BY <2>3 DEF PrevOK, Moved, Stages
    <3>2. QED
      BY <2>2, <2>3, <3>1, CallFrame DEF Moved
  <2>7. dial[c].pc = "idle" /\ DialInv'
    <3>1. DialOK(c) /\ dial[c].pc = "idle"
      BY <1>b DEF SocketInv, DialInv, DialOK
    <3>2. dial'[c].pc = "idle" /\ dial'[c].bind # None /\ dial'[c].reply = "none"
      BY <1>c, <2>4, <3>1, Here, CallIsMaker DEF DialType, DialOK
    <3>3. DialOK(c)'
      BY <2>3, <3>2 DEF DialOK, Moved, Won
    <3>4. QED
      BY <2>2, <2>3, <2>4, <3>1, <3>3, DialFrame DEF Moved
  <2>8. ProxyInv'
    <3>1. Carried(c)
      BY <1>c, <1>2 DEF SocketInv, ProxyInv
    <3>2. Carried(c)'
      BY <1>b, <2>4, <2>7, <3>1, Here DEF Carried, DialType
    <3>3. QED
      BY <1>b, <2>2, <2>4, <3>2, ProxyFrame
  <2>9. StateInv'
    BY <2>2 DEF StateInv
  <2>10. QED
    BY <2>5, <2>6, <2>7, <2>8, <2>9 DEF SocketInv
<1>3. QED
  BY <1>1, <1>2

\* A step of connect's handler or of its goroutines that leaves the state.
LEMMA ConnectStep ==
    ASSUME SocketInv, Rest', UNCHANGED state, NEW c \in Call,
           call' \in [Call -> CallType], dial' \in [Call -> DialType],
           proxy' \in [Call -> ProxyType],
           \A d \in Call \ {c} :
              call'[d] = call[d] /\ dial'[d] = dial[d] /\ proxy'[d] = proxy[d],
           call'[c].pc \in Stages(call'[c].op), PrevOK(c)',
           call'[c].op = "connect" /\ call'[c].pc = "done" /\ call'[c].res = "ok" =>
              (state = Plain("connected", c) \/ state.kind = "closed"),
           DialOK(c)', Won(c) => Won(c)', state.kind # "closed" => Carried(c)'
    PROVE  SocketInv'
<1>1. Shape' /\ Forward
  BY DEF SocketInv, Shape, Rest, Forward
<1>2. StageInv' /\ PrevInv' /\ ConnectOkMeansConnected'
  BY <1>1, CallFrame
<1>3. DialInv' /\ ProxyInv'
  BY <1>1, DialFrame, ProxyFrame
<1>4. StateInv'
  BY DEF SocketInv, StateInv, Won
<1>5. QED
  BY <1>1, <1>2, <1>3, <1>4 DEF SocketInv

\* What SocketInv says of one connect.
LEMMA ThisConnect ==
    ASSUME SocketInv, NEW c \in Call
    PROVE  /\ PrevOK(c) /\ DialOK(c)
           /\ state.kind # "closed" => Carried(c)
           /\ call[c].op = "connect" /\ call[c].pc = "done" /\ call[c].res = "ok" =>
                 (state = Plain("connected", c) \/ state.kind = "closed")
BY DEF SocketInv, PrevInv, DialInv, ProxyInv, ConnectOkMeansConnected, At

LEMMA ConnectDummyStep ==
    ASSUME SocketInv, NEW c \in Call, ConnectDummy(c)
    PROVE  SocketInv'
<1>a. Rest'
  BY RestOfHandlers DEF Handle
<1>b. call[c].pc = "dummy" /\ UNCHANGED <<state, proxy>>
  BY DEF ConnectDummy, At
<1>c. call[c].op = "connect" /\ dial[c].pc = "idle" /\ dial[c].reply = "none"
      /\ dial[c].bind # None
  BY <1>b, Here, StageOf, ThisConnect DEF DialOK
<1>1. CASE Return(c, "unanswered") /\ UNCHANGED dial
  BY <1>a, <1>b, <1>c, <1>1, SomeResults, QuietReturn
<1>2. CASE dial' = [dial EXCEPT ![c].pc = "join"] /\ Goto(c, "attach")
  <2>1. Moved(c, "connect", "attach", call[c].prev, call[c].res)
    BY <1>c, <1>2, SomeLabels, Here, GotoEffect
  <2>2. /\ dial' \in [Call -> DialType]
        /\ dial'[c] = [dial[c] EXCEPT !.pc = "join"]
        /\ \A d \in Call \ {c} : dial'[d] = dial[d]
    BY <1>2, Here DEF DialType, DialStages
  <2>3. dial'[c].pc = "join" /\ dial'[c].reply = "none" /\ dial'[c].bind # None
    BY <1>c, <2>2, Here DEF DialType
  <2>4. DialOK(c)' /\ ~Won(c)
    BY <1>c, <2>1, <2>3 DEF DialOK, Moved, Won
  <2>5. state.kind # "closed" => Carried(c)'
    BY <1>b, <1>c, <2>3, ThisConnect DEF Carried
  <2>6. PrevOK(c)' /\ "attach" \in Stages("connect")
    BY <2>1 DEF PrevOK, Moved, Stages
  <2>7. QED
    BY <1>a, <1>b, <2>1, <2>2, <2>4, <2>5, <2>6, Here, ConnectStep DEF Moved
<1>3. QED
  BY <1>1, <1>2 DEF ConnectDummy

LEMMA ConnectAttachStep ==
    ASSUME SocketInv, NEW c \in Call, ConnectAttach(c)
    PROVE  SocketInv'
<1>a. Rest'
  BY RestOfHandlers DEF Handle
<1>b. call[c].pc = "attach" /\ UNCHANGED <<state, proxy>>
  BY DEF ConnectAttach, At
<1>c. call[c].op = "connect"
  BY <1>b, Here, StageOf
<1>1. PICK l \in {"wait", "done"}, r \in Results :
        /\ Moved(c, "connect", l, call[c].prev, r)
        /\ l = "done" => r # "ok"
  <2> DEFINE e == AttachErrno(c)
  <2>1. e \in Results
    BY SomeResults DEF AttachErrno
  <2>2. CASE call[c].blocking
    <3>1. call' = [call EXCEPT ![c] = [@ EXCEPT !.pc = "wait", !.res = e]]
      BY <2>2 DEF ConnectAttach
    <3>2. "wait" \in Labels /\ call \in [Call -> CallType]
      BY SomeLabels, Here
    <3>3. Moved(c, call[c].op, "wait", call[c].prev, e)
      BY <2>1, <3>1, <3>2, AwaitEffect
    <3>4. QED
      BY <1>c, <2>1, <3>3
  <2>3. CASE ~call[c].blocking
    <3>1. Return(c, e) /\ e # "ok"
      BY <2>3 DEF ConnectAttach, AttachErrno
    <3>2. QED
      BY <1>c, <2>1, <3>1, Here, ReturnEffect
  <2>4. QED
    BY <2>2, <2>3
<1>2. /\ dial' \in [Call -> DialType]
      /\ dial'[c] = [dial[c] EXCEPT !.accepted = ~kernel.wired]
      /\ \A d \in Call \ {c} : dial'[d] = dial[d]
  <2> DEFINE e == [dial[c] EXCEPT !.accepted = ~kernel.wired]
  <2>1. dial' = [dial EXCEPT ![c] = e]
    BY DEF ConnectAttach
  <2>2. dial \in [Call -> DialType]
    BY Here
  <2>3. e \in DialType
    BY <2>2 DEF DialType
  <2>4. QED
    BY <2>1, <2>2, <2>3
<1>3. /\ dial'[c].pc = dial[c].pc /\ dial'[c].reply = dial[c].reply
      /\ dial'[c].bind = dial[c].bind /\ dial'[c].next = dial[c].next
      /\ dial'[c].errno = dial[c].errno
  BY <1>2, Here DEF DialType
<1>4. DialOK(c)' /\ (Won(c) => Won(c)')
  BY <1>b, <1>1, <1>3, ThisConnect DEF DialOK, Moved, Won, Plain, Passive
<1>5. state.kind # "closed" => Carried(c)'
  BY <1>b, <1>3, ThisConnect DEF Carried
<1>6. PrevOK(c)' /\ {"wait", "done"} \subseteq Stages("connect")
  BY <1>1 DEF PrevOK, Moved, Stages
<1>7. QED
  BY <1>a, <1>b, <1>1, <1>2, <1>4, <1>5, <1>6, Here, ConnectStep DEF Moved

\* A blocking connect answers "ok" only when its goroutine has won.
LEMMA ConnectWaitStep ==
    ASSUME SocketInv, NEW c \in Call, ConnectWait(c)
    PROVE  SocketInv'
<1> DEFINE r == ConnectAnswer(c)
<1>a. Rest'
  BY RestOfHandlers DEF Handle
<1>b. call[c].pc = "wait" /\ Return(c, r) /\ UNCHANGED <<state, dial, proxy>>
      /\ dial[c].reply # "none"
  BY DEF ConnectWait, At
<1>c. call[c].op = "connect"
  BY <1>b, Here, StageOf
<1>1. r \in Results
  BY Here DEF ConnectAnswer, DialType
<1>2. Moved(c, "connect", "done", call[c].prev, r)
  BY <1>b, <1>c, <1>1, Here, ReturnEffect
<1>3. r = "ok" => state = Plain("connected", c) \/ state.kind = "closed"
  BY <1>b, Here, ThisConnect DEF ConnectAnswer, DialOK, Won, DialType, DialStages
<1>4. DialOK(c)' /\ (Won(c) => Won(c)')
  BY <1>b, <1>2, ThisConnect DEF DialOK, Moved, Won, Plain, Passive
<1>5. state.kind # "closed" => Carried(c)'
  BY <1>b, ThisConnect DEF Carried
<1>6. PrevOK(c)' /\ "done" \in Stages("connect")
  BY <1>2 DEF PrevOK, Moved, Stages
<1>7. QED
  BY <1>a, <1>b, <1>2, <1>3, <1>4, <1>5, <1>6, Here, ConnectStep DEF Moved
-----------------------------------------------------------------------------
(* The goroutines.                                                          *)

\* A step of the goroutines of c that leaves the state and the handlers.
LEMMA GoroutineStep ==
    ASSUME SocketInv, Rest', UNCHANGED <<state, call>>, NEW c \in Call,
           dial' \in [Call -> DialType], proxy' \in [Call -> ProxyType],
           \A d \in Call \ {c} : dial'[d] = dial[d] /\ proxy'[d] = proxy[d],
           DialOK(c)', Won(c) => Won(c)', state.kind # "closed" => Carried(c)'
    PROVE  SocketInv'
<1>1. PrevOK(c)'
  BY ThisConnect DEF PrevOK
<1>2. QED
  BY <1>1, Here, ThisConnect, ConnectStep

LEMMA JoinStep ==
    ASSUME SocketInv, NEW c \in Call, Join(c)
    PROVE  SocketInv'
<1>a. Rest' /\ UNCHANGED <<state, call>> /\ dial[c].pc = "join"
  BY RestOfGoroutines DEF Completion, Join
<1>1. PICK o \in {"ok", "refused", "unknown"} :
        /\ dial' = [dial EXCEPT ![c] =
              [@ EXCEPT !.pc = IF Unresolved(o) THEN "reply" ELSE "swap",
                        !.next = IF o = "ok" THEN Plain("connected", c)
                                 ELSE Passive(dial[c].bind, "ECONNREFUSED", c),
                        !.errno = CASE o = "ok" -> "ok"
                                    [] o = "refused" -> "ECONNREFUSED"
                                    [] o = "unknown" -> "ENOSYS"]]
        /\ proxy' = [proxy EXCEPT ![c] =
              [@ EXCEPT !.conns = "open",
                        !.run = IF o = "ok" THEN "running" ELSE "idle"]]
  BY SocketAssumption DEF Join, SocketAssumption
<1> DEFINE p == IF Unresolved(o) THEN "reply" ELSE "swap"
           e == CASE o = "ok" -> "ok" [] o = "refused" -> "ECONNREFUSED"
                  [] o = "unknown" -> "ENOSYS"
           n == IF o = "ok" THEN Plain("connected", c)
                ELSE Passive(dial[c].bind, "ECONNREFUSED", c)
<1>2. /\ p = IF o = "unknown" THEN "reply" ELSE "swap"
      /\ e \in Results /\ (e = "ok" <=> o = "ok")
      /\ p \in DialStages
  BY SomeResults DEF Unresolved, DialStages
<1>3. n \in States
  <2>1. dial[c].bind \in Call \cup {None}
    BY Here DEF DialType
  <2>2. QED
    BY <2>1, Here, SomeResults, BindTypes, PlainType DEF Kinds
<1>4. /\ dial' \in [Call -> DialType]
      /\ dial'[c].pc = p /\ dial'[c].errno = e /\ dial'[c].next = n
      /\ dial'[c].reply = dial[c].reply /\ dial'[c].bind = dial[c].bind
      /\ \A d \in Call \ {c} : dial'[d] = dial[d]
  <2> HIDE DEF p, e, n
  <2>1. dial' = [dial EXCEPT ![c] = [@ EXCEPT !.pc = p, !.next = n, !.errno = e]]
    BY <1>1 DEF p, e, n
  <2>2. QED
    BY <1>2, <1>3, <2>1, Here DEF DialType
<1>5. /\ proxy' \in [Call -> ProxyType]
      /\ proxy'[c].conns = "open" /\ proxy'[c].skip = proxy[c].skip
      /\ proxy'[c].run = IF o = "ok" THEN "running" ELSE "idle"
      /\ \A d \in Call \ {c} : proxy'[d] = proxy[d]
  BY <1>1, Here DEF ProxyType
<1>6. DialOK(c)' /\ ~Won(c)
  <2>1. /\ dial[c].reply = "none" /\ dial[c].bind # None
        /\ call[c].pc \in {"attach", "wait", "done"}
    BY <1>a, ThisConnect DEF DialOK
  <2>2. ~Won(c)' /\ ~Won(c)
    BY <1>a, <1>2, <1>4 DEF Won
  <2>3. dial'[c].next = IF dial'[c].errno = "ok" THEN Plain("connected", c)
                        ELSE Passive(dial'[c].bind, "ECONNREFUSED", c)
    BY <1>2, <1>4
  <2>4. QED
    BY <1>a, <1>2, <1>4, <2>1, <2>2, <2>3 DEF DialOK, Plain, Passive
<1>7. state.kind # "closed" => Carried(c)'
  BY <1>a, <1>2, <1>4, <1>5, ThisConnect DEF Carried
<1>8. QED
  BY <1>a, <1>4, <1>5, <1>6, <1>7, GoroutineStep

\* The compare-and-swap that ends a connect is the only way to Connected.
LEMMA ResolveStep ==
    ASSUME SocketInv, NEW c \in Call, Resolve(c)
    PROVE  SocketInv'
<1>a. Rest' /\ UNCHANGED <<call, proxy>> /\ dial[c].pc = "swap"
  BY RestOfGoroutines DEF Completion, Resolve
<1>b. /\ dial[c].reply = "none" /\ dial[c].bind # None
      /\ call[c].pc \in {"attach", "wait", "done"}
      /\ dial[c].next = IF dial[c].errno = "ok" THEN Plain("connected", c)
                        ELSE Passive(dial[c].bind, "ECONNREFUSED", c)
  BY <1>a, ThisConnect DEF DialOK
<1>1. CASE state # Connecting(dial[c].bind, c)
  <2>1. UNCHANGED state
        /\ dial' = [dial EXCEPT ![c] = [@ EXCEPT !.pc = "reply", !.errno = "ERESTART"]]
    BY <1>1 DEF Resolve
  <2>2. /\ dial' \in [Call -> DialType]
        /\ dial'[c].pc = "reply" /\ dial'[c].errno = "ERESTART"
        /\ dial'[c].reply = dial[c].reply /\ dial'[c].bind = dial[c].bind
        /\ \A d \in Call \ {c} : dial'[d] = dial[d]
    BY <2>1, Here, SomeResults DEF DialType, DialStages
  <2>3. DialOK(c)' /\ ~Won(c)
    BY <1>a, <1>b, <2>2 DEF DialOK, Won
  <2>4. Carried(c)'
    BY <2>2 DEF Carried
  <2>5. QED
    BY <1>a, <2>1, <2>2, <2>3, <2>4, Here, GoroutineStep
<1>2. CASE state = Connecting(dial[c].bind, c)
  <2>1. state' = dial[c].next /\ dial' = [dial EXCEPT ![c].pc = "reply"]
    BY <1>2 DEF Resolve
  <2>2. /\ dial' \in [Call -> DialType]
        /\ dial'[c].pc = "reply" /\ dial'[c].errno = dial[c].errno
        /\ dial'[c].reply = dial[c].reply /\ dial'[c].bind = dial[c].bind
        /\ \A d \in Call \ {c} : dial'[d] = dial[d]
    BY <2>1, Here DEF DialType, DialStages
  <2>3. /\ state.kind = "connecting" /\ Forward
        /\ state' \in States
        /\ dial[c].errno = "ok" => state' = Plain("connected", c)
        /\ dial[c].errno # "ok" => state'.kind = "passive"
    BY <1>b, <1>2, <2>1, Here DEF Connecting, Forward, DialType, Passive
  <2>4. Shape'
    BY <1>a, <2>2, <2>3, Here DEF SocketInv, Shape, Rest
  <2>5. StageInv' /\ PrevInv' /\ ConnectOkMeansConnected'
    <3>1. PrevOK(c)'
      BY <1>a, <1>b, ThisConnect DEF PrevOK
    <3>2. ~(call[c].op = "connect" /\ call[c].pc = "done" /\ call[c].res = "ok")
      BY <2>3, ThisConnect DEF Plain
    <3>3. QED
      BY <1>a, <2>3, <3>1, <3>2, Here, CallFrame
  <2>6. DialInv'
    <3>1. Won(c)' => state' = Plain("connected", c)
      BY <2>2, <2>3 DEF Won
    <3>2. DialOK(c)'
      BY <1>a, <1>b, <2>2, <3>1 DEF DialOK, Plain
    <3>3. QED
      BY <1>a, <2>2, <2>3, <3>2, DialFrame
  <2>7. ProxyInv'
    <3>1. Carried(c)'
      BY <1>a, <2>2, <2>3, ThisConnect DEF Carried
    <3>2. QED
      BY <1>a, <2>2, <2>3, <3>1, ProxyFrame
  <2>8. StateInv'
    <3>1. CASE dial[c].errno = "ok"
      BY <2>2, <2>3, <3>1 DEF StateInv, Won, Plain
    <3>2. CASE dial[c].errno # "ok"
      BY <2>3, <3>2 DEF StateInv
    <3>3. QED
      BY <3>1, <3>2
  <2>9. QED
    BY <2>4, <2>5, <2>6, <2>7, <2>8 DEF SocketInv
<1>3. QED
  BY <1>1, <1>2

LEMMA ReplyStep ==
    ASSUME SocketInv, NEW c \in Call, Reply(c)
    PROVE  SocketInv'
<1>a. /\ Rest' /\ UNCHANGED <<state, call, proxy>> /\ dial[c].pc = "reply"
      /\ dial' = [dial EXCEPT ![c] = [@ EXCEPT !.pc = "hangup", !.reply = dial[c].errno]]
  BY RestOfGoroutines DEF Completion, Reply
<1>1. /\ dial' \in [Call -> DialType]
      /\ dial'[c].pc = "hangup" /\ dial'[c].reply = dial[c].errno
      /\ dial'[c].errno = dial[c].errno /\ dial'[c].bind = dial[c].bind
      /\ \A d \in Call \ {c} : dial'[d] = dial[d]
  BY <1>a, Here DEF DialType, DialStages
<1>2. DialOK(c)' /\ (Won(c) => Won(c)')
  BY <1>a, <1>1, ThisConnect DEF DialOK, Won, Plain
<1>3. state.kind # "closed" => Carried(c)'
  BY <1>a, <1>1, ThisConnect DEF Carried
<1>4. QED
  BY <1>a, <1>1, <1>2, <1>3, Here, GoroutineStep

\* Only a connect that failed closes its connections.
LEMMA HangUpStep ==
    ASSUME SocketInv, NEW c \in Call, HangUp(c)
    PROVE  SocketInv'
<1>a. Rest' /\ UNCHANGED <<state, call>> /\ dial[c].pc = "hangup"
  BY RestOfGoroutines DEF Completion, HangUp
<1>1. PICK l \in {"done", "unbind"} : dial' = [dial EXCEPT ![c].pc = l]
  BY DEF HangUp
<1>2. /\ dial' \in [Call -> DialType]
      /\ dial'[c].pc = l /\ dial'[c].reply = dial[c].reply
      /\ dial'[c].errno = dial[c].errno /\ dial'[c].bind = dial[c].bind
      /\ \A d \in Call \ {c} : dial'[d] = dial[d]
  BY <1>1, Here DEF DialType, DialStages
<1>3. /\ proxy' \in [Call -> ProxyType]
      /\ \A d \in Call \ {c} : proxy'[d] = proxy[d]
      /\ dial[c].errno = "ok" => UNCHANGED proxy
  BY Here DEF HangUp, MustHangUp, ProxyType
<1>4. DialOK(c)' /\ (Won(c) => Won(c)')
  BY <1>a, <1>2, ThisConnect DEF DialOK, Won, Plain
<1>5. state.kind # "closed" => Carried(c)'
  BY <1>a, <1>2, <1>3, ThisConnect DEF Carried
<1>6. QED
  BY <1>a, <1>2, <1>3, <1>4, <1>5, GoroutineStep

LEMMA DialUnbindStep ==
    ASSUME SocketInv, NEW c \in Call, DialUnbind(c) \/ DialCloseBind(c)
    PROVE  SocketInv'
<1>a. Rest' /\ UNCHANGED <<state, call, proxy>> /\ dial[c].pc \in {"unbind", "lock"}
  BY RestOfGoroutines DEF Completion, DialUnbind, DialCloseBind
<1>1. PICK l \in {"done", "lock"} : dial' = [dial EXCEPT ![c].pc = l]
  BY DEF DialUnbind, DialCloseBind
<1>2. /\ dial' \in [Call -> DialType]
      /\ dial'[c].pc = l /\ dial'[c].reply = dial[c].reply
      /\ dial'[c].errno = dial[c].errno /\ dial'[c].bind = dial[c].bind
      /\ \A d \in Call \ {c} : dial'[d] = dial[d]
  BY <1>1, Here DEF DialType, DialStages
<1>3. DialOK(c)' /\ (Won(c) => Won(c)')
  BY <1>a, <1>2, ThisConnect DEF DialOK, Won, Plain
<1>4. state.kind # "closed" => Carried(c)'
  BY <1>a, <1>2, ThisConnect DEF Carried
<1>5. QED
  BY <1>a, <1>2, <1>3, <1>4, Here, GoroutineStep

\* The proxy of a live socket has not been told to leave its connections to
\* somebody else: it ends before they are closed.
LEMMA ProxyStep ==
    ASSUME SocketInv, NEW c \in Call, ProxyEnd(c) \/ ProxyClose(c)
    PROVE  SocketInv'
<1>a. Rest' /\ UNCHANGED <<state, call, dial>>
  BY RestOfGoroutines DEF ProxyEnd, ProxyClose
<1>1. /\ proxy' \in [Call -> ProxyType]
      /\ \A d \in Call \ {c} : proxy'[d] = proxy[d]
  <2>1. CASE ProxyEnd(c)
    BY <2>1, Here DEF ProxyEnd, ProxyType
  <2>2. CASE ProxyClose(c)
    BY <2>2, Here DEF ProxyClose, ProxyType
  <2>3. QED
    BY <2>1, <2>2
<1>2. DialOK(c)' /\ (Won(c) => Won(c)')
  BY <1>a, ThisConnect DEF DialOK, Won, Plain, Passive
<1>3. state.kind # "closed" => Carried(c)'
  <2>1. CASE ProxyEnd(c)
    <3>1. /\ proxy[c].run = "running" /\ proxy'[c].run = "ending"
          /\ ~proxy[c].skip => proxy'[c].conns = proxy[c].conns
      BY <2>1, Here DEF ProxyEnd, ProxyType
    <3>2. QED
      BY <1>a, <3>1, ThisConnect DEF Carried
  <2>2. CASE ProxyClose(c)
    <3>1. proxy[c].run = "ending" /\ proxy'[c].run = "ended"
      BY <2>2, Here DEF ProxyClose, ProxyType
    <3>2. QED
      BY <1>a, <3>1, ThisConnect DEF Carried
  <2>3. QED
    BY <2>1, <2>2
<1>4. QED
  BY <1>a, <1>1, <1>2, <1>3, Here, GoroutineStep

LEMMA AcceptLoopStep ==
    ASSUME SocketInv, NEW c \in Call, AcceptLoopEnd(c)
    PROVE  SocketInv'
<1>1. Rest' /\ UNCHANGED <<state, call, dial, proxy>>
  BY RestOfGoroutines DEF AcceptLoopEnd
<1>2. DialOK(c)' /\ (Won(c) => Won(c)')
  BY <1>1, ThisConnect DEF DialOK, Won, Plain, Passive
<1>3. state.kind # "closed" => Carried(c)'
  BY <1>1, ThisConnect DEF Carried
<1>4. QED
  BY <1>1, <1>2, <1>3, Here, GoroutineStep
-----------------------------------------------------------------------------
LEMMA InitInv == Init => SocketInv
<1> SUFFICES ASSUME Init
             PROVE  SocketInv
  OBVIOUS
<1>1. Root \in Maker /\ state \in States /\ state.kind = "passive"
  <2>1. Root \in Maker
    BY DEF Maker
  <2>2. QED
    BY <2>1, BindTypes, SomeResults DEF Init, Passive
<1>2. Shape
  <2>1. call \in [Call -> CallType]
    BY <1>1 DEF Init, CallType, Labels, Results
  <2>2. dial \in [Call -> DialType]
    BY <1>1 DEF Init, DialType, DialStages, Results
  <2>3. proxy \in [Call -> ProxyType] /\ lis \in [Call -> LisType]
    BY DEF Init, ProxyType, LisType, Phases
  <2>4. QED
    BY <1>1, <2>1, <2>2, <2>3 DEF Init, Shape, Phases
<1>3. StageInv /\ PrevInv /\ ConnectOkMeansConnected
  BY DEF Init, StageInv, Stages, PrevInv, PrevOK, ConnectOkMeansConnected, At
<1>4. DialInv /\ ProxyInv
  BY DEF Init, DialInv, DialOK, Won, ProxyInv, Carried
<1>5. StateInv
  BY <1>1 DEF StateInv
<1>6. QED
  BY <1>2, <1>3, <1>4, <1>5 DEF SocketInv

LEMMA StepInv == SocketInv /\ [Next]_vars => SocketInv'
<1> SUFFICES ASSUME SocketInv, [Next]_vars
             PROVE  SocketInv'
  OBVIOUS
<1>1. ASSUME NEW c \in Call, Lookup(c) \/ Handle(c)
      PROVE  SocketInv'
  BY <1>1, BeginStep, LoadStep, NameStep, PrepareStep, DuplicateStep, CloseStep,
     BindPublishStep, ListenPublishStep, CloseEndStep, ReleaseProxyStep,
     ConnectPublishStep, ConnectDummyStep, ConnectAttachStep, ConnectWaitStep
  DEF Handle, Close
<1>2. ASSUME NEW c \in Call,
             Completion(c) \/ ProxyEnd(c) \/ ProxyClose(c) \/ AcceptLoopEnd(c)
      PROVE  SocketInv'
  BY <1>2, JoinStep, ResolveStep, ReplyStep, HangUpStep, DialUnbindStep, ProxyStep,
     AcceptLoopStep
  DEF Completion
<1>3. CASE UNCHANGED vars
  BY <1>3
  DEF vars, SocketInv, Shape, StageInv, PrevInv, PrevOK, StateInv, DialInv, DialOK, Won,
      ProxyInv, Carried, ConnectOkMeansConnected, At
<1>4. QED
  BY <1>1, <1>2, <1>3 DEF Next
-----------------------------------------------------------------------------
\* The inductive invariant of the socket state machine: what a handler has
\* loaded, who has won, and whose connections are up.
THEOREM Invariance == Spec => []SocketInv
BY InitInv, StepInv, PTL DEF Spec

\* Types, and a Connecting state always has its bind socket, so that
\* getRemoteBindAddr does not panic.
THEOREM TypeCorrect == Spec => []TypeOK
<1>1. SocketInv => TypeOK
  <2> SUFFICES ASSUME SocketInv
               PROVE  TypeOK
    OBVIOUS
  <2>1. Shape /\ StateInv
    BY DEF SocketInv
  <2>2. ASSUME NEW c \in Call
        PROVE  /\ call[c].op \in Operations \cup {"none"} /\ call[c].sock \in Maker
               /\ call[c].prev \in States /\ call[c].held \in Call \cup {None}
               /\ call[c].res \in Results
    BY <2>1 DEF Shape, CallType
  <2>3. ASSUME NEW c \in Call
        PROVE  dial[c].errno \in Results /\ dial[c].reply \in Results
    BY <2>1 DEF Shape, DialType
  <2>4. ASSUME NEW c \in Call
        PROVE  proxy[c].conns \in {"none", "open", "closed"} /\ lis[c].phase \in Phases
    BY <2>1 DEF Shape, ProxyType, LisType
  <2>5. QED
    BY <2>1, <2>2, <2>3, <2>4 DEF TypeOK, Shape, StateInv
<1>2. QED
  BY <1>1, Invariance, PTL

\* A blocking connect that reports success has made the socket Connected, for
\* any number of calls on it: its own compare-and-swap, and none but a close's
\* after it.
THEOREM ConnectMeans == Spec => []ConnectOkMeansConnected
<1>1. SocketInv => ConnectOkMeansConnected
  BY DEF SocketInv
<1>2. QED
  BY <1>1, Invariance, PTL

\* Nothing that a handler or the completion of a connect does closes the
\* connections of a Connected socket: its proxy has ended first.
THEOREM StaysUp == Spec => []ConnectedStaysUp
<1>1. SocketInv => ConnectedStaysUp
  BY DEF SocketInv, ConnectedStaysUp, StateInv, ProxyInv, Carried, Won
<1>2. QED
  BY <1>1, Invariance, PTL

\* Which step may replace which state, by the kinds of the two.
Ordered == state'.kind # state.kind =>
              /\ state.kind # "closed"
              /\ state.kind \in {"connected", "listening"} => state'.kind = "closed"
              /\ state'.kind = "connected" =>
                    state.kind = "connecting" /\ state.by = state'.by

LEMMA OrderStep == SocketInv /\ [Next]_vars => [Ordered]_state
<1> SUFFICES ASSUME SocketInv, [Next]_vars, state' # state
             PROVE  Ordered
  OBVIOUS
<1>1. ASSUME NEW c \in Call, ConnectPublish(c) \/ BindPublish(c) \/ ListenPublish(c)
      PROVE  Ordered
  <2>1. call[c].prev.kind = "passive"
    BY <1>1 DEF SocketInv, PrevInv, PrevOK, ConnectPublish, BindPublish, ListenPublish, At
  <2>2. state.kind = "passive" /\ state'.kind \in {"passive", "connecting", "listening"}
    BY <1>1, <2>1
    DEF ConnectPublish, BindPublish, ListenPublish, Connecting, Passive, Plain
  <2>3. QED
    BY <2>2 DEF Ordered
<1>2. ASSUME NEW c \in Call, Resolve(c)
      PROVE  Ordered
  <2>1. state = Connecting(dial[c].bind, c) /\ state' = dial[c].next /\ dial[c].pc = "swap"
    BY <1>2 DEF Resolve
  <2>2. state'.kind = "passive" \/ state' = Plain("connected", c)
    <3>1. dial[c].next = IF dial[c].errno = "ok" THEN Plain("connected", c)
                         ELSE Passive(dial[c].bind, "ECONNREFUSED", c)
      BY <2>1, ThisConnect DEF DialOK
    <3>2. QED
      BY <2>1, <3>1 DEF Passive
  <2>3. QED
    BY <2>1, <2>2 DEF Ordered, Connecting, Plain
<1>3. ASSUME NEW c \in Call, CloseEnd(c)
      PROVE  Ordered
  <2>1. call[c].prev.kind # "closed"
    BY <1>3 DEF SocketInv, PrevInv, PrevOK, CloseEnd, At
  <2>2. QED
    BY <1>3, <2>1 DEF Ordered, CloseEnd, Plain
<1>4. \E c \in Call : \/ ConnectPublish(c) \/ BindPublish(c) \/ ListenPublish(c)
                      \/ Resolve(c) \/ CloseEnd(c)
  BY DEF Next, vars, Handle, Close, Completion, Lookup, Enter, Load, EnterBind, GotName,
     ConnectDummy, ConnectAttach, ConnectWait, BindEnter, ListenPark, NetListen,
     ListenUnbind, DupCreate, DupInstall, Import, CloseMark, CloseDrain, CloseRemove,
     CloseLoad, CloseReleaseBind, CloseBind, CloseReleaseProxy, CloseReleaseListener,
     Join, Reply, HangUp, DialUnbind, DialCloseBind, ProxyEnd, ProxyClose, AcceptLoopEnd
<1>5. QED
  BY <1>1, <1>2, <1>3, <1>4

\* A socket never goes back: Closed is for ever, Connected and Listening end
\* only in Closed, and only its own connect makes a socket Connected.
THEOREM NeverBack == Spec => StateOrder
<1>1. SocketInv /\ [Next]_vars =>
         [state'.kind # state.kind =>
            /\ state.kind # "closed"
            /\ state.kind \in {"connected", "listening"} => state'.kind = "closed"
            /\ state'.kind = "connected" =>
                  state.kind = "connecting" /\ state.by = state'.by]_state
  BY OrderStep DEF Ordered
<1>2. QED
  BY <1>1, Invariance, PTL DEF Spec, StateOrder
-----------------------------------------------------------------------------
(* The steps of a handler, by what they do to the descriptors.              *)

\* connect, bind, listen and the queries, once they are inside.
Operate(c) ==
    \/ Load(c) \/ EnterBind(c) \/ GotName(c)
    \/ ConnectPublish(c) \/ ConnectDummy(c) \/ ConnectAttach(c) \/ ConnectWait(c)
    \/ BindEnter(c) \/ BindPublish(c)
    \/ ListenPark(c) \/ NetListen(c) \/ ListenUnbind(c) \/ ListenPublish(c)
Inside == {"load", "sockname", "named", "publish", "dummy", "attach", "wait", "bind",
           "bound", "park", "netlisten", "unbind", "listening"}

\* close, once the descriptor is out of Inode.open.
Finish(c) ==
    \/ CloseLoad(c) \/ CloseEnd(c) \/ CloseReleaseBind(c) \/ CloseBind(c)
    \/ CloseReleaseProxy(c) \/ CloseReleaseListener(c)
Finishing == {"final", "end", "panic", "release", "lock"}

\* What such a step does to its own call.
Advanced(c) ==
    /\ \A d \in Call \ {c} : call'[d] = call[d]
    /\ call'[c].op = call[c].op /\ call'[c].sock = call[c].sock
    /\ call'[c].ref => call[c].ref
    /\ call'[c].res = "cancelled" => call'[c].pc = "done" \/ call[c].res = "cancelled"
    /\ \/ call'[c].prev = call[c].prev
       \/ call'[c].prev = state /\ call[c].pc \in {"load", "final"}
    /\ \/ call'[c].held \in {None, call[c].held}
       \/ /\ call'[c].held = call[c].prev.bind /\ call[c].prev.bind # None
          /\ bphase[call[c].prev.bind] = "open"

LEMMA GotoAdvances ==
    ASSUME call \in [Call -> CallType], NEW c \in Call, NEW l, Goto(c, l)
    PROVE  Advanced(c) /\ call'[c].pc = l /\ call'[c].prev = call[c].prev
           /\ call'[c].held = call[c].held
BY DEF CallType, Goto, Advanced

LEMMA ReturnAdvances ==
    ASSUME call \in [Call -> CallType], NEW c \in Call, NEW r, Return(c, r)
    PROVE  Advanced(c) /\ call'[c].pc = "done" /\ call'[c].prev = call[c].prev
           /\ call'[c].held = None /\ call'[c].res = r /\ ~call'[c].ref
BY DEF CallType, Return, Advanced

LEMMA LoadAdvances ==
    ASSUME call \in [Call -> CallType], NEW c \in Call, call[c].pc \in {"load", "final"}, NEW l,
           call' = [call EXCEPT ![c] = [@ EXCEPT !.prev = state, !.pc = l]]
    PROVE  Advanced(c) /\ call'[c].pc = l /\ call'[c].prev = state
           /\ call'[c].held = call[c].held
BY DEF CallType, Advanced

LEMMA HoldAdvances ==
    ASSUME call \in [Call -> CallType], NEW c \in Call, NEW l, NEW b,
           b = None \/ (b = call[c].prev.bind /\ bphase[b] = "open"),
           call' = [call EXCEPT ![c] = [@ EXCEPT !.held = b, !.pc = l]]
    PROVE  Advanced(c) /\ call'[c].pc = l /\ call'[c].prev = call[c].prev
           /\ call'[c].held = b
BY DEF CallType, Advanced

LEMMA AwaitAdvances ==
    ASSUME call \in [Call -> CallType], NEW c \in Call, NEW l, NEW r, r # "cancelled",
           call' = [call EXCEPT ![c] = [@ EXCEPT !.pc = l, !.res = r]]
    PROVE  Advanced(c) /\ call'[c].pc = l /\ call'[c].prev = call[c].prev
           /\ call'[c].held = call[c].held
BY DEF CallType, Advanced

LEMMA OperateEffect ==
    ASSUME SocketInv, NEW c \in Call, Operate(c)
    PROVE  /\ Advanced(c) /\ UNCHANGED <<open, installed, sphase>>
           /\ call[c].pc \in Inside /\ call'[c].pc \in Inside \cup {"done"}
<1>1. UNCHANGED <<open, installed, sphase>> /\ call[c].pc \in Inside
  BY DEF Operate, Inside, At, Load, EnterBind, GotName, ConnectPublish, ConnectDummy, ConnectAttach,
         ConnectWait, BindEnter, BindPublish, ListenPark, NetListen, ListenUnbind, ListenPublish
<1>2. call \in [Call -> CallType]
  BY Here
<1>3. Advanced(c) /\ call'[c].pc \in Inside \cup {"done"}
  <2>1. ASSUME NEW r, Return(c, r) PROVE Advanced(c) /\ call'[c].pc \in Inside \cup {"done"}
    BY <1>2, <2>1, ReturnAdvances
  <2>2. ASSUME NEW l \in Inside, Goto(c, l) PROVE Advanced(c) /\ call'[c].pc \in Inside \cup {"done"}
    BY <1>2, <2>2, GotoAdvances
  <2>h. ASSUME NEW l \in Inside, NEW b,
               b = None \/ (b = call[c].prev.bind /\ bphase[b] = "open"),
               call' = [call EXCEPT ![c] = [@ EXCEPT !.held = b, !.pc = l]]
        PROVE  Advanced(c) /\ call'[c].pc \in Inside \cup {"done"}
    BY <1>2, <2>h, HoldAdvances
  <2>3. CASE Load(c)
    <3>1. Onward(call[c].op) \in Inside
      BY DEF Onward, Inside
    <3>2. QED
      BY <1>2, <2>1, <2>3, <3>1, LoadAdvances DEF Load, At
  <2>4. CASE EnterBind(c)
    <3>1. AfterName(call[c].op) \in Inside /\ "named" \in Inside
      BY DEF AfterName, Inside
    <3>2. QED
      BY <2>1, <2>2, <2>4, <2>h, <3>1 DEF EnterBind
  <2>5. CASE GotName(c)
    <3>1. AfterName(call[c].op) \in Inside
      BY DEF AfterName, Inside
    <3>2. QED
      BY <2>1, <2>5, <2>h, <3>1 DEF GotName
  <2>6. CASE ConnectPublish(c) \/ ConnectDummy(c)
    BY <2>1, <2>2, <2>6 DEF ConnectPublish, ConnectDummy, Inside
  <2>7. CASE ConnectAttach(c)
    <3>1. AttachErrno(c) # "cancelled" /\ "wait" \in Inside
      BY DEF AttachErrno, Inside
    <3>2. QED
      BY <1>2, <2>1, <2>7, <3>1, AwaitAdvances DEF ConnectAttach
  <2>8. CASE BindEnter(c)
    <3>1. "bound" \in Inside
      BY DEF Inside
    <3>2. QED
      BY <2>1, <2>8, <2>h, <3>1 DEF BindEnter
  <2>9. CASE ConnectWait(c) \/ BindPublish(c)
    BY <2>1, <2>9 DEF ConnectWait, BindPublish
  <2>10. CASE ListenPark(c) \/ NetListen(c) \/ ListenUnbind(c) \/ ListenPublish(c)
    BY <2>1, <2>2, <2>10 DEF ListenPark, NetListen, ListenUnbind, ListenPublish, Inside
  <2>11. QED
    BY <2>3, <2>4, <2>5, <2>6, <2>7, <2>8, <2>9, <2>10 DEF Operate
<1>4. QED
  BY <1>1, <1>3

LEMMA FinishEffect ==
    ASSUME SocketInv, NEW c \in Call, Finish(c)
    PROVE  /\ Advanced(c) /\ UNCHANGED <<open, installed, sphase>>
           /\ call[c].pc \in Finishing /\ call'[c].pc \in Finishing \cup {"done"}
<1>1. UNCHANGED <<open, installed, sphase>> /\ call[c].pc \in Finishing
  BY DEF Finish, Finishing, At, CloseLoad, CloseEnd, CloseReleaseBind, CloseBind,
         CloseReleaseProxy, CloseReleaseListener
<1>2. call \in [Call -> CallType]
  BY Here
<1>3. CASE \E r \in {"ok"} : Return(c, r)
  BY <1>1, <1>2, <1>3, ReturnAdvances
<1>4. CASE \E l \in Finishing : Goto(c, l)
  BY <1>1, <1>2, <1>4, GotoAdvances
<1>5. CASE CloseLoad(c)
  BY <1>1, <1>2, <1>5, LoadAdvances DEF CloseLoad, At, Finishing
<1>6. CASE CloseEnd(c) \/ CloseReleaseBind(c) \/ CloseBind(c) \/ CloseReleaseProxy(c) \/ CloseReleaseListener(c)
  BY <1>3, <1>4, <1>6 DEF CloseEnd, CloseReleaseBind, CloseBind, CloseReleaseProxy, CloseReleaseListener, Finishing
<1>7. QED
  BY <1>5, <1>6 DEF Finish

\* The goroutines leave the handlers and the descriptors alone.
Background(c) == Completion(c) \/ ProxyEnd(c) \/ ProxyClose(c) \/ AcceptLoopEnd(c)

LEMMA GoroutineEffect ==
    ASSUME NEW c \in Call, Background(c)
    PROVE  UNCHANGED <<call, open, installed, sphase>>
BY DEF Background, Completion, Join, Resolve, Reply, HangUp, DialUnbind, DialCloseBind,
       ProxyEnd, ProxyClose, AcceptLoopEnd
-----------------------------------------------------------------------------
(* FileInv.                                                                 *)

LEMMA FileHere ==
    ASSUME SocketInv, FileInv, NEW c \in Call
    PROVE  /\ call \in [Call -> CallType] /\ sphase \in [Maker -> Phases]
           /\ open \subseteq Maker /\ installed \subseteq Maker
           /\ c \in Maker /\ call[c].sock \in Maker
           /\ CloserOK(c) /\ RefOK(c) /\ Made(call[c].sock)
           /\ Made(c) => call[c].pc \in {"install", "done"}
           /\ call[c].pc = "install" => Made(c)
<1>1. Shape
  BY DEF SocketInv
<1>2. call[c] \in CallType
  BY <1>1 DEF Shape
<1>3. call[c].sock \in Maker
  BY <1>2 DEF CallType
<1>4. QED
  BY <1>1, <1>3, CallIsMaker DEF Shape, FileInv, MadeInv

\* A step that makes and closes no descriptor.
LEMMA FileQuiet ==
    ASSUME SocketInv, FileInv, UNCHANGED <<open, installed, sphase>>,
           NEW c \in Call, Advanced(c),
           call[c].pc \in Inside \cup Finishing,
           call'[c].pc \in Inside \cup Finishing \cup {"done"}
    PROVE  FileInv'
<1>1. call[c].pc \notin {"idle", "dup", "install", "mark", "drain", "remove", "done"}
      /\ call'[c].pc \notin {"idle", "dup", "install", "mark", "drain", "remove"}
  BY DEF Inside, Finishing
<1>2. MadeInv'
  BY <1>1 DEF FileInv, MadeInv, Made, Advanced
<1>3. ASSUME NEW s PROVE Closing(s)' = Closing(s)
  BY <1>1 DEF Closing, Advanced
<1>4. ASSUME NEW d \in Call PROVE CloserOK(d)' /\ RefOK(d)'
  <2>1. CloserOK(d) /\ RefOK(d)
    BY DEF FileInv
  <2>2. call'[d].sock = call[d].sock
    BY DEF Advanced
  <2>3. CloserOK(d)'
    BY <1>1, <2>1, <2>2 DEF CloserOK, Closing, Advanced
  <2>4. RefOK(d)'
    BY <1>1, <2>1, <2>2 DEF RefOK, Advanced
  <2>5. QED
    BY <2>3, <2>4
<1>5. ASSUME NEW s \in Maker PROVE FileOK(s)'
  <2>1. FileOK(s)
    BY DEF FileInv
  <2>2. Reachable(s) => Reachable(s)'
    <3>1. ~(call[c].res = "cancelled")
      BY <1>1 DEF FileInv, RefOK
    <3>2. QED
      BY <1>1, <3>1 DEF Reachable, Advanced
  <2>3. ASSUME NEW d \in Call, call[d].pc \in {"drain", "remove"} PROVE call'[d] = call[d]
    BY <1>1, <2>3 DEF Advanced
  <2>4. QED
    BY <2>1, <2>2, <2>3 DEF FileOK
<1>6. QED
  BY <1>2, <1>4, <1>5 DEF FileInv
\* The steps of the descriptors, from what they leave: it is enough to look at
\* the call, and at what it makes or closes.
LEMMA FileLookup ==
    ASSUME SocketInv, FileInv, NEW c \in Call, Lookup(c)
    PROVE  FileInv'
<1>1. PICK o \in Ops, s \in installed, b \in Blocking :
         /\ call' = [call EXCEPT ![c] =
                       [@ EXCEPT !.op = o, !.sock = s, !.blocking = b, !.pc = First(o)]]
         /\ installed' = IF o = "close" THEN installed \ {s} ELSE installed
  BY DEF Lookup
<1>2. call[c].pc = "idle" /\ UNCHANGED <<open, sphase>>
  BY DEF Lookup, At
<1>3. First(o) \in {"mark", "import", "enter"} /\ (o = "close" => First(o) = "mark")
  BY DEF First
<1>4. /\ call'[c].pc = First(o) /\ call'[c].sock = s /\ call'[c].ref = call[c].ref
      /\ call'[c].res = call[c].res
      /\ \A d \in Call \ {c} : call'[d] = call[d]
  BY <1>1, FileHere DEF CallType
<1>5. ~call[c].ref /\ call[c].res # "cancelled" /\ ~Made(c)
  BY <1>2, FileHere DEF RefOK
<1>6. MadeInv'
  BY <1>1, <1>2, <1>3, <1>4, <1>5 DEF FileInv, MadeInv, Made
<1>7. ASSUME NEW d \in Call PROVE CloserOK(d)' /\ RefOK(d)'
  <2>1. CloserOK(d) /\ RefOK(d)
    BY DEF FileInv
  <2>2. CASE d = c
    <3>1. call'[c].pc \notin {"idle", "dup", "drain", "remove", "done"} /\ ~call'[c].ref
      BY <1>3, <1>4, <1>5
    <3>2. QED
      BY <1>4, <1>5, <2>2, <3>1 DEF CloserOK, RefOK, Closing
  <2>3. CASE d # c
    <3>1. call'[d] = call[d] /\ c \notin Closing(call[d].sock)'
      BY <1>3, <1>4, <2>3 DEF Closing
    <3>2. Closing(call[d].sock)' \subseteq Closing(call[d].sock)
      BY <1>4, <3>1 DEF Closing
    <3>3. QED
      BY <1>2, <1>4, <2>1, <2>3, <3>1, <3>2 DEF CloserOK, RefOK, Closing
  <2>4. QED
    BY <2>2, <2>3
<1>8. ASSUME NEW t \in Maker PROVE FileOK(t)'
  <2>1. FileOK(t)
    BY DEF FileInv
  <2>2. Reachable(t) => Reachable(t)'
    BY <1>1, <1>2, <1>3, <1>4, <1>5 DEF Reachable
  <2>3. ASSUME NEW d \in Call, call[d].pc \in {"drain", "remove"} PROVE call'[d] = call[d]
    BY <1>2, <1>4, <2>3
  <2>4. QED
    BY <1>2, <2>1, <2>2, <2>3 DEF FileOK
<1>9. QED
  BY <1>6, <1>7, <1>8 DEF FileInv

LEMMA FileEnter ==
    ASSUME SocketInv, FileInv, NEW c \in Call, Enter(c)
    PROVE  FileInv'
<1>1. call[c].pc = "enter" /\ UNCHANGED <<open, installed, sphase>>
  BY DEF Enter, At
<1>2. /\ \A d \in Call \ {c} : call'[d] = call[d]
      /\ call'[c].sock = call[c].sock
      /\ call'[c].pc \in {"dup", "load", "done"}
      /\ call'[c].ref => sphase[call[c].sock] = "open"
      /\ call'[c].pc = "dup" => call'[c].ref
      /\ call'[c].res = "cancelled" => call'[c].pc = "done"
  <2>1. CASE Return(c, "EBADF")
    BY <2>1, FileHere, ReturnAdvances DEF Advanced
  <2>2. CASE ~Return(c, "EBADF")
    <3>1. /\ sphase[call[c].sock] = "open"
          /\ call' = [call EXCEPT ![c] =
                        [@ EXCEPT !.ref = TRUE, !.pc = IF call[c].op = "dup" THEN "dup" ELSE "load"]]
      BY <2>2 DEF Enter
    <3>2. call[c].res # "cancelled"
      BY <1>1, FileHere DEF RefOK
    <3>3. QED
      BY <3>1, <3>2, FileHere DEF CallType
  <2>3. QED
    BY <2>1, <2>2
<1>3. ~Made(c) /\ call[c].res # "cancelled"
  BY <1>1, FileHere DEF RefOK
<1>4. MadeInv'
  BY <1>1, <1>2, <1>3 DEF FileInv, MadeInv, Made
<1>5. ASSUME NEW d \in Call PROVE CloserOK(d)' /\ RefOK(d)'
  <2>1. CloserOK(d) /\ RefOK(d)
    BY DEF FileInv
  <2>2. CloserOK(d)'
    BY <1>1, <1>2, <2>1 DEF CloserOK, Closing
  <2>3. RefOK(d)'
    BY <1>1, <1>2, <2>1 DEF RefOK
  <2>4. QED
    BY <2>2, <2>3
<1>6. ASSUME NEW t \in Maker PROVE FileOK(t)'
  <2>1. FileOK(t)
    BY DEF FileInv
  <2>2. Reachable(t) => Reachable(t)'
    BY <1>1, <1>2, <1>3 DEF Reachable
  <2>3. ASSUME NEW d \in Call, call[d].pc \in {"drain", "remove"} PROVE call'[d] = call[d]
    BY <1>1, <1>2, <2>3
  <2>4. QED
    BY <1>1, <2>1, <2>2, <2>3 DEF FileOK
<1>7. QED
  BY <1>4, <1>5, <1>6 DEF FileInv
\* fcntl and import make the descriptor that bears their name, and only they
\* know it until it is installed.
LEMMA FileMade ==
    ASSUME SocketInv, FileInv, NEW c \in Call, ~Made(c), call[c].res # "cancelled",
           call[c].pc \in {"dup", "import"}, Advanced(c), call'[c].pc \in {"install", "done"},
           sphase' = [sphase EXCEPT ![c] = "open"], open' = open \cup {c},
           installed' \in {installed, installed \cup {c}},
           c \in installed' \/ call'[c].pc = "install"
    PROVE  FileInv'
<1>1. /\ c \in Maker /\ sphase'[c] = "open"
      /\ \A s \in Maker \ {c} : sphase'[s] = sphase[s]
      /\ \A d \in Call : call[d].sock # c
  BY FileHere
<1>2. MadeInv'
  <2>1. \A d \in Call : Made(d)' => call'[d].pc \in {"install", "done"}
    BY <1>1, FileHere DEF Made, Advanced
  <2>2. \A d \in Call : call'[d].pc = "install" => Made(d)'
    BY <1>1, FileHere DEF Made, Advanced
  <2>3. \A s \in open' \cup installed' : Made(s)'
    BY <1>1, FileHere DEF FileInv, MadeInv, Made
  <2>4. \A d \in Call : Made(call[d].sock)'
    BY <1>1, FileHere DEF Made, Advanced
  <2>5. QED
    BY <2>1, <2>2, <2>3, <2>4 DEF MadeInv
<1>3. ASSUME NEW d \in Call PROVE CloserOK(d)' /\ RefOK(d)'
  <2>1. CloserOK(d) /\ RefOK(d) /\ call[d].sock \in Maker \ {c}
    BY <1>1, FileHere
  <2>2. call'[d].sock = call[d].sock /\ sphase'[call[d].sock] = sphase[call[d].sock]
    BY <1>1, <2>1 DEF Advanced
  <2>3. CloserOK(d)'
    BY <2>1, <2>2 DEF CloserOK, Closing, Advanced
  <2>4. RefOK(d)'
    BY <2>1, <2>2 DEF RefOK, Advanced
  <2>5. QED
    BY <2>3, <2>4
<1>4. ASSUME NEW t \in Maker PROVE FileOK(t)'
  <2>1. CASE t = c
    BY <1>1, <2>1 DEF FileOK, Reachable
  <2>2. CASE t # c
    <3>1. FileOK(t) /\ sphase'[t] = sphase[t] /\ (t \in open <=> t \in open')
      BY <1>1, <2>2 DEF FileInv
    <3>2. Reachable(t) => Reachable(t)'
      BY <2>2 DEF Reachable, Advanced
    <3>3. ASSUME NEW d \in Call, call[d].pc \in {"drain", "remove"} PROVE call'[d] = call[d]
      BY <3>3 DEF Advanced
    <3>4. QED
      BY <3>1, <3>2, <3>3 DEF FileOK
  <2>3. QED
    BY <2>1, <2>2
<1>5. QED
  BY <1>2, <1>3, <1>4 DEF FileInv

LEMMA FileDuplicate ==
    ASSUME SocketInv, FileInv, NEW c \in Call, DupCreate(c) \/ Import(c)
    PROVE  FileInv'
<1>1. ~Made(c) /\ call[c].res # "cancelled" /\ call[c].pc \in {"dup", "import"}
  BY FileHere DEF DupCreate, Import, At, RefOK
<1>2. CASE DupCreate(c)
  <2>1. Advanced(c) /\ call'[c].pc = "install"
    BY <1>2, FileHere, GotoAdvances DEF DupCreate
  <2>2. QED
    BY <1>1, <1>2, <2>1, FileMade DEF DupCreate
<1>3. CASE Import(c)
  <2>1. Advanced(c) /\ call'[c].pc = "done"
    BY <1>3, FileHere, ReturnAdvances DEF Import
  <2>2. QED
    BY <1>1, <1>3, <2>1, FileMade DEF Import
<1>4. QED
  BY <1>2, <1>3

LEMMA FileInstall ==
    ASSUME SocketInv, FileInv, NEW c \in Call, DupInstall(c)
    PROVE  FileInv'
<1>1. call[c].pc = "install" /\ UNCHANGED <<open, sphase>> /\ Made(c)
  BY FileHere DEF DupInstall, At
<1>2. /\ Advanced(c) /\ call'[c].pc = "done"
      /\ \/ installed' = installed \cup {c}
         \/ installed' = installed /\ call'[c].res = "cancelled"
  <2>1. PICK r \in {"ok", "cancelled"} :
           /\ Return(c, r)
           /\ \/ installed' = installed \cup {c}
              \/ installed' = installed /\ r = "cancelled"
    BY DEF DupInstall
  <2>2. Advanced(c) /\ call'[c].pc = "done" /\ call'[c].res = r
    BY <2>1, FileHere, ReturnAdvances
  <2>3. QED
    BY <2>1, <2>2
<1>3. MadeInv'
  BY <1>1, <1>2 DEF FileInv, MadeInv, Made, Advanced
<1>4. ASSUME NEW d \in Call PROVE CloserOK(d)' /\ RefOK(d)'
  <2>1. CloserOK(d) /\ RefOK(d) /\ call'[d].sock = call[d].sock
    BY <1>2, FileHere DEF Advanced
  <2>2. CloserOK(d)'
    BY <1>1, <1>2, <2>1 DEF CloserOK, Closing, Advanced
  <2>3. RefOK(d)'
    BY <1>1, <1>2, <2>1 DEF RefOK, Advanced
  <2>4. QED
    BY <2>2, <2>3
<1>5. ASSUME NEW t \in Maker PROVE FileOK(t)'
  <2>1. FileOK(t)
    BY DEF FileInv
  <2>2. Reachable(t) => Reachable(t)'
    BY <1>1, <1>2 DEF Reachable, Advanced
  <2>3. ASSUME NEW d \in Call, call[d].pc \in {"drain", "remove"} PROVE call'[d] = call[d]
    BY <1>1, <1>2, <2>3 DEF Advanced
  <2>4. QED
    BY <1>1, <2>1, <2>2, <2>3 DEF FileOK
<1>6. QED
  BY <1>3, <1>4, <1>5 DEF FileInv

\* ClosingIncRef succeeds once, so one call at most closes a descriptor.
LEMMA FileMark ==
    ASSUME SocketInv, FileInv, NEW c \in Call, CloseMark(c)
    PROVE  FileInv'
<1> DEFINE s == call[c].sock
<1>1. call[c].pc = "mark" /\ UNCHANGED <<open, installed>> /\ s \in Maker
      /\ call[c].res # "cancelled"
  BY FileHere DEF CloseMark, At, RefOK
<1>2. CASE sphase[s] = "open"
  <2>1. /\ Advanced(c) /\ call'[c].pc = "drain" /\ sphase'[s] = "closing"
        /\ \A t \in Maker \ {s} : sphase'[t] = sphase[t]
    BY <1>1, <1>2, FileHere, GotoAdvances DEF CloseMark
  <2>2. Closing(s) = {}
    BY <1>2, FileHere DEF Closing, CloserOK
  <2>3. MadeInv'
    BY <1>1, <1>2, <2>1, FileHere DEF FileInv, MadeInv, Made, Advanced
  <2>4. ASSUME NEW d \in Call PROVE CloserOK(d)' /\ RefOK(d)'
    <3>1. CloserOK(d) /\ RefOK(d) /\ call[d].sock \in Maker /\ call'[d].sock = call[d].sock
      BY <2>1, FileHere DEF Advanced
    <3>2. CloserOK(d)'
      <4>1. CASE call[d].sock = s
        <5>1. \A e \in Call : call[e].sock = s => call[e].pc \notin {"drain", "remove"}
          BY <2>2 DEF Closing
        <5>2. \A e \in Call \ {c} : call'[e] = call[e]
          BY <2>1 DEF Advanced
        <5>3. QED
          BY <2>1, <3>1, <4>1, <5>1, <5>2 DEF CloserOK, Closing
      <4>2. CASE call[d].sock # s
        <5>1. d # c /\ sphase'[call[d].sock] = sphase[call[d].sock] /\ call'[d] = call[d]
          BY <2>1, <3>1, <4>2 DEF Advanced
        <5>2. Closing(call[d].sock)' \subseteq Closing(call[d].sock)
          BY <2>1, <4>2, <5>1 DEF Closing, Advanced
        <5>3. QED
          BY <3>1, <5>1, <5>2 DEF CloserOK, Closing
      <4>3. QED
        BY <4>1, <4>2
    <3>3. RefOK(d)'
      BY <1>1, <2>1, <3>1 DEF RefOK, Advanced
    <3>4. QED
      BY <3>2, <3>3
  <2>5. ASSUME NEW t \in Maker PROVE FileOK(t)'
    <3>1. FileOK(t) /\ (t = s => t \in open)
      BY <1>2 DEF FileInv, FileOK
    <3>2. CASE t = s
      BY <1>1, <2>1, <3>1, <3>2 DEF FileOK, Advanced
    <3>3. CASE t # s
      <4>1. sphase'[t] = sphase[t]
        BY <2>1, <3>3
      <4>2. Reachable(t) => Reachable(t)'
        BY <1>1, <2>1, <3>3 DEF Reachable, Advanced
      <4>3. ASSUME NEW d \in Call, call[d].pc \in {"drain", "remove"} PROVE call'[d] = call[d]
        BY <1>1, <2>1, <4>3 DEF Advanced
      <4>4. QED
        BY <1>1, <3>1, <4>1, <4>2, <4>3 DEF FileOK
    <3>4. QED
      BY <3>2, <3>3
  <2>6. QED
    BY <2>3, <2>4, <2>5 DEF FileInv
<1>3. CASE sphase[s] # "open"
  <2>1. Advanced(c) /\ call'[c].pc = "done" /\ UNCHANGED sphase
    BY <1>3, FileHere, ReturnAdvances DEF CloseMark
  <2>2. ~Made(c)
    BY <1>1, FileHere
  <2>3. MadeInv'
    BY <1>1, <2>1, <2>2 DEF FileInv, MadeInv, Made, Advanced
  <2>4. ASSUME NEW d \in Call PROVE CloserOK(d)' /\ RefOK(d)'
    <3>1. CloserOK(d) /\ RefOK(d) /\ call'[d].sock = call[d].sock
      BY <2>1, FileHere DEF Advanced
    <3>2. CloserOK(d)'
      BY <1>1, <2>1, <3>1 DEF CloserOK, Closing, Advanced
    <3>3. RefOK(d)'
      BY <1>1, <2>1, <3>1 DEF RefOK, Advanced
    <3>4. QED
      BY <3>2, <3>3
  <2>5. ASSUME NEW t \in Maker PROVE FileOK(t)'
    <3>1. FileOK(t)
      BY DEF FileInv
    <3>2. sphase[t] = "open" /\ Reachable(t) => Reachable(t)'
      BY <1>1, <1>3, <2>1 DEF Reachable, Advanced
    <3>3. ASSUME NEW d \in Call, call[d].pc \in {"drain", "remove"} PROVE call'[d] = call[d]
      BY <1>1, <2>1, <3>3 DEF Advanced
    <3>4. QED
      BY <1>1, <2>1, <3>1, <3>2, <3>3 DEF FileOK
  <2>6. QED
    BY <2>3, <2>4, <2>5 DEF FileInv
<1>4. QED
  BY <1>2, <1>3

\* Lock waits for everybody inside.
LEMMA FileDrain ==
    ASSUME SocketInv, FileInv, NEW c \in Call, CloseDrain(c)
    PROVE  FileInv'
<1> DEFINE s == call[c].sock
<1>1. call[c].pc = "drain" /\ UNCHANGED <<open, installed>> /\ s \in Maker
      /\ call[c].res # "cancelled" /\ sphase[s] = "closing"
  BY FileHere DEF CloseDrain, At, RefOK, CloserOK
<1>2. /\ Advanced(c) /\ call'[c].pc = "remove" /\ sphase'[s] = "closed"
      /\ \A t \in Maker \ {s} : sphase'[t] = sphase[t]
  BY <1>1, FileHere, GotoAdvances DEF CloseDrain
<1>3. \A d \in Call : call[d].ref => call[d].sock # s
  BY DEF CloseDrain, Users
<1>4. \A d \in Call \ {c} : call[d].pc \in {"drain", "remove"} => call[d].sock # s
  BY <1>1, FileHere DEF CloserOK, Closing
<1>5. MadeInv'
  BY <1>1, <1>2, FileHere DEF FileInv, MadeInv, Made, Advanced
<1>6. ASSUME NEW d \in Call PROVE CloserOK(d)' /\ RefOK(d)'
  <2>1. CloserOK(d) /\ RefOK(d) /\ call[d].sock \in Maker /\ call'[d].sock = call[d].sock
    BY <1>2, FileHere DEF Advanced
  <2>2. CloserOK(d)'
    <3>1. Closing(call[d].sock)' = Closing(call[d].sock)
      BY <1>1, <1>2 DEF Closing, Advanced
    <3>2. CASE d = c
      BY <1>1, <1>2, <2>1, <3>1, <3>2 DEF CloserOK
    <3>3. CASE d # c
      <4>1. call'[d] = call[d]
        BY <1>2, <3>3 DEF Advanced
      <4>2. call[d].pc \in {"drain", "remove"} => sphase'[call[d].sock] = sphase[call[d].sock]
        BY <1>2, <1>4, <2>1, <3>3
      <4>3. QED
        BY <1>1, <1>2, <2>1, <3>1, <4>1, <4>2 DEF CloserOK, Closing
    <3>4. QED
      BY <3>2, <3>3
  <2>3. RefOK(d)'
    <3>1. call'[d].ref => call[d].ref
      BY <1>2 DEF Advanced
    <3>2. call[d].ref => sphase'[call[d].sock] = sphase[call[d].sock]
      BY <1>2, <1>3, <2>1
    <3>3. QED
      BY <1>1, <1>2, <2>1, <3>1, <3>2 DEF RefOK, Advanced
  <2>4. QED
    BY <2>2, <2>3
<1>7. ASSUME NEW t \in Maker PROVE FileOK(t)'
  <2>1. FileOK(t)
    BY DEF FileInv
  <2>2. CASE t = s
    BY <1>1, <1>2, <2>1, <2>2 DEF FileOK, Advanced
  <2>3. CASE t # s
    <3>1. sphase'[t] = sphase[t]
      BY <1>2, <2>3
    <3>2. Reachable(t) => Reachable(t)'
      BY <1>1, <1>2 DEF Reachable, Advanced
    <3>3. ASSUME NEW d \in Call, call[d].pc \in {"drain", "remove"}, call[d].sock = t
          PROVE call'[d] = call[d]
      BY <1>2, <2>3, <3>3 DEF Advanced
    <3>4. QED
      BY <1>1, <2>1, <3>1, <3>2, <3>3 DEF FileOK
  <2>4. QED
    BY <2>2, <2>3
<1>8. QED
  BY <1>5, <1>6, <1>7 DEF FileInv

LEMMA FileRemove ==
    ASSUME SocketInv, FileInv, NEW c \in Call, CloseRemove(c)
    PROVE  FileInv'
<1> DEFINE s == call[c].sock
<1>1. call[c].pc = "remove" /\ UNCHANGED <<sphase, installed>> /\ open' = open \ {s}
      /\ call[c].res # "cancelled" /\ sphase[s] = "closed" /\ ~Made(c)
  BY FileHere DEF CloseRemove, At, RefOK, CloserOK
<1>2. Advanced(c) /\ call'[c].pc \in {"final", "done"}
  BY FileHere, GotoAdvances, ReturnAdvances DEF CloseRemove
<1>3. MadeInv'
  BY <1>1, <1>2 DEF FileInv, MadeInv, Made, Advanced
<1>4. ASSUME NEW d \in Call PROVE CloserOK(d)' /\ RefOK(d)'
  <2>1. CloserOK(d) /\ RefOK(d) /\ call'[d].sock = call[d].sock
    BY <1>2, FileHere DEF Advanced
  <2>2. CloserOK(d)'
    BY <1>1, <1>2, <2>1 DEF CloserOK, Closing, Advanced
  <2>3. RefOK(d)'
    BY <1>1, <1>2, <2>1 DEF RefOK, Advanced
  <2>4. QED
    BY <2>2, <2>3
<1>5. ASSUME NEW t \in Maker PROVE FileOK(t)'
  <2>1. FileOK(t)
    BY DEF FileInv
  <2>2. Reachable(t) => Reachable(t)'
    BY <1>1, <1>2 DEF Reachable, Advanced
  <2>3. ASSUME NEW d \in Call, call[d].pc \in {"drain", "remove"},
               call[d].pc = "drain" \/ call[d].sock # s
        PROVE call'[d] = call[d]
    BY <1>1, <1>2, <2>3 DEF Advanced
  <2>4. CASE t = s
    BY <1>1, <2>1, <2>2, <2>4 DEF FileOK
  <2>5. CASE t # s
    BY <1>1, <2>1, <2>2, <2>3, <2>5 DEF FileOK
  <2>6. QED
    BY <2>4, <2>5
<1>6. QED
  BY <1>3, <1>4, <1>5 DEF FileInv

LEMMA FileStep ==
    ASSUME SocketInv, FileInv, [Next]_vars
    PROVE  FileInv'
<1>1. ASSUME NEW c \in Call, Operate(c) \/ Finish(c)
      PROVE  FileInv'
  BY <1>1, OperateEffect, FinishEffect, FileQuiet
<1>2. ASSUME UNCHANGED <<call, open, installed, sphase>>
      PROVE  FileInv'
  <2>1. MadeInv'
    BY <1>2 DEF FileInv, MadeInv, Made
  <2>2. \A c \in Call : CloserOK(c)' /\ RefOK(c)'
    BY <1>2 DEF FileInv, CloserOK, RefOK, Closing
  <2>3. \A s \in Maker : FileOK(s)'
    BY <1>2 DEF FileInv, FileOK, Reachable
  <2>4. QED
    BY <2>1, <2>2, <2>3 DEF FileInv
<1>3. ASSUME NEW c \in Call, Background(c)
      PROVE  FileInv'
  BY <1>2, <1>3, GoroutineEffect
<1>4. CASE UNCHANGED vars
  BY <1>2, <1>4 DEF vars
<1>5. QED
  BY <1>1, <1>3, <1>4, FileLookup, FileEnter, FileDuplicate, FileInstall, FileMark,
     FileDrain, FileRemove
  DEF Next, Handle, Close, Operate, Finish, Background
-----------------------------------------------------------------------------
(* EndInv.                                                                  *)

\* Only the close that ends the inode closes the state.
LEMMA StaysAlive ==
    ASSUME SocketInv, NEW c \in Call, Operate(c) \/ Background(c)
    PROVE  state'.kind = "closed" <=> state.kind = "closed"
<1>1. CASE ConnectPublish(c) \/ BindPublish(c) \/ ListenPublish(c)
  <2>1. call[c].prev.kind = "passive"
    BY <1>1 DEF SocketInv, PrevInv, PrevOK, ConnectPublish, BindPublish, ListenPublish, At
  <2>2. QED
    BY <1>1, <2>1 DEF ConnectPublish, BindPublish, ListenPublish, Connecting, Passive, Plain
<1>2. CASE Resolve(c)
  <2>1. dial[c].next.kind \in {"passive", "connected"}
    <3>1. dial[c].next = IF dial[c].errno = "ok" THEN Plain("connected", c)
                         ELSE Passive(dial[c].bind, "ECONNREFUSED", c)
      BY <1>2, ThisConnect DEF Resolve, DialOK
    <3>2. QED
      BY <3>1 DEF Passive, Plain
  <2>2. QED
    BY <1>2, <2>1 DEF Resolve, Connecting
<1>3. CASE ~(ConnectPublish(c) \/ BindPublish(c) \/ ListenPublish(c) \/ Resolve(c))
  <2>1. UNCHANGED state
    BY <1>3 DEF Operate, Background, Completion, Load, EnterBind, GotName, ConnectDummy,
       ConnectAttach, ConnectWait, BindEnter, ListenPark, NetListen, ListenUnbind, Join, Reply,
       HangUp, DialUnbind, DialCloseBind, ProxyEnd, ProxyClose, AcceptLoopEnd
  <2>2. QED
    BY <2>1
<1>4. QED
  BY <1>1, <1>2, <1>3

\* A step that leaves Inode.open and the closes that are at their end.
LEMMA EndQuiet ==
    ASSUME EndInv, UNCHANGED open, state'.kind = "closed" <=> state.kind = "closed",
           Called("import") => Called("import")',
           \A c \in Call : call[c].pc \in Finishing \/ call'[c].pc \in Finishing =>
              call'[c].pc = call[c].pc
    PROVE  EndInv'
<1>1. /\ Ending' = Ending /\ Ended' = Ended /\ (NeverPanics => NeverPanics')
      /\ \A c \in Call : call[c].pc \in {"final", "end", "panic"} => call'[c].pc = call[c].pc
  BY DEF Ending, Ended, NeverPanics, At, Finishing
<1>2. QED
  BY <1>1 DEF EndInv

LEMMA EndBegin ==
    ASSUME SocketInv, EndInv, NEW c \in Call,
           Lookup(c) \/ Enter(c) \/ DupInstall(c) \/ CloseMark(c) \/ CloseDrain(c)
    PROVE  EndInv'
<1>1. UNCHANGED <<open, state>> /\ call[c].pc \notin Finishing
  BY DEF Lookup, Enter, DupInstall, CloseMark, CloseDrain, At, Finishing
<1>2. /\ \A d \in Call \ {c} : call'[d] = call[d]
      /\ call'[c].pc \notin Finishing
      /\ call'[c].op = call[c].op \/ call[c].op = "none"
  <2>1. ASSUME NEW r, Return(c, r) PROVE <1>2
    BY <2>1, Here, ReturnAdvances DEF Advanced, Finishing
  <2>2. ASSUME NEW l \in {"drain", "remove"}, Goto(c, l) PROVE <1>2
    BY <2>2, Here, GotoAdvances DEF Advanced, Finishing
  <2>3. CASE Lookup(c)
    <3>1. \A o : First(o) \notin Finishing
      BY DEF First, Finishing
    <3>2. call[c].op = "none"
      BY <2>3, Here, StageOf DEF Lookup, At
    <3>3. PICK o, s, b : call' = [call EXCEPT ![c] =
                            [@ EXCEPT !.op = o, !.sock = s, !.blocking = b, !.pc = First(o)]]
      BY <2>3 DEF Lookup
    <3>4. QED
      BY <3>1, <3>2, <3>3, Here DEF CallType
  <2>4. CASE Enter(c)
    <3>1. CASE Return(c, "EBADF")
      BY <2>1, <3>1
    <3>2. CASE ~Return(c, "EBADF")
      <4> DEFINE l == IF call[c].op = "dup" THEN "dup" ELSE "load"
      <4>1. call' = [call EXCEPT ![c] = [@ EXCEPT !.ref = TRUE, !.pc = l]]
        BY <2>4, <3>2 DEF Enter
      <4>2. l \in {"dup", "load"}
        OBVIOUS
      <4>3. QED
        <5> HIDE DEF l
        <5> QED
          BY <4>1, <4>2, Here DEF CallType, Finishing
    <3>3. QED
      BY <3>1, <3>2
  <2>5. CASE DupInstall(c) \/ CloseMark(c) \/ CloseDrain(c)
    BY <2>1, <2>2, <2>5 DEF DupInstall, CloseMark, CloseDrain
  <2>6. QED
    BY <2>3, <2>4, <2>5
<1>3. Called("import") => Called("import")'
  BY <1>2 DEF Called
<1>4. QED
  BY <1>1, <1>2, <1>3, EndQuiet
\* A duplicate is made while its original is open, so the inode has not ended.
LEMMA EndDup ==
    ASSUME SocketInv, FileInv, EndInv, NEW c \in Call, DupCreate(c)
    PROVE  EndInv'
<1>1. call[c].pc = "dup" /\ open' = open \cup {c} /\ UNCHANGED state
  BY DEF DupCreate, At
<1>2. open # {}
  <2>1. call[c].ref /\ call[c].sock \in Maker
    BY <1>1, FileHere DEF RefOK
  <2>2. sphase[call[c].sock] \in {"open", "closing"}
    BY <2>1, FileHere DEF RefOK
  <2>3. QED
    BY <2>1, <2>2 DEF FileInv, FileOK
<1>3. Advanced(c) /\ call'[c].pc = "install"
  BY Here, GotoAdvances DEF DupCreate
<1>4. /\ Ending' = Ending /\ Ended' = Ended /\ (NeverPanics => NeverPanics')
      /\ Called("import") => Called("import")'
  BY <1>1, <1>3 DEF Ending, Ended, NeverPanics, At, Called, Advanced
<1>5. QED
  BY <1>1, <1>2, <1>4 DEF EndInv

\* An import may bring an ended inode back.
LEMMA EndImport ==
    ASSUME SocketInv, EndInv, NEW c \in Call, Import(c)
    PROVE  EndInv'
<1>1. c \in open'
  BY DEF Import
<1>2. call'[c].op = "import"
  <2>1. call[c].op = "import"
    BY Here, StageOf DEF Import, At
  <2>2. QED
    BY <2>1, Here, ReturnAdvances DEF Import, Advanced
<1>3. QED
  BY <1>1, <1>2 DEF EndInv, Called

\* The last descriptor goes once.
LEMMA EndRemove ==
    ASSUME SocketInv, EndInv, NEW c \in Call, CloseRemove(c)
    PROVE  EndInv'
<1> DEFINE s == call[c].sock
<1>1. call[c].pc = "remove" /\ open' = open \ {s} /\ UNCHANGED state
  BY DEF CloseRemove, At
<1>2. /\ Advanced(c) /\ call'[c].pc = IF open = {s} THEN "final" ELSE "done"
  BY Here, GotoAdvances, ReturnAdvances DEF CloseRemove, IsLast
<1>3. (Called("import") => Called("import")') /\ (NeverPanics => NeverPanics')
  BY <1>1, <1>2 DEF Called, NeverPanics, At, Advanced
<1>4. CASE open = {s}
  <2>1. open' = {} /\ open # {}
    BY <1>1, <1>4
  <2>2. Ended = {} => Ending' \subseteq {c}
    BY <1>2 DEF Ended, Ending, Advanced
  <2>3. QED
    BY <1>1, <1>2, <1>3, <1>4, <2>1, <2>2 DEF EndInv
<1>5. CASE open # {s}
  <2>1. open' = {} => open = {}
    BY <1>1, <1>5
  <2>2. /\ Ended' = Ended /\ Ending' = Ending
        /\ \A d \in Call : call[d].pc \in {"final", "end", "panic"} => call'[d].pc = call[d].pc
    BY <1>1, <1>2, <1>5 DEF Ended, Ending, Advanced
  <2>3. open = {} => open' = {}
    BY <1>1
  <2>4. QED
    BY <1>1, <1>3, <2>1, <2>2, <2>3 DEF EndInv
<1>6. QED
  BY <1>4, <1>5

\* The loop that ends the inode: nobody else runs it, so it finds the state that
\* was alive when it started alive.
LEMMA EndFinish ==
    ASSUME SocketInv, EndInv, NEW c \in Call, Finish(c)
    PROVE  EndInv'
<1>1. /\ Advanced(c) /\ UNCHANGED open
      /\ call[c].pc \in Finishing /\ call'[c].pc \in Finishing \cup {"done"}
  BY FinishEffect
<1>2. Called("import") => Called("import")'
  BY <1>1 DEF Called, Advanced
<1>3. c \in Ended /\ Ended' \subseteq Ended
  BY <1>1 DEF Ended, Finishing, Advanced
<1>4. CASE CloseLoad(c)
  <2>1. call[c].pc = "final" /\ UNCHANGED state
        /\ call'[c].pc = IF state.kind = "closed" THEN "panic" ELSE "end"
    BY <1>4, Here, LoadAdvances DEF CloseLoad, At
  <2>2. c \in Ending /\ Ending' \subseteq Ending
    BY <1>1, <2>1 DEF Ending, Advanced
  <2>3. state.kind # "closed" /\ NeverPanics => NeverPanics'
    BY <1>1, <2>1 DEF NeverPanics, At, Advanced
  <2>4. \E d \in Call : call'[d].pc \in {"final", "end", "panic"}
    BY <2>1
  <2>5. QED
    BY <1>1, <1>2, <1>3, <2>1, <2>2, <2>3, <2>4 DEF EndInv
<1>5. CASE CloseEnd(c) /\ state' # state
  <2>1. call[c].pc = "end" /\ state'.kind = "closed" /\ call'[c].pc = "release"
    BY <1>5, Here, GotoAdvances DEF CloseEnd, At, Plain
  <2>2. c \in Ending /\ Ending' = Ending \ {c}
    BY <1>1, <2>1 DEF Ending, Advanced
  <2>3. NeverPanics => NeverPanics'
    BY <1>1, <2>1 DEF NeverPanics, At, Advanced
  <2>4. ~Called("import") => Ending' = {}
    BY <2>2 DEF EndInv
  <2>5. QED
    BY <1>1, <1>2, <1>3, <2>1, <2>3, <2>4 DEF EndInv
<1>6. CASE CloseEnd(c) /\ state' = state
  <2>1. /\ call[c].pc = "end" /\ call'[c].pc \in {"final", "release"}
        /\ call'[c].pc = "release" => state.kind = "closed"
    BY <1>6, Here, GotoAdvances DEF CloseEnd, At, Plain
  <2>2. Ending' \subseteq Ending
    BY <1>1, <2>1 DEF Ending, Advanced
  <2>3. NeverPanics => NeverPanics'
    BY <1>1, <2>1 DEF NeverPanics, At, Advanced
  <2>4. \/ state.kind = "closed"
        \/ \E d \in Call : call'[d].pc \in {"final", "end", "panic"}
    BY <2>1
  <2>5. QED
    BY <1>1, <1>2, <1>3, <1>6, <2>1, <2>2, <2>3, <2>4 DEF EndInv
<1>7. CASE CloseReleaseBind(c) \/ CloseBind(c) \/ CloseReleaseProxy(c) \/ CloseReleaseListener(c)
  <2>1. call[c].pc \in {"release", "lock"} /\ UNCHANGED state
    BY <1>7 DEF CloseReleaseBind, CloseBind, CloseReleaseProxy, CloseReleaseListener, At
  <2>2. call'[c].pc \in {"lock", "done"}
    BY <1>7, Here, GotoAdvances, ReturnAdvances
    DEF CloseReleaseBind, CloseBind, CloseReleaseProxy, CloseReleaseListener
  <2>3. /\ Ending' = Ending /\ (NeverPanics => NeverPanics')
        /\ \A d \in Call : call[d].pc \in {"final", "end", "panic"} => call'[d].pc = call[d].pc
    BY <1>1, <2>1, <2>2 DEF Ending, NeverPanics, At, Advanced
  <2>4. QED
    BY <1>1, <1>2, <1>3, <2>1, <2>3 DEF EndInv
<1>8. QED
  BY <1>4, <1>5, <1>6, <1>7 DEF Finish

LEMMA EndStep ==
    ASSUME SocketInv, FileInv, EndInv, [Next]_vars
    PROVE  EndInv'
<1>1. ASSUME NEW c \in Call, Operate(c)
      PROVE  EndInv'
  <2>1. /\ Advanced(c) /\ UNCHANGED open
        /\ call[c].pc \notin Finishing /\ call'[c].pc \notin Finishing
    BY <1>1, OperateEffect DEF Inside, Finishing
  <2>2. /\ Called("import") => Called("import")'
        /\ \A d \in Call \ {c} : call'[d] = call[d]
    BY <2>1 DEF Called, Advanced
  <2>3. QED
    BY <1>1, <2>1, <2>2, StaysAlive, EndQuiet
<1>2. ASSUME UNCHANGED <<call, open>>, state'.kind = "closed" <=> state.kind = "closed"
      PROVE  EndInv'
  BY <1>2, EndQuiet DEF Called
<1>3. ASSUME NEW c \in Call, Background(c)
      PROVE  EndInv'
  BY <1>2, <1>3, GoroutineEffect, StaysAlive
<1>4. CASE UNCHANGED vars
  BY <1>2, <1>4 DEF vars
<1>5. QED
  BY <1>1, <1>3, <1>4, EndBegin, EndDup, EndImport, EndRemove, EndFinish
  DEF Next, Handle, Close, Operate, Finish, Background
-----------------------------------------------------------------------------
(* GoroutineInv.                                                            *)

\* The operations that do not touch a connect's goroutine.
Apart(c) ==
    \/ Load(c) \/ EnterBind(c) \/ GotName(c) \/ ConnectWait(c) \/ BindEnter(c) \/ BindPublish(c)
    \/ ListenPark(c) \/ NetListen(c) \/ ListenUnbind(c) \/ ListenPublish(c)

LEMMA ApartEffect ==
    ASSUME SocketInv, NEW c \in Call, Apart(c)
    PROVE  UNCHANGED <<dial, proxy>> /\ call'[c].pc # "dummy"
<1>1. UNCHANGED <<dial, proxy>>
  BY DEF Apart, Load, EnterBind, GotName, ConnectWait, BindEnter, BindPublish, ListenPark,
         NetListen, ListenUnbind, ListenPublish
<1>2. call \in [Call -> CallType]
  BY Here
<1>3. ASSUME NEW r, Return(c, r) PROVE call'[c].pc # "dummy"
  BY <1>2, <1>3, ReturnAdvances
<1>4. ASSUME NEW l, l # "dummy", Goto(c, l) PROVE call'[c].pc # "dummy"
  BY <1>2, <1>4, GotoAdvances
<1>5. ASSUME NEW l, l # "dummy", NEW b,
             call' = [call EXCEPT ![c] = [@ EXCEPT !.held = b, !.pc = l]]
      PROVE  call'[c].pc # "dummy"
  BY <1>2, <1>5 DEF CallType
<1>6. CASE Load(c)
  <2>1. Onward(call[c].op) # "dummy"
    BY DEF Onward
  <2>2. QED
    BY <1>2, <1>3, <1>6, <2>1, LoadAdvances DEF Load, At
<1>7. AfterName(call[c].op) # "dummy"
  BY DEF AfterName
<1>8. CASE EnterBind(c)
  BY <1>3, <1>4, <1>5, <1>7, <1>8 DEF EnterBind
<1>9. CASE GotName(c)
  BY <1>3, <1>5, <1>7, <1>9 DEF GotName
<1>10. CASE BindEnter(c)
  BY <1>3, <1>5, <1>10 DEF BindEnter
<1>11. CASE \/ ConnectWait(c) \/ BindPublish(c)
            \/ ListenPark(c) \/ NetListen(c) \/ ListenUnbind(c) \/ ListenPublish(c)
  BY <1>3, <1>4, <1>11
  DEF ConnectWait, BindPublish, ListenPark, NetListen, ListenUnbind, ListenPublish
<1>12. QED
  BY <1>1, <1>6, <1>8, <1>9, <1>10, <1>11 DEF Apart

\* A step that leaves the state, closes it or replaces a Passive one disturbs
\* no connect that is under way.
Mild == state' = state \/ state'.kind = "closed" \/ state.kind = "passive"

LEMMA MildSteps ==
    ASSUME SocketInv, NEW c \in Call,
           Lookup(c) \/ Handle(c) \/ (Background(c) /\ ~Resolve(c))
    PROVE  Mild
<1>1. CASE ConnectPublish(c) \/ BindPublish(c) \/ ListenPublish(c)
  <2>1. call[c].prev.kind = "passive"
    BY <1>1 DEF SocketInv, PrevInv, PrevOK, ConnectPublish, BindPublish, ListenPublish, At
  <2>2. QED
    BY <1>1, <2>1 DEF ConnectPublish, BindPublish, ListenPublish, Mild
<1>2. CASE CloseEnd(c)
  BY <1>2 DEF CloseEnd, Mild, Plain
<1>3. CASE ~(ConnectPublish(c) \/ BindPublish(c) \/ ListenPublish(c) \/ CloseEnd(c))
  <2>1. UNCHANGED state
    BY <1>3 DEF Handle, Close, Background, Completion, Lookup, Enter, Load, EnterBind, GotName,
       ConnectDummy, ConnectAttach, ConnectWait, BindEnter, ListenPark, NetListen,
       ListenUnbind, DupCreate, DupInstall, Import, CloseMark, CloseDrain, CloseRemove,
       CloseLoad, CloseReleaseBind, CloseBind, CloseReleaseProxy, CloseReleaseListener,
       Join, Reply, HangUp, DialUnbind, DialCloseBind, ProxyEnd, ProxyClose, AcceptLoopEnd
  <2>2. QED
    BY <2>1 DEF Mild
<1>4. QED
  BY <1>1, <1>2, <1>3

LEMMA GoroutineFrame ==
    ASSUME GoroutineInv, Mild, NEW d \in Call, dial'[d] = dial[d],
           call'[d].pc = "dummy" => call[d].pc = "dummy"
    PROVE  GoroutineOK(d)'
<1>1. GoroutineOK(d)
  BY DEF GoroutineInv
<1>2. CASE state' = state \/ state'.kind = "closed"
  BY <1>1, <1>2 DEF GoroutineOK, Underway
<1>3. CASE state.kind = "passive"
  <2>1. ~Underway(d) /\ dial[d].errno # "ERESTART"
    BY <1>1, <1>3 DEF GoroutineOK, Connecting
  <2>2. QED
    BY <1>1, <2>1 DEF GoroutineOK, Underway
<1>4. QED
  BY <1>2, <1>3 DEF Mild

LEMMA GoroutineConnect ==
    ASSUME SocketInv, GoroutineInv, NEW c \in Call,
           ConnectPublish(c) \/ ConnectDummy(c) \/ ConnectAttach(c)
    PROVE  GoroutineOK(c)'
<1>1. /\ call \in [Call -> CallType] /\ dial \in [Call -> DialType] /\ GoroutineOK(c)
      /\ dial[c].pc # "idle" => call[c].pc \in {"attach", "wait", "done"}
  BY Here, ThisConnect DEF GoroutineInv, DialOK
<1>2. CASE ConnectPublish(c)
  <2>1. call[c].pc = "publish" /\ dial[c].pc = "idle" /\ dial[c].errno = "ok"
    BY <1>1, <1>2 DEF ConnectPublish, At, GoroutineOK
  <2>2. CASE state = call[c].prev
    <3>1. state' = Connecting(BindFor(c), c) /\ dial'[c] = [dial[c] EXCEPT !.bind = BindFor(c)]
      BY <1>1, <1>2, <2>2 DEF ConnectPublish
    <3>2. dial'[c].bind = BindFor(c) /\ dial'[c].pc = "idle" /\ dial'[c].errno = "ok"
      BY <1>1, <2>1, <3>1 DEF DialType
    <3>3. QED
      BY <3>1, <3>2 DEF GoroutineOK
  <2>3. CASE state # call[c].prev
    <3>1. UNCHANGED dial /\ call'[c].pc = "done"
      BY <1>1, <1>2, <2>3, ReturnAdvances DEF ConnectPublish
    <3>2. QED
      BY <1>1, <2>1, <3>1 DEF GoroutineOK, Underway
  <2>4. QED
    BY <2>2, <2>3
<1>3. CASE ConnectDummy(c)
  <2>1. /\ call[c].pc = "dummy" /\ dial[c].pc = "idle" /\ dial[c].errno = "ok"
        /\ state = Connecting(dial[c].bind, c) \/ state.kind = "closed"
        /\ UNCHANGED state
    BY <1>1, <1>3 DEF ConnectDummy, At, GoroutineOK, Underway
  <2>2. CASE UNCHANGED dial
    <3>1. call'[c].pc = "done"
      BY <1>1, <1>3, <2>1, <2>2, ReturnAdvances DEF ConnectDummy, DialType
    <3>2. QED
      BY <1>1, <2>1, <2>2, <3>1 DEF GoroutineOK, Underway
  <2>3. CASE dial' = [dial EXCEPT ![c].pc = "join"]
    <3>1. dial'[c].pc = "join" /\ dial'[c].errno = "ok" /\ dial'[c].bind = dial[c].bind
      BY <1>1, <2>1, <2>3 DEF DialType
    <3>2. QED
      BY <2>1, <3>1 DEF GoroutineOK
  <2>4. QED
    BY <1>3, <2>2, <2>3 DEF ConnectDummy
<1>4. CASE ConnectAttach(c)
  <2>1. /\ dial'[c].pc = dial[c].pc /\ dial'[c].errno = dial[c].errno
        /\ dial'[c].bind = dial[c].bind /\ UNCHANGED state
    BY <1>1, <1>4 DEF ConnectAttach, DialType
  <2>2. call'[c].pc # "dummy"
    <3>1. CASE call[c].blocking
      <4>1. call' = [call EXCEPT ![c] = [@ EXCEPT !.pc = "wait", !.res = AttachErrno(c)]]
        BY <1>4, <3>1 DEF ConnectAttach
      <4>2. call'[c].pc = "wait"
        BY <1>1, <4>1 DEF CallType
      <4>3. QED
        BY <4>2
    <3>2. CASE ~call[c].blocking
      BY <1>1, <1>4, <3>2, ReturnAdvances DEF ConnectAttach
    <3>3. QED
      BY <3>1, <3>2
  <2>3. QED
    BY <1>1, <2>1, <2>2 DEF GoroutineOK, Underway
<1>5. QED
  BY <1>2, <1>3, <1>4

\* What the steps of a goroutine do to its own record.
LEMMA GoroutineOwn ==
    ASSUME SocketInv, GoroutineInv, NEW c \in Call, Completion(c)
    PROVE  GoroutineOK(c)'
<1>1. /\ dial \in [Call -> DialType] /\ GoroutineOK(c)
      /\ dial[c].pc # "idle" => call[c].pc \in {"attach", "wait", "done"}
  BY Here, ThisConnect DEF GoroutineInv, DialOK
<1>2. UNCHANGED call
  BY GoroutineEffect DEF Background
<1>3. dial[c].pc # "idle" => call'[c].pc # "dummy"
  BY <1>1, <1>2
<1>4. CASE Join(c)
  <2>1. /\ dial[c].pc = "join" /\ UNCHANGED state
        /\ state = Connecting(dial[c].bind, c) \/ state.kind = "closed"
    BY <1>1, <1>4 DEF Join, GoroutineOK, Underway
  <2>2. /\ dial'[c].bind = dial[c].bind
        /\ \/ dial'[c].pc = "swap" /\ dial'[c].errno \in {"ok", "ECONNREFUSED"}
           \/ dial'[c].pc = "reply" /\ dial'[c].errno = "ENOSYS"
    <3>1. PICK o \in {"ok", "refused", "unknown"} :
            dial' = [dial EXCEPT ![c] =
              [@ EXCEPT !.pc = IF Unresolved(o) THEN "reply" ELSE "swap",
                        !.next = IF o = "ok" THEN Plain("connected", c)
                                 ELSE Passive(dial[c].bind, "ECONNREFUSED", c),
                        !.errno = CASE o = "ok" -> "ok"
                                    [] o = "refused" -> "ECONNREFUSED"
                                    [] o = "unknown" -> "ENOSYS"]]
      BY <1>4, SocketAssumption DEF Join, SocketAssumption
    <3>2. QED
      BY <1>1, <3>1 DEF DialType, Unresolved
  <2>3. QED
    BY <1>3, <2>1, <2>2 DEF GoroutineOK, Underway
<1>5. CASE Resolve(c)
  <2>1. /\ dial[c].pc = "swap" /\ dial[c].errno \in {"ok", "ECONNREFUSED"}
        /\ state = Connecting(dial[c].bind, c) \/ state.kind = "closed"
    BY <1>1, <1>5 DEF Resolve, GoroutineOK, Underway
  <2>2. dial'[c].pc = "reply"
    BY <1>1, <1>5 DEF Resolve, DialType
  <2>3. CASE state = Connecting(dial[c].bind, c)
    <3>1. dial'[c].errno = dial[c].errno
      BY <1>1, <1>5, <2>3 DEF Resolve, DialType
    <3>2. QED
      BY <1>3, <2>1, <2>2, <3>1 DEF GoroutineOK, Underway
  <2>4. CASE state # Connecting(dial[c].bind, c)
    <3>1. dial'[c].errno = "ERESTART" /\ UNCHANGED state
      BY <1>1, <1>5, <2>4 DEF Resolve, DialType
    <3>2. QED
      BY <1>3, <2>1, <2>2, <2>4, <3>1 DEF GoroutineOK, Underway
  <2>5. QED
    BY <2>3, <2>4
<1>6. CASE Reply(c) \/ HangUp(c) \/ DialUnbind(c) \/ DialCloseBind(c)
  <2>1. UNCHANGED state /\ dial[c].pc \in {"reply", "hangup", "unbind", "lock"}
    BY <1>6 DEF Reply, HangUp, DialUnbind, DialCloseBind
  <2>2. /\ dial'[c].errno = dial[c].errno
        /\ dial'[c].pc \in {"hangup", "unbind", "lock", "done"}
        /\ dial'[c].pc = "unbind" => dial[c].errno # "ECONNREFUSED"
    <3>1. CASE Reply(c)
      BY <1>1, <3>1 DEF Reply, DialType
    <3>2. CASE HangUp(c)
      BY <1>1, <3>2 DEF HangUp, DialType, KeepsBind
    <3>3. CASE DialUnbind(c) \/ DialCloseBind(c)
      BY <1>1, <3>3 DEF DialUnbind, DialCloseBind, DialType
    <3>4. QED
      BY <1>6, <3>1, <3>2, <3>3
  <2>3. QED
    BY <1>1, <1>3, <2>1, <2>2 DEF GoroutineOK, Underway
<1>7. QED
  BY <1>4, <1>5, <1>6 DEF Completion

\* Nobody but its own goroutine replaces a Connecting state by another live one.
LEMMA GoroutineOther ==
    ASSUME SocketInv, GoroutineInv, NEW c \in Call, Resolve(c), NEW d \in Call, d # c
    PROVE  GoroutineOK(d)'
<1>1. GoroutineOK(d) /\ dial'[d] = dial[d] /\ call' = call
  BY Here DEF Resolve, GoroutineInv
<1>2. CASE state' = state
  BY <1>1, <1>2 DEF GoroutineOK, Underway
<1>3. CASE state = Connecting(dial[c].bind, c)
  <2>1. ~Underway(d) /\ dial[d].errno # "ERESTART"
    BY <1>1, <1>3 DEF GoroutineOK, Connecting
  <2>2. QED
    BY <1>1, <2>1 DEF GoroutineOK, Underway
<1>4. QED
  BY <1>2, <1>3 DEF Resolve

\* The calls that are no operation on an open socket have no goroutine either.
LEMMA AsideEffect ==
    ASSUME SocketInv, NEW c \in Call,
           \/ Lookup(c) \/ Enter(c) \/ DupCreate(c) \/ DupInstall(c) \/ Import(c)
           \/ CloseMark(c) \/ CloseDrain(c) \/ CloseRemove(c)
    PROVE  /\ UNCHANGED <<state, dial, proxy, lis, bphase>>
           /\ \A d \in Call \ {c} : call'[d] = call[d]
           /\ call[c].pc \in {"idle", "enter", "dup", "install", "import", "mark", "drain", "remove"}
           /\ call'[c].pc \in {"enter", "load", "dup", "install", "import", "mark", "drain",
                               "remove", "final", "done"}
           /\ call'[c].prev = call[c].prev /\ call'[c].held \in {None, call[c].held}
           /\ call'[c].op = call[c].op \/ call[c].op = "none"
<1> DEFINE aside(l) == /\ \A d \in Call \ {c} : call'[d] = call[d]
                       /\ call'[c].pc = l
                       /\ call'[c].prev = call[c].prev /\ call'[c].held \in {None, call[c].held}
                       /\ call'[c].op = call[c].op \/ call[c].op = "none"
<1>1. /\ UNCHANGED <<state, dial, proxy, lis, bphase>>
      /\ call[c].pc \in {"idle", "enter", "dup", "install", "import", "mark", "drain", "remove"}
  BY DEF Lookup, Enter, DupCreate, DupInstall, Import, CloseMark, CloseDrain, CloseRemove, At
<1>2. call \in [Call -> CallType]
  BY Here
<1>3. ASSUME NEW r, Return(c, r) PROVE aside("done")
  BY <1>2, <1>3, ReturnAdvances DEF Advanced
<1>4. ASSUME NEW l, Goto(c, l) PROVE aside(l)
  BY <1>2, <1>4, GotoAdvances DEF Advanced
<1>5. CASE Lookup(c)
  <2>1. \A o : First(o) \in {"mark", "import", "enter"}
    BY DEF First
  <2>2. call[c].op = "none"
    BY <1>5, Here, StageOf DEF Lookup, At
  <2>3. PICK o, s, b : call' = [call EXCEPT ![c] =
                          [@ EXCEPT !.op = o, !.sock = s, !.blocking = b, !.pc = First(o)]]
    BY <1>5 DEF Lookup
  <2>4. aside(First(o))
    BY <1>2, <2>2, <2>3 DEF CallType
  <2>5. QED
    <3> HIDE DEF aside
    <3>1. First(o) \in {"mark", "import", "enter"}
      BY <2>1
    <3>2. QED
      BY <1>1, <2>4, <3>1 DEF aside
<1>6. CASE Enter(c)
  <2>1. CASE Return(c, "EBADF")
    BY <1>1, <1>3, <2>1
  <2>2. CASE ~Return(c, "EBADF")
    <3> DEFINE l == IF call[c].op = "dup" THEN "dup" ELSE "load"
    <3>1. call' = [call EXCEPT ![c] = [@ EXCEPT !.ref = TRUE, !.pc = l]]
      BY <1>6, <2>2 DEF Enter
    <3>2. l \in {"dup", "load"}
      OBVIOUS
    <3>3. QED
      <4> HIDE DEF l
      <4> QED
        BY <1>1, <1>2, <3>1, <3>2 DEF CallType
  <2>3. QED
    BY <2>1, <2>2
<1>7. CASE \/ DupCreate(c) \/ DupInstall(c) \/ Import(c)
           \/ CloseMark(c) \/ CloseDrain(c) \/ CloseRemove(c)
  <2>1. \/ \E r : Return(c, r)
        \/ \E l \in {"install", "drain", "remove", "final"} : Goto(c, l)
    BY <1>7 DEF DupCreate, DupInstall, Import, CloseMark, CloseDrain, CloseRemove
  <2>2. QED
    BY <1>1, <1>3, <1>4, <2>1
<1>8. QED
  BY <1>5, <1>6, <1>7

LEMMA GoroutineStepInv ==
    ASSUME SocketInv, GoroutineInv, [Next]_vars
    PROVE  GoroutineInv'
<1> USE DEF GoroutineInv
<1>1. ASSUME UNCHANGED <<call, dial>>, Mild
      PROVE  GoroutineInv'
  BY <1>1, GoroutineFrame
<1>2. ASSUME NEW c \in Call, Apart(c) \/ Finish(c)
      PROVE  GoroutineInv'
  <2>1. Mild /\ Advanced(c)
    BY <1>2, MildSteps, OperateEffect, FinishEffect
    DEF Apart, Operate, Finish, Handle, Close
  <2>2. UNCHANGED dial /\ call'[c].pc # "dummy"
    <3>1. CASE Apart(c)
      BY <3>1, ApartEffect
    <3>2. CASE Finish(c)
      BY <3>2, FinishEffect DEF Finishing, Finish, CloseLoad, CloseEnd, CloseReleaseBind,
         CloseBind, CloseReleaseProxy, CloseReleaseListener
    <3>3. QED
      BY <1>2, <3>1, <3>2
  <2>3. QED
    BY <2>1, <2>2, GoroutineFrame DEF Advanced
<1>3. ASSUME NEW c \in Call,
             \/ Lookup(c) \/ Enter(c) \/ DupCreate(c) \/ DupInstall(c) \/ Import(c)
             \/ CloseMark(c) \/ CloseDrain(c) \/ CloseRemove(c)
      PROVE  GoroutineInv'
  BY <1>3, AsideEffect, GoroutineFrame DEF Mild
<1>4. ASSUME NEW c \in Call, ConnectPublish(c) \/ ConnectDummy(c) \/ ConnectAttach(c)
      PROVE  GoroutineInv'
  <2>1. Mild /\ Advanced(c)
    BY <1>4, MildSteps, OperateEffect DEF Operate, Handle
  <2>2. \A d \in Call \ {c} : dial'[d] = dial[d]
    BY <1>4, Here DEF ConnectPublish, ConnectDummy, ConnectAttach
  <2>3. GoroutineOK(c)'
    BY <1>4, GoroutineConnect
  <2>4. QED
    BY <2>1, <2>2, <2>3, GoroutineFrame DEF Advanced
<1>5. ASSUME NEW c \in Call, Completion(c)
      PROVE  GoroutineInv'
  <2>1. GoroutineOK(c)' /\ UNCHANGED call
    BY <1>5, GoroutineOwn, GoroutineEffect DEF Background
  <2>2. CASE Resolve(c)
    BY <2>1, <2>2, GoroutineOther
  <2>3. CASE ~Resolve(c)
    <3>1. Mild
      BY <1>5, <2>3, MildSteps DEF Background
    <3>2. \A d \in Call \ {c} : dial'[d] = dial[d]
      BY <1>5, <2>3, Here DEF Completion, Join, Reply, HangUp, DialUnbind, DialCloseBind
    <3>3. QED
      BY <2>1, <3>1, <3>2, GoroutineFrame
  <2>4. QED
    BY <2>2, <2>3
<1>6. ASSUME NEW c \in Call, ProxyEnd(c) \/ ProxyClose(c) \/ AcceptLoopEnd(c)
      PROVE  GoroutineInv'
  BY <1>1, <1>6 DEF ProxyEnd, ProxyClose, AcceptLoopEnd, Mild
<1>7. CASE UNCHANGED vars
  BY <1>1, <1>7 DEF vars, Mild
<1>8. QED
  BY <1>2, <1>3, <1>4, <1>5, <1>6, <1>7
  DEF Next, Handle, Close, Apart, Finish
-----------------------------------------------------------------------------
(* BindInv.                                                                 *)

\* Where a call can be that has made its bind socket.
After == {"dummy", "attach", "wait", "done"}

\* A bind socket, once made, is never made again.
Aging == \A b \in Call : bphase[b] # "none" =>
            bphase'[b] # "none" /\ (bphase'[b] = "open" => bphase[b] = "open")

LEMMA BindHere ==
    ASSUME SocketInv, BindInv, NEW c \in Call
    PROVE  /\ call \in [Call -> CallType] /\ dial \in [Call -> DialType]
           /\ bphase \in [Call -> Phases] /\ state \in States
           /\ state.bind \in Call \cup {None}
           /\ call[c].prev \in States /\ call[c].prev.bind \in Call \cup {None}
           /\ call[c].held \in Call \cup {None} /\ dial[c].bind \in Call \cup {None}
           /\ Bound(state.bind)
           /\ Bound(call[c].prev.bind) /\ Bound(call[c].held) /\ Bound(dial[c].bind)
           /\ bphase[c] # "none" => call[c].pc \in After
           /\ LockOK(c) /\ BindOK(c) /\ DialOK(c) /\ PrevOK(c)
           /\ c # None
<1>1. /\ call \in [Call -> CallType] /\ dial \in [Call -> DialType]
      /\ bphase \in [Call -> Phases] /\ state \in States
  BY DEF SocketInv, Shape
<1>2. call[c] \in CallType /\ dial[c] \in DialType
  BY <1>1
<1>3. /\ call[c].prev \in States
      /\ call[c].held \in Call \cup {None} /\ dial[c].bind \in Call \cup {None}
  BY <1>2 DEF CallType, DialType
<1>4. state.bind \in Call \cup {None} /\ call[c].prev.bind \in Call \cup {None}
  BY <1>1, <1>3 DEF States
<1>5. NamedInv /\ LockOK(c) /\ BindOK(c)
  BY DEF BindInv
<1>6. QED
  BY <1>1, <1>3, <1>4, <1>5, ThisConnect, CallIsMaker DEF NamedInv, After

\* What a step does to the names that other calls hold.
Named(c) ==
    /\ \A d \in Call \ {c} : call'[d] = call[d]
    /\ call'[c].op = call[c].op \/ call[c].op = "none"
    /\ call'[c].prev \in {call[c].prev, state}
    /\ \/ call'[c].held \in {None, call[c].held}
       \/ /\ call'[c].held = call[c].prev.bind /\ call[c].prev.bind # None
          /\ bphase[call[c].prev.bind] = "open"
    /\ call[c].pc \in After => call'[c].pc \in After

LEMMA NamedFrame ==
    ASSUME SocketInv, BindInv, Aging, NEW c \in Call, Named(c), Bound(state.bind)',
           \A d \in Call \ {c} : dial'[d] = dial[d],
           dial'[c].bind = dial[c].bind \/ Bound(dial[c].bind)',
           \A b \in Call \ {c} : bphase[b] = "none" => bphase'[b] = "none",
           bphase[c] = "none" => bphase'[c] = "none" \/ call'[c].pc \in After
    PROVE  NamedInv'
<1>1. NamedInv
  BY DEF BindInv
<1>2. ASSUME NEW b \in Call \cup {None}, Bound(b) PROVE Bound(b)'
  BY <1>2, CallIsMaker DEF Bound, Aging
<1>3. ASSUME NEW d \in Call
      PROVE  /\ Bound(call[d].prev.bind)' /\ Bound(call[d].held)' /\ Bound(dial[d].bind)'
             /\ bphase'[d] # "none" => call'[d].pc \in After
  <2>1. CASE d # c
    BY <1>2, <2>1, BindHere DEF Bound, Named
  <2>2. CASE d = c
    <3>1. Bound(call'[d].prev.bind) /\ call'[d].prev.bind \in Call \cup {None}
      BY <2>2, BindHere DEF Named
    <3>2. Bound(call'[d].held) /\ call'[d].held \in Call \cup {None}
      BY <2>2, BindHere DEF Named, Bound
    <3>3. Bound(dial[d].bind)'
      BY <1>2, <2>2, BindHere DEF Bound
    <3>4. Bound(call[d].prev.bind)' /\ Bound(call[d].held)'
      BY <1>2, <3>1, <3>2 DEF Bound
    <3>5. bphase'[d] # "none" => call'[d].pc \in After
      BY <2>2, BindHere DEF Named
    <3>6. QED
      BY <3>3, <3>4, <3>5
  <2>3. QED
    BY <2>1, <2>2
<1>4. QED
  BY <1>3 DEF NamedInv, After

\* What a step does to those who will close a bind socket: they go on to do so,
\* as long as it is open.
Caring(c) ==
    /\ \A d \in Call \ {c} : dial'[d] = dial[d]
    /\ dial[c].errno = "ENOSYS" => dial'[c].errno = "ENOSYS"
    /\ dial[c].pc = "lock" <=> dial'[c].pc = "lock"
    /\ dial'[c].pc = "unbind" => dial'[c].bind # None
    /\ dial'[c].bind = dial[c].bind \/ (dial[c].pc = "idle" /\ dial'[c].pc = "idle")
    /\ WillUnbind(c) /\ dial[c].bind # None /\ bphase[dial[c].bind] = "open" => WillUnbind(c)'
    /\ \/ call'[c] = call[c]
       \/ /\ call[c].pc # "lock" /\ call'[c].pc # "lock"
          /\ call'[c].pc = "listening" /\ call'[c].prev.bind # None =>
                bphase[call'[c].prev.bind] # "open"
          /\ Releasing(c) /\ call[c].prev.bind # None =>
                bphase[call[c].prev.bind] # "open"

\* A step that leaves the bind sockets.
LEMMA BindRestate ==
    ASSUME SocketInv, BindInv, UNCHANGED bphase, NEW c \in Call, Named(c), Caring(c),
           Bound(state.bind)', dial'[c].bind = dial[c].bind \/ Bound(dial[c].bind)',
           \A b \in Call : Alive /\ state.bind = b /\ bphase[b] = "open" => Owned(b)',
           StateBindOpen'
    PROVE  BindInv'
<1>1. Aging
  BY DEF Aging
<1>2. NamedInv'
  BY <1>1, NamedFrame DEF Caring
<1>3. ASSUME NEW d \in Call PROVE LockOK(d)'
  BY BindHere DEF LockOK, Named, Caring
<1>4. ASSUME NEW b \in Call PROVE BindOK(b)'
  <2>0. b # None
    BY CallIsMaker
  <2>1. bphase[b] = "open" /\ Owned(b) => Owned(b)'
    <3>1. ASSUME NEW d \in Call, WillUnbind(d), dial[d].bind = b, bphase[b] = "open"
          PROVE Owned(b)'
      <4>1. dial[d].pc # "idle"
        BY <3>1 DEF WillUnbind
      <4>2. WillUnbind(d)' /\ dial'[d].bind = b
        <5>1. CASE d = c
          BY <2>0, <3>1, <4>1, <5>1 DEF Caring
        <5>2. CASE d # c
          BY <3>1, <5>2 DEF Caring, WillUnbind, KeepsBind
        <5>3. QED
          BY <5>1, <5>2
      <4>3. QED
        BY <4>2 DEF Owned
    <3>2. ASSUME NEW d \in Call, Releasing(d), call[d].prev.bind = b, bphase[b] = "open"
          PROVE Owned(b)'
      <4>1. call'[d] = call[d]
        BY <2>0, <3>2 DEF Named, Caring
      <4>2. Releasing(d)' /\ call'[d].prev.bind = b
        BY <3>2, <4>1 DEF Releasing
      <4>3. QED
        BY <4>2 DEF Owned
    <3>3. QED
      BY <3>1, <3>2 DEF Owned
  <2>2. ASSUME NEW d \in Call, call[d].pc = "lock" PROVE call'[d] = call[d]
    BY <2>2 DEF Named, Caring
  <2>3. ASSUME NEW d \in Call, dial[d].pc = "lock"
        PROVE  dial'[d].pc = "lock" /\ dial'[d].bind = dial[d].bind
    BY <2>3 DEF Caring
  <2>4. QED
    BY <2>1, <2>2, <2>3, BindHere DEF BindOK
<1>5. NoBindUseAfterClose'
  <2>1. Called("listen") => Called("listen")'
    BY DEF Called, Named
  <2>2. ASSUME ~Called("listen"), NEW d \in Call, call'[d].held # None
        PROVE  bphase[call'[d].held] # "closed"
    BY <2>2, BindHere DEF BindInv, NoBindUseAfterClose, Named
  <2>3. QED
    BY <2>1, <2>2 DEF NoBindUseAfterClose
<1>6. QED
  BY <1>2, <1>3, <1>4, <1>5 DEF BindInv

\* A step that leaves the state as well.
LEMMA BindQuiet ==
    ASSUME SocketInv, BindInv, UNCHANGED <<state, bphase>>, NEW c \in Call, Named(c), Caring(c),
           dial'[c].bind = dial[c].bind
    PROVE  BindInv'
<1>1. Bound(state.bind)'
  BY BindHere DEF Bound
<1>2. \A b \in Call : Alive /\ state.bind = b => Owned(b)'
  BY DEF Alive, Owned
<1>3. StateBindOpen'
  <2>1. Called("listen") => Called("listen")'
    BY DEF Called, Named
  <2>2. (\A d \in Call : dial'[d].errno # "ENOSYS") => \A d \in Call : dial[d].errno # "ENOSYS"
    BY DEF Caring
  <2>3. QED
    BY <2>1, <2>2 DEF BindInv, StateBindOpen
<1>4. QED
  BY <1>1, <1>2, <1>3, BindRestate

LEMMA BindHandlers ==
    ASSUME SocketInv, BindInv, NEW c \in Call,
           \/ Lookup(c) \/ Enter(c) \/ DupCreate(c) \/ DupInstall(c) \/ Import(c)
           \/ CloseMark(c) \/ CloseDrain(c) \/ CloseRemove(c)
           \/ Load(c) \/ EnterBind(c) \/ GotName(c) \/ ConnectWait(c) \/ BindEnter(c)
           \/ ListenPark(c) \/ NetListen(c)
    PROVE  BindInv'
<1>0. (\A d \in Call : dial'[d] = dial[d]) /\ UNCHANGED <<state, bphase, dial>>
  BY DEF Lookup, Enter, DupCreate, DupInstall, Import, CloseMark, CloseDrain, CloseRemove, Load,
         EnterBind, GotName, ConnectWait, BindEnter, ListenPark, NetListen
<1>1. ASSUME ~Releasing(c), call[c].pc # "lock", call'[c].pc \notin {"lock", "listening"}
      PROVE  Caring(c)
  BY <1>0, <1>1, BindHere DEF Caring, WillUnbind, KeepsBind, LockOK
<1>3. CASE \/ Lookup(c) \/ Enter(c) \/ DupCreate(c) \/ DupInstall(c) \/ Import(c)
           \/ CloseMark(c) \/ CloseDrain(c) \/ CloseRemove(c)
  <2>1. /\ \A d \in Call \ {c} : call'[d] = call[d]
        /\ call[c].pc \notin After \cup {"lock", "release"}
        /\ call'[c].pc \notin {"lock", "listening"}
        /\ call'[c].prev = call[c].prev /\ call'[c].held \in {None, call[c].held}
        /\ call'[c].op = call[c].op \/ call[c].op = "none"
    BY <1>3, AsideEffect DEF After
  <2>2. Named(c) /\ ~Releasing(c)
    BY <2>1 DEF Named, Releasing
  <2>3. QED
    BY <1>0, <1>1, <2>1, <2>2, BindQuiet
<1>4. CASE \/ Load(c) \/ EnterBind(c) \/ GotName(c) \/ ConnectWait(c) \/ BindEnter(c)
           \/ ListenPark(c) \/ NetListen(c)
  <2>1. Advanced(c) /\ call[c].pc \in Inside /\ call'[c].pc \in Inside \cup {"done"}
    BY <1>4, OperateEffect DEF Operate
  <2>2. (call[c].pc \in After => call'[c].pc \in After) /\ call'[c].pc # "listening"
    <3>1. call \in [Call -> CallType]
      BY Here
    <3>2. ASSUME NEW r, Return(c, r) PROVE <2>2
      BY <3>1, <3>2, ReturnAdvances DEF After
    <3>3. ASSUME NEW l, l # "listening", Goto(c, l), call[c].pc \notin After PROVE <2>2
      BY <3>1, <3>3, GotoAdvances
    <3>4. ASSUME NEW l, l # "listening", NEW b, call[c].pc \notin After,
                 call' = [call EXCEPT ![c] = [@ EXCEPT !.held = b, !.pc = l]]
          PROVE  <2>2
      BY <3>1, <3>4 DEF CallType
    <3>5. CASE Load(c)
      <4>1. Onward(call[c].op) # "listening" /\ call[c].pc = "load"
        BY <3>5 DEF Onward, Load, At
      <4>2. QED
        BY <3>1, <3>2, <3>5, <4>1, LoadAdvances DEF Load, After
    <3>6. AfterName(call[c].op) # "listening"
      BY DEF AfterName
    <3>7. CASE EnterBind(c) \/ GotName(c) \/ BindEnter(c)
      <4>1. call[c].pc \notin After
        BY <3>7 DEF EnterBind, GotName, BindEnter, At, After
      <4>2. CASE EnterBind(c)
        BY <3>2, <3>3, <3>4, <3>6, <4>1, <4>2 DEF EnterBind
      <4>3. CASE GotName(c)
        BY <3>2, <3>4, <3>6, <4>1, <4>3 DEF GotName
      <4>4. CASE BindEnter(c)
        BY <3>2, <3>4, <4>1, <4>4 DEF BindEnter
      <4>5. QED
        BY <3>7, <4>2, <4>3, <4>4
    <3>8. CASE ConnectWait(c)
      BY <3>2, <3>8 DEF ConnectWait
    <3>9. CASE ListenPark(c) \/ NetListen(c)
      BY <3>2, <3>3, <3>9 DEF ListenPark, NetListen, At, After
    <3>10. QED
      BY <1>4, <3>5, <3>7, <3>8, <3>9
  <2>3. Named(c) /\ ~Releasing(c) /\ call[c].pc # "lock" /\ call'[c].pc # "lock"
    BY <2>1, <2>2 DEF Named, Advanced, Releasing, Inside
  <2>4. QED
    BY <1>0, <1>1, <2>2, <2>3, BindQuiet
<1>5. QED
  BY <1>3, <1>4

LEMMA BindConnects ==
    ASSUME SocketInv, BindInv, NEW c \in Call, ConnectDummy(c) \/ ConnectAttach(c)
    PROVE  BindInv'
<1>1. /\ UNCHANGED <<state, bphase>> /\ call[c].pc \in {"dummy", "attach"} /\ Advanced(c)
      /\ \A d \in Call \ {c} : dial'[d] = dial[d]
  BY OperateEffect, Here DEF Operate, ConnectDummy, ConnectAttach, At
<1>2. call'[c].pc \in {"attach", "wait", "done"}
  <2>1. CASE ConnectDummy(c)
    BY <2>1, Here, ReturnAdvances, GotoAdvances DEF ConnectDummy
  <2>2. CASE ConnectAttach(c)
    <3>1. CASE call[c].blocking
      <4>1. call' = [call EXCEPT ![c] = [@ EXCEPT !.pc = "wait", !.res = AttachErrno(c)]]
        BY <2>2, <3>1 DEF ConnectAttach
      <4>2. call'[c].pc = "wait"
        BY <4>1, Here DEF CallType
      <4>3. QED
        BY <4>2
    <3>2. CASE ~call[c].blocking
      BY <2>2, <3>2, Here, ReturnAdvances DEF ConnectAttach
    <3>3. QED
      BY <3>1, <3>2
  <2>3. QED
    BY <2>1, <2>2
<1>3. /\ dial'[c].bind = dial[c].bind /\ dial'[c].errno = dial[c].errno
      /\ dial'[c].pc = dial[c].pc \/ (dial[c].pc = "idle" /\ dial'[c].pc = "join")
  <2>1. call[c].pc = "dummy" => dial[c].pc = "idle"
    BY ThisConnect DEF DialOK
  <2>2. QED
    BY <1>1, <2>1, Here DEF ConnectDummy, ConnectAttach, DialType, At
<1>4. Named(c) /\ ~Releasing(c)
  BY <1>1, <1>2 DEF Named, Advanced, Releasing, After
<1>5. Caring(c)
  BY <1>1, <1>2, <1>3, <1>4, BindHere DEF Caring, WillUnbind, KeepsBind, LockOK
<1>6. QED
  BY <1>1, <1>3, <1>4, <1>5, BindQuiet

LEMMA BindFinishes ==
    ASSUME SocketInv, BindInv, NEW c \in Call,
           \/ CloseLoad(c) \/ CloseReleaseProxy(c) \/ CloseReleaseListener(c)
           \/ CloseEnd(c) /\ state # call[c].prev
    PROVE  BindInv'
<1>1. /\ Advanced(c) /\ call[c].pc \in Finishing /\ UNCHANGED <<state, bphase, dial>>
  BY FinishEffect
  DEF Finish, CloseLoad, CloseReleaseProxy, CloseReleaseListener, CloseEnd
<1>2. call'[c].pc \notin {"lock", "listening"} /\ call[c].pc # "lock"
  <2>1. CASE CloseLoad(c)
    <3> DEFINE l == IF state.kind = "closed" THEN "panic" ELSE "end"
    <3>1. call[c].pc = "final" /\ call' = [call EXCEPT ![c] = [@ EXCEPT !.prev = state, !.pc = l]]
      BY <2>1 DEF CloseLoad, At
    <3>2. call'[c].pc = l
      BY <3>1, Here DEF CallType
    <3>3. QED
      BY <3>1, <3>2
  <2>2. CASE CloseReleaseProxy(c) \/ CloseReleaseListener(c)
    BY <2>2, Here, ReturnAdvances DEF CloseReleaseProxy, CloseReleaseListener, At
  <2>3. CASE CloseEnd(c) /\ state # call[c].prev
    BY <2>3, Here, GotoAdvances DEF CloseEnd, At
  <2>4. QED
    BY <2>1, <2>2, <2>3
<1>3. ~Releasing(c)
  BY DEF Releasing, CloseLoad, CloseReleaseProxy, CloseReleaseListener, CloseEnd, At
<1>4. Named(c)
  BY <1>1 DEF Named, Advanced, Finishing, After
<1>5. Caring(c)
  BY <1>1, <1>2, <1>3, BindHere DEF Caring, WillUnbind, KeepsBind, LockOK
<1>6. QED
  BY <1>1, <1>4, <1>5, BindQuiet

LEMMA BindGoroutines ==
    ASSUME SocketInv, GoroutineInv, BindInv, NEW c \in Call,
           \/ Join(c) \/ Reply(c) \/ HangUp(c) \/ ProxyEnd(c) \/ ProxyClose(c) \/ AcceptLoopEnd(c)
           \/ Resolve(c) /\ state # Connecting(dial[c].bind, c)
    PROVE  BindInv'
<1>1. /\ UNCHANGED <<state, bphase, call>>
      /\ \A d \in Call \ {c} : dial'[d] = dial[d]
  BY Here DEF Join, Reply, HangUp, ProxyEnd, ProxyClose, AcceptLoopEnd, Resolve
<1>2. GoroutineOK(c) /\ dial \in [Call -> DialType]
  BY Here DEF GoroutineInv
<1>3. /\ dial'[c].bind = dial[c].bind
      /\ dial[c].errno = "ENOSYS" => dial'[c].errno = "ENOSYS"
      /\ WillUnbind(c) => WillUnbind(c)'
      /\ dial[c].pc = "lock" <=> dial'[c].pc = "lock"
      /\ dial'[c].pc = "unbind" => dial[c].bind # None
  <2>1. CASE Join(c)
    <3>1. /\ dial[c].pc = "join" /\ dial[c].errno = "ok"
          /\ dial'[c].pc \in {"swap", "reply"} /\ dial'[c].bind = dial[c].bind
      <4>1. dial[c].pc = "join" /\ dial[c].errno = "ok"
        BY <1>2, <2>1 DEF Join, GoroutineOK
      <4>2. PICK p \in {"swap", "reply"},
                 n \in {Plain("connected", c), Passive(dial[c].bind, "ECONNREFUSED", c)},
                 e \in {"ok", "ECONNREFUSED", "ENOSYS"} :
               dial' = [dial EXCEPT ![c] = [@ EXCEPT !.pc = p, !.next = n, !.errno = e]]
        <5>1. PICK o \in {"ok", "refused", "unknown"} :
                dial' = [dial EXCEPT ![c] =
                  [@ EXCEPT !.pc = IF Unresolved(o) THEN "reply" ELSE "swap",
                            !.next = IF o = "ok" THEN Plain("connected", c)
                                     ELSE Passive(dial[c].bind, "ECONNREFUSED", c),
                            !.errno = CASE o = "ok" -> "ok"
                                        [] o = "refused" -> "ECONNREFUSED"
                                        [] o = "unknown" -> "ENOSYS"]]
          BY <2>1, SocketAssumption DEF Join, SocketAssumption
        <5>2. QED
          BY <5>1
      <4>3. QED
        BY <1>2, <4>1, <4>2 DEF DialType
    <3>2. QED
      BY <3>1 DEF WillUnbind
  <2>2. CASE Resolve(c) /\ state # Connecting(dial[c].bind, c)
    <3>1. /\ dial[c].pc = "swap" /\ dial[c].errno # "ENOSYS"
          /\ dial'[c].pc = "reply" /\ dial'[c].bind = dial[c].bind
      BY <1>2, <2>2 DEF Resolve, GoroutineOK, DialType
    <3>2. QED
      BY <3>1 DEF WillUnbind
  <2>3. CASE Reply(c)
    <3>1. /\ dial[c].pc = "reply" /\ dial'[c].pc = "hangup"
          /\ dial'[c].bind = dial[c].bind /\ dial'[c].errno = dial[c].errno
      BY <1>2, <2>3 DEF Reply, DialType
    <3>2. QED
      BY <3>1 DEF WillUnbind, KeepsBind
  <2>4. CASE HangUp(c)
    <3>1. /\ dial[c].pc = "hangup"
          /\ dial'[c].pc = IF dial[c].errno = "ECONNREFUSED" THEN "done" ELSE "unbind"
          /\ dial'[c].bind = dial[c].bind /\ dial'[c].errno = dial[c].errno
      BY <1>2, <2>4 DEF HangUp, DialType, KeepsBind
    <3>2. dial[c].bind # None
      BY <3>1, BindHere DEF DialOK
    <3>3. QED
      BY <3>1, <3>2 DEF WillUnbind, KeepsBind
  <2>5. CASE ProxyEnd(c) \/ ProxyClose(c) \/ AcceptLoopEnd(c)
    <3>1. UNCHANGED dial
      BY <2>5 DEF ProxyEnd, ProxyClose, AcceptLoopEnd
    <3>2. QED
      BY <3>1, BindHere DEF WillUnbind, KeepsBind, LockOK
  <2>6. QED
    BY <2>1, <2>2, <2>3, <2>4, <2>5
<1>4. Named(c) /\ Caring(c)
  BY <1>1, <1>3 DEF Named, Caring
<1>5. QED
  BY <1>1, <1>3, <1>4, BindQuiet
\* A step that keeps the name of the bind socket in the state, or has closed it.
LEMMA BindReplaced ==
    ASSUME SocketInv, BindInv, UNCHANGED bphase, NEW c \in Call, Named(c), Caring(c),
           dial'[c].bind = dial[c].bind \/ Bound(dial[c].bind)',
           state'.bind \in {state.bind, None}, Alive' => Alive /\ state'.bind = state.bind,
           \A b \in Call : Alive /\ state.bind = b /\ bphase[b] = "open" => Owned(b)'
    PROVE  BindInv'
<1>1. Bound(state.bind)'
  BY BindHere DEF Bound
<1>2. Called("listen") => Called("listen")'
  BY DEF Called, Named
<1>3. (\A d \in Call : dial'[d].errno # "ENOSYS") => \A d \in Call : dial[d].errno # "ENOSYS"
  BY DEF Caring
<1>4. StateBindOpen'
  BY <1>2, <1>3 DEF BindInv, StateBindOpen, Alive
<1>5. QED
  BY <1>1, <1>4, BindRestate

LEMMA BindReuses ==
    ASSUME SocketInv, BindInv, NEW c \in Call, call[c].prev.bind # None,
           ConnectPublish(c) \/ BindPublish(c)
    PROVE  BindInv'
<1>1. /\ Advanced(c) /\ call[c].pc \in {"publish", "bound"} /\ call[c].prev.kind = "passive"
      /\ UNCHANGED bphase /\ dial[c].pc = "idle"
      /\ \A d \in Call \ {c} : dial'[d] = dial[d]
  <2>1. call[c].pc \in {"publish", "bound"}
    BY DEF ConnectPublish, BindPublish, At
  <2>2. QED
    BY <2>1, OperateEffect, ThisConnect, Here, BindHere
    DEF Operate, ConnectPublish, BindPublish, PrevOK, DialOK
<1>2. call'[c].pc \in {"dummy", "done"}
  BY Here, ReturnAdvances, GotoAdvances DEF ConnectPublish, BindPublish
<1>3. /\ dial'[c].pc = "idle" /\ dial'[c].errno = dial[c].errno
      /\ dial'[c].bind \in {dial[c].bind, call[c].prev.bind}
  BY <1>1, Here DEF ConnectPublish, BindPublish, DialType, BindFor
<1>4. Bound(dial[c].bind)'
  BY <1>1, <1>3, BindHere DEF Bound
<1>5. Named(c) /\ ~Releasing(c)
  BY <1>1, <1>2 DEF Named, Advanced, Releasing, After
<1>6. Caring(c)
  BY <1>1, <1>2, <1>3, <1>5 DEF Caring, WillUnbind
<1>7. state' = state \/ (state.kind = "passive" /\ state'.bind = state.bind /\ Alive')
  <2>1. CASE ConnectPublish(c)
    BY <1>1, <2>1 DEF ConnectPublish, Connecting, BindFor, Alive
  <2>2. CASE BindPublish(c)
    <3>1. \/ state' = state
          \/ state = call[c].prev /\ state' = Passive(call[c].prev.bind, "EINVAL", c)
      BY <2>2 DEF BindPublish
    <3>2. QED
      BY <1>1, <3>1 DEF Passive, Alive
  <2>3. QED
    BY <2>1, <2>2
<1>8. \A b \in Call : Alive /\ state.bind = b => Owned(b)'
  BY <1>7 DEF Alive, Owned
<1>9. QED
  BY <1>1, <1>4, <1>5, <1>6, <1>7, <1>8, BindReplaced DEF Alive

LEMMA BindResolves ==
    ASSUME SocketInv, GoroutineInv, BindInv, NEW c \in Call, Resolve(c),
           state = Connecting(dial[c].bind, c)
    PROVE  BindInv'
<1>1. /\ UNCHANGED <<call, bphase>> /\ dial[c].pc = "swap" /\ state' = dial[c].next
      /\ dial' = [dial EXCEPT ![c].pc = "reply"]
  BY DEF Resolve
<1>2. /\ dial'[c].pc = "reply" /\ dial'[c].errno = dial[c].errno /\ dial'[c].bind = dial[c].bind
      /\ \A d \in Call \ {c} : dial'[d] = dial[d]
  BY <1>1, Here DEF DialType
<1>3. Named(c) /\ Caring(c)
  BY <1>1, <1>2 DEF Named, Caring, WillUnbind
<1>4. dial[c].next = IF dial[c].errno = "ok" THEN Plain("connected", c)
                     ELSE Passive(dial[c].bind, "ECONNREFUSED", c)
  BY <1>1, ThisConnect DEF DialOK
<1>5. Alive /\ state.bind = dial[c].bind
  BY DEF Connecting, Alive
<1>6. CASE dial[c].errno = "ok"
  <2>1. WillUnbind(c)'
    BY <1>2, <1>6 DEF WillUnbind, KeepsBind
  <2>2. \A b \in Call : Alive /\ state.bind = b => Owned(b)'
    BY <1>2, <1>5, <2>1 DEF Owned
  <2>3. state'.bind = None /\ ~Alive'
    BY <1>1, <1>4, <1>6 DEF Plain, Alive
  <2>4. QED
    BY <1>1, <1>2, <1>3, <2>2, <2>3, BindReplaced
<1>7. CASE dial[c].errno # "ok"
  <2>1. state'.bind = state.bind /\ Alive'
    BY <1>1, <1>4, <1>5, <1>7 DEF Passive, Alive
  <2>2. \A b \in Call : Alive /\ state.bind = b => Owned(b)'
    BY <2>1 DEF Owned
  <2>3. QED
    BY <1>1, <1>2, <1>3, <1>5, <2>1, <2>2, BindReplaced
<1>8. QED
  BY <1>6, <1>7

LEMMA BindListens ==
    ASSUME SocketInv, BindInv, NEW c \in Call, ListenPublish(c)
    PROVE  BindInv'
<1>1. /\ Advanced(c) /\ call[c].pc = "listening" /\ call[c].prev.kind = "passive"
      /\ UNCHANGED <<bphase, dial>>
  BY OperateEffect, BindHere DEF Operate, ListenPublish, At, PrevOK
<1>2. call'[c].pc = "done"
  BY Here, ReturnAdvances DEF ListenPublish
<1>3. Named(c) /\ ~Releasing(c)
  BY <1>1, <1>2 DEF Named, Advanced, Releasing, After
<1>4. Caring(c)
  BY <1>1, <1>2, <1>3, BindHere DEF Caring, WillUnbind, KeepsBind, LockOK
<1>5. CASE state = call[c].prev
  <2>1. state' = Plain("listening", c)
    BY <1>5 DEF ListenPublish
  <2>2. state'.bind = None /\ ~Alive'
    BY <2>1 DEF Plain, Alive
  <2>3. \A b \in Call : ~(state.bind = b /\ bphase[b] = "open")
    BY <1>1, <1>5, BindHere, CallIsMaker DEF LockOK
  <2>4. QED
    BY <1>1, <1>3, <1>4, <2>2, <2>3, BindReplaced
<1>6. CASE state # call[c].prev
  <2>1. UNCHANGED state
    BY <1>6 DEF ListenPublish
  <2>2. QED
    BY <1>1, <1>3, <1>4, <2>1, BindQuiet
<1>7. QED
  BY <1>5, <1>6

LEMMA BindEnds ==
    ASSUME SocketInv, BindInv, NEW c \in Call, CloseEnd(c), state = call[c].prev
    PROVE  BindInv'
<1>1. /\ Advanced(c) /\ call[c].pc = "end" /\ UNCHANGED <<bphase, dial>>
      /\ state' = Plain("closed", c) /\ Goto(c, "release")
  BY FinishEffect DEF Finish, CloseEnd, At
<1>2. call'[c].pc = "release" /\ call'[c].prev = call[c].prev
  BY <1>1, Here, GotoAdvances
<1>3. Named(c) /\ ~Releasing(c)
  BY <1>1, <1>2 DEF Named, Advanced, Releasing, After
<1>4. Caring(c)
  BY <1>1, <1>2, <1>3, BindHere DEF Caring, WillUnbind, KeepsBind, LockOK
<1>5. state'.bind = None /\ ~Alive'
  BY <1>1 DEF Plain, Alive
<1>6. Alive => Releasing(c)'
  BY <1>2 DEF Alive, Releasing
<1>7. \A b \in Call : Alive /\ state.bind = b => Owned(b)'
  BY <1>2, <1>6 DEF Owned
<1>8. QED
  BY <1>1, <1>3, <1>4, <1>5, <1>7, BindReplaced
\* Who is still to close a bind socket other than b, of those a step touches.
StillClosing(c, b) ==
    /\ dial[c].bind # b => /\ WillUnbind(c) => WillUnbind(c)'
                           /\ dial[c].pc = "lock" => dial'[c].pc = "lock"
    /\ call[c].prev.bind # b => /\ Releasing(c) => Releasing(c)'
                                /\ call[c].pc = "lock" => call'[c].pc = "lock"

\* A step that shuts one bind socket.
LEMMA BindShut ==
    ASSUME SocketInv, BindInv, UNCHANGED state, NEW c \in Call, Named(c), LockOK(c)',
           NEW b \in Call, bphase[b] # "none", NEW p \in {"closing", "closed"},
           bphase' = [bphase EXCEPT ![b] = p], StillClosing(c, b),
           \A d \in Call \ {c} : dial'[d] = dial[d],
           dial'[c].bind = dial[c].bind /\ dial'[c].errno = dial[c].errno,
           call'[c].prev = call[c].prev,
           p = "closing" => \/ dial'[c].pc = "lock" /\ dial[c].bind = b
                            \/ call'[c].pc = "lock" /\ call[c].prev.bind = b,
           p = "closed" => Called("listen")' \/ \A d \in Call : call'[d].held # b,
           \/ Called("listen")'
           \/ \E d \in Call : dial[d].errno = "ENOSYS"
           \/ ~(Alive /\ state.bind = b)
    PROVE  BindInv'
<1>1. /\ bphase'[b] = p /\ p # "open" /\ p # "none"
      /\ \A a \in Call \ {b} : bphase'[a] = bphase[a]
  BY BindHere
<1>2. Aging
  BY <1>1 DEF Aging
<1>3. Called("listen") => Called("listen")'
  BY DEF Called, Named
<1>4. NamedInv'
  <2>1. Bound(state.bind)'
    BY <1>2, BindHere DEF Bound, Aging
  <2>2. \A a \in Call : bphase[a] = "none" => bphase'[a] = "none"
    BY <1>1
  <2>3. QED
    BY <1>2, <2>1, <2>2, NamedFrame
<1>5. ASSUME NEW d \in Call PROVE LockOK(d)'
  <2>1. CASE d # c
    <3>1. \A a \in Call : bphase[a] # "open" => bphase'[a] # "open"
      BY <1>1
    <3>2. call'[d] = call[d] /\ dial'[d] = dial[d]
      BY <2>1 DEF Named
    <3>3. QED
      BY <3>1, <3>2, BindHere DEF LockOK
  <2>2. QED
    BY <2>1
<1>6. ASSUME NEW a \in Call PROVE BindOK(a)'
  <2>1. CASE a = b
    BY <1>1, <2>1, CallIsMaker DEF BindOK
  <2>2. CASE a # b
    <3>1. BindOK(a) /\ bphase'[a] = bphase[a]
      BY <1>1, <2>2, BindHere
    <3>2. Owned(a) => Owned(a)'
      <4>1. ASSUME NEW d \in Call, WillUnbind(d), dial[d].bind = a
            PROVE  WillUnbind(d)' /\ dial'[d].bind = a
        BY <2>2, <4>1 DEF StillClosing, WillUnbind, KeepsBind
      <4>2. ASSUME NEW d \in Call, Releasing(d), call[d].prev.bind = a
            PROVE  Releasing(d)' /\ call'[d].prev.bind = a
        BY <2>2, <4>2 DEF StillClosing, Releasing, Named
      <4>3. Alive /\ state.bind = a => Alive' /\ state'.bind = a
        BY DEF Alive
      <4>4. QED
        BY <4>1, <4>2, <4>3 DEF Owned
    <3>3. ASSUME NEW d \in Call, dial[d].pc = "lock", dial[d].bind = a
          PROVE  dial'[d].pc = "lock" /\ dial'[d].bind = a
      BY <2>2, <3>3 DEF StillClosing
    <3>4. ASSUME NEW d \in Call, call[d].pc = "lock", call[d].prev.bind = a
          PROVE  call'[d].pc = "lock" /\ call'[d].prev.bind = a
      BY <2>2, <3>4 DEF StillClosing, Named
    <3>5. QED
      BY <3>1, <3>2, <3>3, <3>4 DEF BindOK
  <2>3. QED
    BY <2>1, <2>2
<1>7. NoBindUseAfterClose'
  <2>1. SUFFICES ASSUME ~Called("listen")', NEW d \in Call, call'[d].held # None
                 PROVE  bphase'[call'[d].held] # "closed"
    BY DEF NoBindUseAfterClose
  <2>2. call'[d].held \in Call /\ bphase[call'[d].held] # "closed"
    BY <1>3, <2>1, BindHere DEF BindInv, NoBindUseAfterClose, Named
  <2>3. QED
    BY <1>1, <2>1, <2>2
<1>8. StateBindOpen'
  <2>1. SUFFICES ASSUME ~Called("listen")', \A d \in Call : dial'[d].errno # "ENOSYS",
                        Alive, state.bind # None
                 PROVE  bphase'[state.bind] = "open"
    BY DEF StateBindOpen, Alive
  <2>2. \A d \in Call : dial[d].errno # "ENOSYS"
    BY <2>1
  <2>3. state.bind \in Call /\ state.bind # b /\ bphase[state.bind] = "open"
    BY <1>3, <2>1, <2>2, BindHere DEF BindInv, StateBindOpen, Alive
  <2>4. QED
    BY <1>1, <2>3
<1>9. QED
  BY <1>4, <1>5, <1>6, <1>7, <1>8 DEF BindInv

\* A bind socket that is not open is not the one of a live state, unless a
\* listen closed it, or a dial ended in an error that leaves it Connecting.
LEMMA ShutIsDropped ==
    ASSUME SocketInv, BindInv, NEW b \in Call, bphase[b] # "open"
    PROVE  \/ Called("listen")
           \/ \E d \in Call : dial[d].errno = "ENOSYS"
           \/ ~(Alive /\ state.bind = b)
BY CallIsMaker DEF BindInv, StateBindOpen, Alive

LEMMA BindDialCloses ==
    ASSUME SocketInv, GoroutineInv, BindInv, NEW c \in Call, DialUnbind(c) \/ DialCloseBind(c)
    PROVE  BindInv'
<1> DEFINE b == dial[c].bind
<1>1. /\ UNCHANGED <<state, call>> /\ dial[c].pc \in {"unbind", "lock"}
      /\ b \in Call /\ bphase[b] # "none"
  <2>1. UNCHANGED <<state, call>> /\ dial[c].pc \in {"unbind", "lock"}
    BY DEF DialUnbind, DialCloseBind
  <2>2. QED
    BY <2>1, BindHere DEF LockOK, Bound
<1>2. /\ dial'[c].pc \in {"lock", "done"} /\ dial'[c].bind = b /\ dial'[c].errno = dial[c].errno
      /\ \A d \in Call \ {c} : dial'[d] = dial[d]
  BY Here DEF DialUnbind, DialCloseBind, DialType
<1>3. Named(c)
  BY <1>1 DEF Named
<1>4. StillClosing(c, b)
  BY <1>1 DEF StillClosing, Releasing
<1>5. ASSUME NEW p \in {"closing", "closed"}, bphase' = [bphase EXCEPT ![b] = p]
      PROVE  LockOK(c)'
  <2>1. \A a \in Call : bphase[a] # "open" => bphase'[a] # "open"
    BY <1>5, BindHere
  <2>2. bphase'[b] # "open"
    BY <1>1, <1>5, BindHere
  <2>3. QED
    BY <1>1, <1>2, <2>1, <2>2, BindHere, CallIsMaker DEF LockOK
<1>6. CASE DialUnbind(c) /\ bphase[b] = "open"
  <2>1. bphase' = [bphase EXCEPT ![b] = "closing"] /\ dial'[c].pc = "lock"
    BY <1>6, Here DEF DialUnbind, DialType
  <2>2. \/ \E d \in Call : dial[d].errno = "ENOSYS"
        \/ ~(Alive /\ state.bind = b)
    <3>1. /\ dial[c].pc = "unbind"
          /\ dial[c].errno = "ENOSYS" \/ state.kind = "closed" \/ Won(c)
      BY <1>6 DEF DialUnbind, GoroutineInv, GoroutineOK, Won
    <3>2. Won(c) => state.kind \in {"connected", "closed"}
      <4>1. Won(c) => state = Plain("connected", c) \/ state.kind = "closed"
        BY ThisConnect DEF DialOK
      <4>2. Plain("connected", c).kind = "connected"
        BY DEF Plain
      <4>3. QED
        BY <4>1, <4>2
    <3>3. QED
      BY <3>1, <3>2 DEF Alive
  <2>3. QED
    BY <1>1, <1>2, <1>3, <1>4, <1>5, <2>1, <2>2, BindShut
<1>7. CASE DialUnbind(c) /\ bphase[b] # "open"
  <2>1. UNCHANGED bphase /\ dial'[c].pc = "done" /\ dial[c].pc = "unbind"
    BY <1>7, Here DEF DialUnbind, DialType
  <2>2. Caring(c)
    BY <1>1, <1>2, <1>7, <2>1 DEF Caring
  <2>3. QED
    BY <1>1, <1>2, <1>3, <2>1, <2>2, BindQuiet
<1>8. CASE DialCloseBind(c)
  <2>1. /\ bphase' = [bphase EXCEPT ![b] = "closed"] /\ dial[c].pc = "lock"
        /\ \A d \in Call : call'[d].held # b
    BY <1>1, <1>8 DEF DialCloseBind, Drained, Holders
  <2>2. bphase[b] # "open"
    BY <2>1, BindHere DEF LockOK
  <2>3. \/ Called("listen")'
        \/ \E d \in Call : dial[d].errno = "ENOSYS"
        \/ ~(Alive /\ state.bind = b)
    BY <1>1, <2>2, ShutIsDropped DEF Called
  <2>4. QED
    BY <1>1, <1>2, <1>3, <1>4, <1>5, <2>1, <2>3, BindShut
<1>9. QED
  BY <1>6, <1>7, <1>8

LEMMA BindReleases ==
    ASSUME SocketInv, BindInv, NEW c \in Call, CloseReleaseBind(c) \/ CloseBind(c)
    PROVE  BindInv'
<1> DEFINE b == call[c].prev.bind
<1>1. /\ Advanced(c) /\ call[c].pc \in {"release", "lock"} /\ UNCHANGED <<state, dial>>
      /\ call'[c].pc \in {"lock", "done"} /\ call'[c].prev = call[c].prev
  <2>1. call[c].pc \in {"release", "lock"} /\ UNCHANGED <<state, dial>>
    BY DEF CloseReleaseBind, CloseBind, At
  <2>2. call'[c].pc \in {"lock", "done"} /\ call'[c].prev = call[c].prev
    BY Here, GotoAdvances, ReturnAdvances DEF CloseReleaseBind, CloseBind
  <2>3. QED
    BY <2>1, <2>2, FinishEffect DEF Finish
<1>2. Named(c)
  BY <1>1 DEF Named, Advanced, After
<1>3. StillClosing(c, b)
  BY <1>1 DEF StillClosing, WillUnbind, KeepsBind
<1>4. ASSUME NEW p \in {"closing", "closed"}, b \in Call, bphase' = [bphase EXCEPT ![b] = p]
      PROVE  LockOK(c)'
  <2>1. \A a \in Call : bphase[a] # "open" => bphase'[a] # "open"
    BY <1>4, BindHere
  <2>2. bphase'[b] # "open"
    BY <1>4, BindHere
  <2>3. QED
    BY <1>1, <1>4, <2>1, <2>2, BindHere, CallIsMaker DEF LockOK
<1>5. CASE CloseReleaseBind(c) /\ b # None /\ bphase[b] = "open"
  <2>1. bphase' = [bphase EXCEPT ![b] = "closing"] /\ Goto(c, "lock") /\ call[c].pc = "release"
    BY <1>5 DEF CloseReleaseBind, At
  <2>2. call'[c].pc = "lock" /\ b \in Call /\ bphase[b] # "none"
    BY <1>5, <2>1, Here, BindHere, GotoAdvances
  <2>3. ~Alive
    BY <2>1, BindHere DEF PrevOK, Alive
  <2>4. QED
    BY <1>1, <1>2, <1>3, <1>4, <2>1, <2>2, <2>3, BindShut
<1>6. CASE CloseReleaseBind(c) /\ ~(b # None /\ bphase[b] = "open")
  <2>1. UNCHANGED bphase /\ Return(c, "ok") /\ call[c].pc = "release"
    BY <1>6 DEF CloseReleaseBind, At
  <2>2. call'[c].pc = "done"
    BY <2>1, Here, ReturnAdvances
  <2>3. Caring(c)
    BY <1>1, <1>6, <2>1, <2>2, BindHere DEF Caring, WillUnbind, KeepsBind, LockOK
  <2>4. QED
    BY <1>1, <1>2, <2>1, <2>3, BindQuiet
<1>7. CASE CloseBind(c)
  <2>1. /\ bphase' = [bphase EXCEPT ![b] = "closed"] /\ call[c].pc = "lock"
        /\ \A d \in Call : call[d].held # b
    BY <1>7 DEF CloseBind, At, Drained, Holders
  <2>2. b \in Call /\ bphase[b] \notin {"open", "none"}
    BY <2>1, BindHere DEF LockOK, Bound
  <2>3. \A d \in Call : call'[d].held # b
    BY <1>1, <2>1, <2>2, CallIsMaker DEF Advanced
  <2>4. Called("listen") => Called("listen")'
    BY <1>1 DEF Called, Advanced
  <2>5. QED
    BY <1>1, <1>2, <1>3, <1>4, <2>1, <2>2, <2>3, <2>4, ShutIsDropped, BindShut
<1>8. QED
  BY <1>5, <1>6, <1>7

LEMMA BindListenCloses ==
    ASSUME SocketInv, BindInv, NEW c \in Call, ListenUnbind(c)
    PROVE  BindInv'
<1> DEFINE b == call[c].prev.bind
<1>1. /\ Advanced(c) /\ call[c].pc = "unbind" /\ UNCHANGED <<state, dial>>
      /\ call'[c].pc = "listening" /\ call'[c].prev = call[c].prev
  BY Here, GotoAdvances, OperateEffect DEF Operate, ListenUnbind, At
<1>2. Named(c)
  BY <1>1 DEF Named, Advanced, After
<1>3. StillClosing(c, b)
  BY <1>1 DEF StillClosing, WillUnbind, KeepsBind, Releasing
<1>4. Called("listen")'
  BY <1>1, Here, StageOf DEF Called, Advanced
<1>5. CASE b # None /\ bphase[b] = "open"
  <2>1. bphase' = [bphase EXCEPT ![b] = "closed"] /\ b \in Call
    BY <1>5, BindHere DEF ListenUnbind
  <2>2. LockOK(c)'
    <3>1. \A a \in Call : bphase[a] # "open" => bphase'[a] # "open"
      BY <2>1, BindHere
    <3>2. bphase'[b] # "open"
      BY <2>1, BindHere
    <3>3. QED
      BY <1>1, <3>1, <3>2, BindHere DEF LockOK
  <2>3. QED
    BY <1>1, <1>2, <1>3, <1>4, <1>5, <2>1, <2>2, BindShut
<1>6. CASE ~(b # None /\ bphase[b] = "open")
  <2>1. UNCHANGED bphase
    BY <1>6 DEF ListenUnbind
  <2>2. Caring(c)
    BY <1>1, <1>6, <2>1, BindHere DEF Caring, WillUnbind, KeepsBind, LockOK, Releasing
  <2>3. QED
    BY <1>1, <1>2, <1>6, <2>1, <2>2, BindQuiet
<1>7. QED
  BY <1>5, <1>6
\* A step that makes a bind socket, and publishes it or closes it again.
LEMMA BindMade ==
    ASSUME SocketInv, BindInv, NEW c \in Call, call[c].pc \in {"publish", "bound"}, Named(c),
           call'[c].pc \in {"dummy", "done"},
           \A d \in Call \ {c} : dial'[d] = dial[d],
           dial'[c].pc = "idle" /\ dial'[c].errno = dial[c].errno,
           dial'[c].bind \in {dial[c].bind, c},
           NEW p \in {"open", "closed"}, bphase' = [bphase EXCEPT ![c] = p],
           p = "open" => Alive' /\ state'.bind = c /\ state.bind = None,
           p = "closed" => (Alive' <=> Alive) /\ state'.bind = state.bind
    PROVE  BindInv'
<1>1. /\ bphase[c] = "none" /\ dial[c].pc = "idle"
      /\ bphase'[c] = p /\ p # "none" /\ \A a \in Call \ {c} : bphase'[a] = bphase[a]
  BY BindHere DEF After, DialOK
<1>2. Aging
  BY <1>1 DEF Aging
<1>3. \A b \in Call \cup {None} : b # None /\ Bound(b) => b \in Call /\ bphase'[b] = bphase[b]
  BY <1>1 DEF Bound
<1>4. Called("listen") => Called("listen")'
  BY DEF Called, Named
<1>5. state.bind \in Call \cup {None} /\ Bound(state.bind)
  BY BindHere
<1>6. NamedInv'
  <2>1. Bound(state.bind)'
    BY <1>1, <1>3, <1>5 DEF Bound
  <2>2. dial'[c].bind = dial[c].bind \/ Bound(dial[c].bind)'
    BY <1>1 DEF Bound
  <2>3. QED
    BY <1>1, <1>2, <2>1, <2>2, NamedFrame DEF After
<1>7. ASSUME NEW d \in Call PROVE LockOK(d)'
  <2>1. CASE d = c
    BY <2>1 DEF LockOK
  <2>2. CASE d # c
    <3>1. call'[d] = call[d] /\ dial'[d] = dial[d]
      BY <2>2 DEF Named
    <3>2. \A b \in {dial[d].bind, call[d].prev.bind} :
             b # None => bphase'[b] = bphase[b]
      BY <1>3, BindHere
    <3>3. LockOK(d)
      BY BindHere
    <3>4. QED
      BY <3>1, <3>2, <3>3 DEF LockOK
  <2>3. QED
    BY <2>1, <2>2
<1>8. ASSUME NEW a \in Call PROVE BindOK(a)'
  <2>1. CASE a = c
    BY <1>1, <2>1 DEF BindOK, Owned
  <2>2. CASE a # c
    <3>1. BindOK(a) /\ bphase'[a] = bphase[a] /\ a # None
      BY <1>1, <2>2, BindHere
    <3>2. ASSUME NEW d \in Call, WillUnbind(d), dial[d].bind = a
          PROVE  WillUnbind(d)' /\ dial'[d].bind = a
      BY <1>1, <3>2 DEF WillUnbind, KeepsBind
    <3>3. ASSUME NEW d \in Call, Releasing(d), call[d].prev.bind = a
          PROVE  Releasing(d)' /\ call'[d].prev.bind = a
      BY <3>3 DEF Releasing, Named
    <3>4. Alive /\ state.bind = a => Alive' /\ state'.bind = a
      BY <3>1
    <3>5. Owned(a) => Owned(a)'
      BY <3>2, <3>3, <3>4 DEF Owned
    <3>6. ASSUME NEW d \in Call, dial[d].pc = "lock"
          PROVE  dial'[d].pc = "lock" /\ dial'[d].bind = dial[d].bind
      BY <1>1, <3>6
    <3>7. ASSUME NEW d \in Call, call[d].pc = "lock"
          PROVE  call'[d].pc = "lock" /\ call'[d].prev.bind = call[d].prev.bind
      BY <3>7 DEF Named
    <3>8. QED
      BY <3>1, <3>5, <3>6, <3>7 DEF BindOK
  <2>3. QED
    BY <2>1, <2>2
<1>9. NoBindUseAfterClose'
  <2>1. SUFFICES ASSUME ~Called("listen")', NEW d \in Call, call'[d].held # None
                 PROVE  bphase'[call'[d].held] # "closed"
    BY DEF NoBindUseAfterClose
  <2>2. /\ call'[d].held \in Call \cup {None} /\ Bound(call'[d].held)
        /\ bphase[call'[d].held] # "closed"
    BY <1>4, <2>1, BindHere DEF BindInv, NoBindUseAfterClose, Named, Bound
  <2>3. QED
    BY <1>3, <2>1, <2>2
<1>10. StateBindOpen'
  <2>1. SUFFICES ASSUME ~Called("listen")', \A d \in Call : dial'[d].errno # "ENOSYS",
                        Alive', state'.bind # None
                 PROVE  bphase'[state'.bind] = "open"
    BY DEF StateBindOpen, Alive
  <2>2. \A d \in Call : dial[d].errno # "ENOSYS"
    BY <2>1
  <2>3. CASE p = "open"
    BY <1>1, <2>3
  <2>4. CASE p = "closed"
    BY <1>3, <1>4, <1>5, <2>1, <2>2, <2>4 DEF BindInv, StateBindOpen, Alive
  <2>5. QED
    BY <2>3, <2>4
<1>11. QED
  BY <1>6, <1>7, <1>8, <1>9, <1>10 DEF BindInv

LEMMA BindMakes ==
    ASSUME SocketInv, BindInv, NEW c \in Call, call[c].prev.bind = None,
           ConnectPublish(c) \/ BindPublish(c)
    PROVE  BindInv'
<1>1. /\ Advanced(c) /\ call[c].pc \in {"publish", "bound"} /\ call[c].prev.kind = "passive"
      /\ dial[c].pc = "idle" /\ \A d \in Call \ {c} : dial'[d] = dial[d]
  <2>1. call[c].pc \in {"publish", "bound"}
    BY DEF ConnectPublish, BindPublish, At
  <2>2. QED
    BY <2>1, OperateEffect, Here, BindHere
    DEF Operate, ConnectPublish, BindPublish, PrevOK, DialOK
<1>2. call'[c].pc \in {"dummy", "done"}
  BY Here, ReturnAdvances, GotoAdvances DEF ConnectPublish, BindPublish
<1>3. /\ dial'[c].pc = "idle" /\ dial'[c].errno = dial[c].errno
      /\ dial'[c].bind \in {dial[c].bind, c}
  BY <1>1, Here DEF ConnectPublish, BindPublish, DialType, BindFor
<1>4. Named(c)
  BY <1>1, <1>2 DEF Named, Advanced, After
<1>5. \E p \in {"open", "closed"} :
         /\ bphase' = [bphase EXCEPT ![c] = p]
         /\ p = "open" => Alive' /\ state'.bind = c /\ state.bind = None
         /\ p = "closed" => (Alive' <=> Alive) /\ state'.bind = state.bind
  <2>1. CASE ConnectPublish(c)
    BY <1>1, <2>1 DEF ConnectPublish, Connecting, BindFor, Alive
  <2>2. CASE BindPublish(c)
    <3>1. PICK e \in {"ok", "EADDRINUSE"} :
            /\ state' = IF state = call[c].prev
                        THEN Passive(IF e = "ok" THEN c ELSE call[c].prev.bind, e, c) ELSE state
            /\ bphase' = [bphase EXCEPT ![c] = IF state = call[c].prev /\ e = "ok"
                                               THEN "open" ELSE "closed"]
      BY <2>2 DEF BindPublish
    <3>2. CASE state = call[c].prev /\ e = "ok"
      BY <1>1, <3>1, <3>2 DEF Passive, Alive
    <3>3. CASE ~(state = call[c].prev /\ e = "ok")
      <4>1. bphase' = [bphase EXCEPT ![c] = "closed"]
        BY <3>1, <3>3
      <4>2. (Alive' <=> Alive) /\ state'.bind = state.bind
        BY <1>1, <3>1, <3>3 DEF Passive, Alive
      <4>3. QED
        BY <4>1, <4>2
    <3>4. QED
      BY <3>2, <3>3
  <2>3. QED
    BY <2>1, <2>2
<1>6. QED
  BY <1>1, <1>2, <1>3, <1>4, <1>5, BindMade

LEMMA BindStep ==
    ASSUME SocketInv, GoroutineInv, BindInv, [Next]_vars
    PROVE  BindInv'
<1>1. ASSUME NEW c \in Call, ConnectPublish(c) \/ BindPublish(c) PROVE BindInv'
  BY <1>1, BindReuses, BindMakes
<1>2. ASSUME NEW c \in Call, CloseEnd(c) PROVE BindInv'
  BY <1>2, BindEnds, BindFinishes
<1>3. ASSUME NEW c \in Call, Resolve(c) PROVE BindInv'
  BY <1>3, BindResolves, BindGoroutines
<1>4. CASE UNCHANGED vars
  BY <1>4 DEF vars, BindInv, NamedInv, Bound, LockOK, BindOK, Owned, Alive, WillUnbind, KeepsBind,
     Releasing, NoBindUseAfterClose, StateBindOpen, Called
<1>5. CASE Next
  BY <1>1, <1>2, <1>3, <1>5, BindHandlers, BindConnects, BindFinishes, BindGoroutines,
     BindDialCloses, BindReleases, BindListenCloses, BindListens
  DEF Next, Handle, Close, Completion
<1>6. QED
  BY <1>4, <1>5
-----------------------------------------------------------------------------
(* CarrierInv.                                                              *)

\* What keeps the connections and the listener of a call in good hands.
ConnsKept(d) ==
    /\ proxy'[d].run = proxy[d].run /\ proxy'[d].conns \in {proxy[d].conns, "closed"}
    /\ dial'[d].errno = dial[d].errno
    /\ dial[d].pc \in {"swap", "reply", "hangup"} => dial'[d].pc = dial[d].pc
LisKept(d) ==
    /\ lis'[d].phase \in {lis[d].phase, "closed"} /\ lis'[d].loop = lis[d].loop
    /\ call[d].pc \in {"unbind", "listening"} => call'[d].pc = call[d].pc

LEMMA CarrierFrame ==
    ASSUME CarrierInv, NEW c \in Call, CarrierOK(c)',
           \A d \in Call \ {c} : ConnsKept(d) /\ LisKept(d)
    PROVE  CarrierInv'
BY DEF CarrierInv, CarrierOK, ConnsKept, LisKept, MustHangUp

LEMMA CarrierHere ==
    ASSUME CarrierInv, NEW c \in Call, ConnsKept(c), LisKept(c)
    PROVE  CarrierOK(c)'
BY DEF CarrierInv, CarrierOK, ConnsKept, LisKept, MustHangUp

LEMMA CarrierDials ==
    ASSUME SocketInv, CarrierInv, NEW c \in Call, Completion(c)
    PROVE  CarrierOK(c)'
<1>1. /\ dial \in [Call -> DialType] /\ proxy \in [Call -> ProxyType] /\ CarrierOK(c)
      /\ call' = call /\ lis' = lis
  BY Here DEF CarrierInv, Completion, Join, Resolve, Reply, HangUp, DialUnbind, DialCloseBind
<1>2. CASE Join(c)
  <2>1. PICK o \in {"ok", "refused", "unknown"},
            n \in {Plain("connected", c), Passive(dial[c].bind, "ECONNREFUSED", c)} :
          /\ dial' = [dial EXCEPT ![c] =
                [@ EXCEPT !.pc = IF Unresolved(o) THEN "reply" ELSE "swap",
                          !.next = n,
                          !.errno = CASE o = "ok" -> "ok"
                                      [] o = "refused" -> "ECONNREFUSED"
                                      [] o = "unknown" -> "ENOSYS"]]
          /\ proxy' = [proxy EXCEPT ![c] =
                [@ EXCEPT !.conns = "open", !.run = IF o = "ok" THEN "running" ELSE "idle"]]
    BY <1>2, SocketAssumption DEF Join, SocketAssumption
  <2>2. CASE o = "ok"
    <3>1. proxy'[c].run = "running"
      BY <1>1, <2>1, <2>2 DEF ProxyType
    <3>2. QED
      BY <1>1, <3>1 DEF CarrierOK
  <2>3. CASE o # "ok"
    <3>1. dial'[c].pc \in {"reply", "swap"} /\ dial'[c].errno # "ok"
      BY <1>1, <2>1, <2>3 DEF DialType, Unresolved
    <3>2. QED
      BY <1>1, <3>1 DEF CarrierOK, MustHangUp
  <2>4. QED
    BY <2>2, <2>3
<1>3. CASE Resolve(c) \/ Reply(c)
  <2>1. /\ proxy' = proxy /\ dial[c].pc \in {"swap", "reply"} /\ dial'[c].pc \in {"reply", "hangup"}
        /\ dial'[c].errno \in {dial[c].errno, "ERESTART"}
    BY <1>1, <1>3 DEF Resolve, Reply, DialType
  <2>2. QED
    BY <1>1, <2>1 DEF CarrierOK, MustHangUp
<1>4. CASE HangUp(c)
  <2>1. CASE MustHangUp(c)
    <3>1. proxy'[c].conns = "closed"
      BY <1>1, <1>4, <2>1 DEF HangUp, ProxyType
    <3>2. QED
      BY <1>1, <3>1 DEF CarrierOK
  <2>2. CASE ~MustHangUp(c)
    <3>1. proxy' = proxy
      BY <1>4, <2>2 DEF HangUp
    <3>2. QED
      BY <1>1, <2>2, <3>1 DEF CarrierOK
  <2>3. QED
    BY <2>1, <2>2
<1>5. CASE DialUnbind(c) \/ DialCloseBind(c)
  <2>1. proxy' = proxy /\ dial[c].pc \in {"unbind", "lock"}
    BY <1>5 DEF DialUnbind, DialCloseBind
  <2>2. QED
    BY <1>1, <2>1 DEF CarrierOK
<1>6. QED
  BY <1>2, <1>3, <1>4, <1>5 DEF Completion

LEMMA CarrierProxies ==
    ASSUME SocketInv, CarrierInv, NEW c \in Call, ProxyEnd(c) \/ ProxyClose(c) \/ AcceptLoopEnd(c)
    PROVE  CarrierOK(c)'
<1>1. /\ dial' = dial /\ call' = call /\ CarrierOK(c) /\ proxy \in [Call -> ProxyType]
      /\ lis \in [Call -> LisType]
  BY DEF SocketInv, Shape, CarrierInv, ProxyEnd, ProxyClose, AcceptLoopEnd
<1>2. CASE ProxyEnd(c) \/ ProxyClose(c)
  <2>1. lis' = lis /\ (proxy'[c].run = "ending" \/ proxy'[c].conns = "closed")
    BY <1>1, <1>2 DEF ProxyEnd, ProxyClose, ProxyType
  <2>2. QED
    BY <1>1, <2>1 DEF CarrierOK
<1>3. CASE AcceptLoopEnd(c)
  <2>1. proxy' = proxy /\ lis'[c].phase = "closed"
    BY <1>1, <1>3 DEF AcceptLoopEnd, LisType
  <2>2. QED
    BY <1>1, <2>1 DEF CarrierOK, MustHangUp
<1>4. QED
  BY <1>2, <1>3

\* The steps of a handler that leave the listeners and the goroutines.
LEMMA CarrierQuiet ==
    ASSUME CarrierInv, NEW c \in Call, \A d \in Call \ {c} : call'[d] = call[d],
           UNCHANGED <<dial, proxy, lis>>,
           call[c].pc \in {"unbind", "listening"} => call'[c].pc \in {"unbind", "listening"}
    PROVE  CarrierInv'
BY DEF CarrierInv, CarrierOK, MustHangUp

LEMMA CarrierHandlers ==
    ASSUME SocketInv, CarrierInv, NEW c \in Call, Lookup(c) \/ Handle(c)
    PROVE  CarrierInv'
<1>0. /\ call \in [Call -> CallType] /\ dial \in [Call -> DialType]
      /\ proxy \in [Call -> ProxyType] /\ lis \in [Call -> LisType]
  BY DEF SocketInv, Shape
<1>1. CASE \/ Lookup(c) \/ Enter(c) \/ DupCreate(c) \/ DupInstall(c) \/ Import(c)
           \/ CloseMark(c) \/ CloseDrain(c) \/ CloseRemove(c)
  BY <1>1, AsideEffect, CarrierQuiet
<1>2. CASE \/ CloseLoad(c) \/ CloseEnd(c) \/ CloseReleaseBind(c) \/ CloseBind(c)
  BY <1>2, FinishEffect, CarrierQuiet
  DEF Finish, Finishing, Advanced, CloseLoad, CloseEnd, CloseReleaseBind, CloseBind
<1>3. CASE \/ Load(c) \/ EnterBind(c) \/ GotName(c) \/ ConnectWait(c) \/ BindEnter(c)
           \/ BindPublish(c) \/ ListenPark(c)
  <2>1. /\ Advanced(c) /\ UNCHANGED <<dial, proxy, lis>>
        /\ call[c].pc \notin {"unbind", "listening"}
    BY <1>3, OperateEffect
    DEF Operate, At, Load, EnterBind, GotName, ConnectWait, BindEnter, BindPublish, ListenPark
  <2>2. QED
    BY <2>1, CarrierQuiet DEF Advanced
<1>4. CASE ListenUnbind(c)
  <2>1. Advanced(c) /\ UNCHANGED <<dial, proxy, lis>> /\ call'[c].pc = "listening"
    BY <1>0, <1>4, OperateEffect, GotoAdvances DEF Operate, ListenUnbind
  <2>2. QED
    BY <2>1, CarrierQuiet DEF Advanced
<1>5. CASE ConnectPublish(c) \/ ConnectDummy(c) \/ ConnectAttach(c)
  <2>1. /\ Advanced(c) /\ UNCHANGED <<proxy, lis>>
        /\ call[c].pc \notin {"unbind", "listening"}
        /\ \A d \in Call \ {c} : dial'[d] = dial[d]
    BY <1>0, <1>5, OperateEffect DEF Operate, At, ConnectPublish, ConnectDummy, ConnectAttach
  <2>2. /\ dial'[c].errno = dial[c].errno
        /\ dial[c].pc \in {"swap", "reply", "hangup"} => dial'[c].pc = dial[c].pc
    <3>1. call[c].pc = "dummy" => dial[c].pc = "idle"
      BY ThisConnect DEF DialOK
    <3>2. QED
      BY <1>0, <1>5, <3>1 DEF DialType, At, ConnectPublish, ConnectDummy, ConnectAttach
  <2>3. \A d \in Call : ConnsKept(d) /\ LisKept(d)
    BY <2>1, <2>2 DEF ConnsKept, LisKept, Advanced
  <2>4. QED
    BY <2>3, CarrierFrame, CarrierHere
<1>6. CASE NetListen(c) \/ ListenPublish(c)
  <2>1. /\ Advanced(c) /\ UNCHANGED <<dial, proxy>> /\ \A d \in Call \ {c} : lis'[d] = lis[d]
    BY <1>0, <1>6, OperateEffect DEF Operate, NetListen, ListenPublish
  <2>2. \A d \in Call \ {c} : ConnsKept(d) /\ LisKept(d)
    BY <2>1 DEF ConnsKept, LisKept, Advanced
  <2>3. CarrierOK(c)'
    <3>1. CASE NetListen(c)
      <4>1. CASE Goto(c, "unbind") /\ lis' = [lis EXCEPT ![c].phase = "open"]
        <5>1. call'[c].pc = "unbind" /\ lis'[c].phase = "open"
          BY <1>0, <4>1, GotoAdvances DEF LisType
        <5>2. QED
          BY <2>1, <5>1 DEF CarrierInv, CarrierOK, MustHangUp
      <4>2. CASE UNCHANGED lis
        BY <2>1, <3>1, <4>2 DEF CarrierInv, CarrierOK, MustHangUp, NetListen, At
      <4>3. QED
        BY <3>1, <4>1, <4>2 DEF NetListen
    <3>2. CASE ListenPublish(c)
      <4>1. (lis'[c].phase = lis[c].phase /\ lis'[c].loop) \/ lis'[c].phase = "closed"
        BY <1>0, <3>2 DEF ListenPublish, LisType
      <4>2. QED
        BY <2>1, <4>1 DEF CarrierInv, CarrierOK, MustHangUp
    <3>3. QED
      BY <1>6, <3>1, <3>2
  <2>4. QED
    BY <2>2, <2>3, CarrierFrame
<1>7. CASE CloseReleaseProxy(c)
  <2>1. Advanced(c) /\ UNCHANGED <<dial, lis>> /\ call[c].pc = "release"
    BY <1>7, FinishEffect DEF Finish, CloseReleaseProxy, At
  <2>2. \A d \in Call : /\ proxy'[d].run = proxy[d].run
                        /\ proxy'[d].conns \in {proxy[d].conns, "closed"}
    BY <1>0, <1>7 DEF CloseReleaseProxy, ProxyType
  <2>3. \A d \in Call : ConnsKept(d) /\ LisKept(d)
    BY <2>1, <2>2 DEF ConnsKept, LisKept, Advanced
  <2>4. QED
    BY <2>3, CarrierFrame, CarrierHere
<1>8. CASE CloseReleaseListener(c)
  <2>1. Advanced(c) /\ UNCHANGED <<dial, proxy>> /\ call[c].pc = "release"
    BY <1>8, FinishEffect DEF Finish, CloseReleaseListener, At
  <2>2. \A d \in Call : /\ lis'[d].loop = lis[d].loop
                        /\ lis'[d].phase \in {lis[d].phase, "closed"}
    BY <1>0, <1>8 DEF CloseReleaseListener, LisType
  <2>3. \A d \in Call : ConnsKept(d) /\ LisKept(d)
    BY <2>1, <2>2 DEF ConnsKept, LisKept, Advanced
  <2>4. QED
    BY <2>3, CarrierFrame, CarrierHere
<1>9. QED
  BY <1>1, <1>2, <1>3, <1>4, <1>5, <1>6, <1>7, <1>8 DEF Handle, Close

LEMMA CarrierStep ==
    ASSUME SocketInv, CarrierInv, [Next]_vars
    PROVE  CarrierInv'
<1>1. ASSUME NEW c \in Call, Background(c) PROVE CarrierInv'
  <2>1. CarrierOK(c)'
    BY <1>1, CarrierDials, CarrierProxies DEF Background
  <2>2. \A d \in Call \ {c} : ConnsKept(d) /\ LisKept(d)
    <3>1. /\ dial \in [Call -> DialType] /\ proxy \in [Call -> ProxyType]
          /\ lis \in [Call -> LisType] /\ call' = call
      BY <1>1, GoroutineEffect DEF SocketInv, Shape
    <3>2. \A d \in Call \ {c} : /\ dial'[d] = dial[d] /\ proxy'[d] = proxy[d]
                                /\ lis'[d] = lis[d]
      BY <1>1, <3>1 DEF Background, Completion, Join, Resolve, Reply, HangUp, DialUnbind,
         DialCloseBind, ProxyEnd, ProxyClose, AcceptLoopEnd
    <3>3. QED
      BY <3>1, <3>2 DEF ConnsKept, LisKept
  <2>3. QED
    BY <2>1, <2>2, CarrierFrame
<1>2. CASE UNCHANGED vars
  BY <1>2 DEF vars, CarrierInv, CarrierOK, MustHangUp
<1>3. QED
  BY <1>1, <1>2, CarrierHandlers DEF Next, Background
-----------------------------------------------------------------------------
(* LifeInv.                                                                 *)

LEMMA LifeInit == Init => LifeInv
<1> SUFFICES ASSUME Init PROVE LifeInv
  OBVIOUS
<1>1. /\ Root \in Maker /\ \A c \in Call : c \in Maker /\ c # Root /\ c # None
      /\ \A s \in Maker : s \in Call \/ s = Root
  BY SocketAssumption DEF SocketAssumption, Maker
<1>2. /\ open = {Root} /\ installed = {Root} /\ sphase[Root] = "open"
      /\ \A c \in Call : sphase[c] = "none" /\ bphase[c] = "none"
  BY <1>1 DEF Init
<1>3. state.kind = "passive" /\ state.bind = None
  BY DEF Init, Passive
<1>4. \A c \in Call : /\ call[c].pc = "idle" /\ call[c].sock = Root /\ call[c].prev = state
                      /\ ~call[c].ref /\ call[c].held = None /\ call[c].res = "none"
                      /\ dial[c].pc = "idle" /\ dial[c].bind = None /\ dial[c].errno = "ok"
                      /\ proxy[c].conns = "none" /\ lis[c].phase = "none"
  BY DEF Init
<1>5. FileInv
  BY <1>1, <1>2, <1>4
  DEF FileInv, MadeInv, Made, CloserOK, Closing, RefOK, FileOK, Reachable
<1>6. EndInv
  BY <1>2, <1>3, <1>4 DEF EndInv, Ending, Ended, NeverPanics, At
<1>7. GoroutineInv
  BY <1>4 DEF GoroutineInv, GoroutineOK, Underway
<1>8. BindInv
  BY <1>1, <1>2, <1>3, <1>4
  DEF BindInv, NamedInv, Bound, LockOK, BindOK, NoBindUseAfterClose, StateBindOpen
<1>9. CarrierInv
  BY <1>4 DEF CarrierInv, CarrierOK
<1>10. QED
  BY <1>5, <1>6, <1>7, <1>8, <1>9 DEF LifeInv

\* What is to become of everything an inode is made of is always settled: its
\* descriptors, its end, its goroutines, its bind sockets, its connections.
THEOREM LifeInvariance == Spec => [](SocketInv /\ LifeInv)
<1>1. SocketInv /\ LifeInv /\ [Next]_vars => LifeInv'
  BY FileStep, EndStep, GoroutineStepInv, BindStep, CarrierStep DEF LifeInv
<1>2. Spec => []SocketInv
  BY Invariance
<1>3. QED
  BY <1>1, <1>2, LifeInit, PTL DEF Spec

\* NoBindUseAfterClose, for any number of handlers: Lock waits for every
\* getsockname, connect and bind that is inside a bind socket before close(2),
\* and only listen closes one without Lock.
THEOREM BindUseIsSafe == Spec => []NoBindUseAfterClose
<1>1. LifeInv => NoBindUseAfterClose
  BY DEF LifeInv, BindInv
<1>2. QED
  BY <1>1, LifeInvariance, PTL

\* StateBindOpen: the bind socket that a live state names is open, because a
\* goroutine closes only one that its own outcome has taken out of the state.
THEOREM NamedBindOpen == Spec => []StateBindOpen
<1>1. LifeInv => StateBindOpen
  BY DEF LifeInv, BindInv
<1>2. QED
  BY <1>1, LifeInvariance, PTL

\* FinalCloseFindsOpen: Socket.Close never panics, because one call at a time
\* ends the inode and no descriptor comes back to an inode that has none.
THEOREM FinalCloseSafe == Spec => []FinalCloseFindsOpen
<1>1. LifeInv => FinalCloseFindsOpen
  BY DEF LifeInv, EndInv, FinalCloseFindsOpen
<1>2. QED
  BY <1>1, LifeInvariance, PTL

\* When all is over, no descriptor of an inode is left.
LEMMA OverFiles ==
    ASSUME FileInv, SocketInv, Over, Installed
    PROVE  open = {} /\ \A s \in Maker : sphase[s] \in {"none", "closed"}
<1>1. ASSUME NEW s \in Maker PROVE sphase[s] \in {"none", "closed"} /\ s \notin open
  <2>1. /\ \A c \in Call : call[c].pc \in {"idle", "done"} /\ call[c].res # "cancelled"
        /\ \A x \in installed : sphase[x] = "closed"
    BY DEF Over, Installed
  <2>2. FileOK(s) /\ sphase[s] \in {"none", "open", "closing", "closed"}
    BY DEF FileInv, SocketInv, Shape, Phases
  <2>3. sphase[s] # "open" /\ sphase[s] # "closing" /\ ~(s \in open /\ sphase[s] = "closed")
    BY <2>1, <2>2 DEF FileOK, Reachable
  <2>4. s \in open => sphase[s] # "none"
    BY DEF FileInv, MadeInv, Made
  <2>5. QED
    BY <2>2, <2>3, <2>4
<1>2. open \subseteq Maker
  BY DEF SocketInv, Shape
<1>3. QED
  BY <1>1, <1>2

\* When all is over and the inode is closed, no bind socket is left.
LEMMA OverBinds ==
    ASSUME SocketInv, BindInv, Over, state.kind = "closed", NEW b \in Call
    PROVE  bphase[b] \in {"none", "closed"}
<1>1. \A c \in Call : call[c].pc \in {"idle", "done"} /\ dial[c].pc \in {"idle", "done"}
  BY DEF Over
<1>2. ~Owned(b)
  BY <1>1 DEF Owned, Alive, WillUnbind, Releasing
<1>3. bphase[b] \in {"none", "open", "closing", "closed"} /\ BindOK(b)
  BY DEF SocketInv, Shape, Phases, BindInv
<1>4. QED
  BY <1>1, <1>2, <1>3 DEF BindOK

\* Reclaimed: when the goroutines have ended and the tracees have closed their
\* descriptors, whatever the order, nothing that a handler opened is open.
THEOREM NothingLeaks == Spec => []Reclaimed
<1>1. SocketInv /\ LifeInv => Reclaimed
  <2> SUFFICES ASSUME SocketInv, LifeInv, Over, Installed
               PROVE  /\ open = {} /\ state.kind = "closed"
                      /\ \A c \in Call : /\ bphase[c] \in {"none", "closed"}
                                         /\ sphase[c] \in {"none", "closed"}
                                         /\ proxy[c].conns \in {"none", "closed"}
                                         /\ lis[c].phase \in {"none", "closed"}
    BY DEF Reclaimed
  <2>1. FileInv /\ EndInv /\ BindInv /\ CarrierInv
    BY DEF LifeInv
  <2>2. open = {} /\ \A s \in Maker : sphase[s] \in {"none", "closed"}
    BY <2>1, OverFiles
  <2>3. state.kind = "closed"
    BY <2>1, <2>2 DEF EndInv, Over
  <2>4. ASSUME NEW c \in Call
        PROVE  /\ proxy[c].conns \in {"none", "closed"} /\ lis[c].phase \in {"none", "closed"}
               /\ c \in Maker
    <3>1. /\ call[c].pc \in {"idle", "done"} /\ dial[c].pc \in {"idle", "done"}
          /\ proxy[c].run \in {"idle", "ended"} /\ ~lis[c].loop
      BY DEF Over
    <3>2. CarrierOK(c)
      BY <2>1 DEF CarrierInv
    <3>3. proxy[c] \in ProxyType /\ lis[c] \in LisType
      BY DEF SocketInv, Shape
    <3>4. proxy[c].conns \in {"none", "open", "closed"}
          /\ lis[c].phase \in {"none", "open", "closing", "closed"}
      BY <3>3 DEF ProxyType, LisType, Phases
    <3>5. QED
      BY <3>1, <3>2, <3>4, CallIsMaker DEF CarrierOK
  <2>5. \A c \in Call : bphase[c] \in {"none", "closed"}
    BY <2>1, <2>3, OverBinds
  <2>6. QED
    BY <2>2, <2>3, <2>4, <2>5
<1>2. QED
  BY <1>1, LifeInvariance, PTL
-----------------------------------------------------------------------------
(* The descriptors, as GuardedFile describes them.                          *)

SocketFile(s) == INSTANCE GuardedFile
                     WITH Goroutine <- Call, inside <- Users(s), phase <- sphase[s]
BindFile(b) == INSTANCE GuardedFile
                   WITH Goroutine <- Call, inside <- Holders(b), phase <- bphase[b]

\* Whoever enters or leaves a socket in a step that leaves its phase.
LEMMA SocketDoor ==
    ASSUME NEW s \in Maker, NEW c \in Call, \A d \in Call \ {c} : call'[d] = call[d],
           sphase'[s] = sphase[s],
           c \in Users(s)' => c \in Users(s) \/ sphase[s] = "open"
    PROVE  SocketFile(s)!ANext \/ (Users(s)' = Users(s) /\ sphase'[s] = sphase[s])
<1>1. \A d \in Call \ {c} : d \in Users(s)' <=> d \in Users(s)
  BY DEF Users
<1>2. Users(s) \subseteq Call /\ Users(s)' \subseteq Call
  BY DEF Users
<1>3. CASE c \in Users(s)' /\ c \notin Users(s)
  <2>1. Users(s)' = Users(s) \cup {c}
    BY <1>1, <1>2, <1>3
  <2>2. SocketFile(s)!Enter(c)
    BY <1>3, <2>1 DEF SocketFile!Enter
  <2>3. QED
    BY <2>2 DEF SocketFile!ANext
<1>4. CASE c \notin Users(s)' /\ c \in Users(s)
  <2>1. Users(s)' = Users(s) \ {c}
    BY <1>1, <1>2, <1>4
  <2>2. SocketFile(s)!Leave(c)
    BY <1>4, <2>1 DEF SocketFile!Leave
  <2>3. QED
    BY <2>2 DEF SocketFile!ANext
<1>5. CASE c \in Users(s)' <=> c \in Users(s)
  <2>1. Users(s)' = Users(s)
    BY <1>1, <1>2, <1>5
  <2>2. QED
    BY <2>1
<1>6. QED
  BY <1>3, <1>4, <1>5
\* A handler enters a socket only by Enter.
LEMMA DoorHandlers ==
    ASSUME SocketInv, FileInv, NEW s \in Maker, NEW c \in Call, sphase'[s] = sphase[s],
           Lookup(c) \/ Handle(c)
    PROVE  SocketFile(s)!ANext \/ (Users(s)' = Users(s) /\ sphase'[s] = sphase[s])
<1>0. call \in [Call -> CallType] /\ RefOK(c)
  BY Here DEF FileInv
<1>1. CASE Operate(c) \/ Finish(c)
  <2>1. Advanced(c)
    BY <1>1, OperateEffect, FinishEffect
  <2>2. c \in Users(s)' => c \in Users(s)
    BY <2>1 DEF Advanced, Users
  <2>3. QED
    BY <2>1, <2>2, SocketDoor DEF Advanced
<1>2. CASE Lookup(c)
  <2>1. ~call'[c].ref
    <3>1. ~call[c].ref
      BY <1>0, <1>2 DEF Lookup, At, RefOK
    <3>2. PICK o, x, b : call' = [call EXCEPT ![c] =
                            [@ EXCEPT !.op = o, !.sock = x, !.blocking = b, !.pc = First(o)]]
      BY <1>2 DEF Lookup
    <3>3. call'[c].ref = call[c].ref
      BY <1>0, <3>2 DEF CallType
    <3>4. QED
      BY <3>1, <3>3
  <2>2. c \notin Users(s)'
    BY <2>1 DEF Users
  <2>3. QED
    BY <1>2, <2>2, AsideEffect, SocketDoor
<1>3. CASE Enter(c)
  <2>1. c \in Users(s)' => sphase[s] = "open" \/ c \in Users(s)
    <3>1. CASE sphase[call[c].sock] = "open"
      <4>1. call'[c].sock = call[c].sock
        BY <1>0, <1>3, <3>1 DEF Enter, CallType
      <4>2. QED
        BY <3>1, <4>1 DEF Users
    <3>2. CASE sphase[call[c].sock] # "open"
      BY <1>0, <1>3, <3>2, ReturnAdvances DEF Enter, Users
    <3>3. QED
      BY <3>1, <3>2
  <2>2. QED
    BY <1>3, <2>1, AsideEffect, SocketDoor
<1>4. CASE \/ DupCreate(c) \/ DupInstall(c) \/ Import(c)
           \/ CloseMark(c) \/ CloseDrain(c) \/ CloseRemove(c)
  <2>1. (\E r : Return(c, r)) \/ (\E l : Goto(c, l))
    BY <1>4 DEF DupCreate, DupInstall, Import, CloseMark, CloseDrain, CloseRemove
  <2>2. Advanced(c)
    BY <1>0, <2>1, ReturnAdvances, GotoAdvances
  <2>3. c \in Users(s)' => c \in Users(s)
    BY <2>2 DEF Advanced, Users
  <2>4. QED
    BY <2>2, <2>3, SocketDoor DEF Advanced
<1>5. QED
  BY <1>1, <1>2, <1>3, <1>4 DEF Handle, Close, Operate, Finish

\* Sockets are entered while they are open, by handlers that leave again, and
\* are closed only when nobody is inside, as FD and GuardedFile promise.
THEOREM SocketsGuarded ==
    ASSUME NEW s \in Maker
    PROVE  Spec => [][sphase[s] # "none" => SocketFile(s)!ANext]_<<Users(s), sphase[s]>>
<1>1. ASSUME SocketInv, LifeInv, [Next]_vars, sphase[s] # "none"
      PROVE  SocketFile(s)!ANext \/ (Users(s)' = Users(s) /\ sphase'[s] = sphase[s])
  <2>0. FileInv /\ SocketInv /\ sphase \in [Maker -> Phases]
    BY <1>1 DEF LifeInv, SocketInv, Shape
  <2>1. CASE UNCHANGED <<call, sphase>>
    BY <2>1 DEF Users
  <2>2. ASSUME NEW c \in Call, Lookup(c) \/ Handle(c), sphase'[s] # sphase[s]
        PROVE  SocketFile(s)!ANext
    <3>0. /\ call \in [Call -> CallType] /\ c \in Maker /\ CloserOK(c)
          /\ call[c].sock \in Maker /\ (sphase[c] # "none" => call[c].pc \in {"install", "done"})
      BY <2>0, Here, FileHere DEF FileInv, MadeInv, Made, CallType
    <3>1. CASE DupCreate(c) \/ Import(c)
      <4>1. s = c /\ sphase[c] = "none"
        BY <1>1, <2>0, <2>2, <3>0, <3>1 DEF DupCreate, Import, At
      <4>2. QED
        BY <1>1, <4>1
    <3>2. CASE CloseMark(c)
      <4>1. /\ s = call[c].sock /\ sphase[s] = "open" /\ sphase'[s] = "closing"
            /\ Goto(c, "drain")
        BY <2>0, <2>2, <3>0, <3>2 DEF CloseMark
      <4>2. Users(s)' = Users(s)
        BY <3>0, <4>1 DEF Goto, Users, CallType
      <4>3. SocketFile(s)!BeginClose
        BY <4>1, <4>2 DEF SocketFile!BeginClose
      <4>4. QED
        BY <4>3 DEF SocketFile!ANext
    <3>3. CASE CloseDrain(c)
      <4>1. /\ s = call[c].sock /\ sphase[s] = "closing" /\ sphase'[s] = "closed"
            /\ Users(s) = {} /\ Goto(c, "remove")
        BY <2>0, <2>2, <3>0, <3>3 DEF CloseDrain, CloserOK, At
      <4>2. Users(s)' = Users(s)
        BY <3>0, <4>1 DEF Goto, Users, CallType
      <4>3. SocketFile(s)!FinishClose
        BY <4>1, <4>2 DEF SocketFile!FinishClose
      <4>4. QED
        BY <4>3 DEF SocketFile!ANext
    <3>4. CASE ~(DupCreate(c) \/ Import(c) \/ CloseMark(c) \/ CloseDrain(c))
      <4>1. UNCHANGED sphase
        BY <1>1, <2>0, <2>2, <3>4, OperateEffect, FinishEffect
        DEF Handle, Close, Operate, Finish, Lookup, Enter, DupInstall, CloseRemove
      <4>2. QED
        BY <2>2, <4>1
    <3>5. QED
      BY <3>1, <3>2, <3>3, <3>4
  <2>3. ASSUME NEW c \in Call, Background(c) PROVE UNCHANGED <<call, sphase>>
    BY <2>3, GoroutineEffect
  <2>4. QED
    BY <1>1, <2>0, <2>1, <2>2, <2>3, DoorHandlers DEF Next, Background, vars
<1>2. SocketInv /\ LifeInv /\ [Next]_vars =>
         [sphase[s] # "none" => SocketFile(s)!ANext]_<<Users(s), sphase[s]>>
  BY <1>1
<1>3. QED
  BY <1>2, LifeInvariance, PTL DEF Spec
\* Whoever enters or leaves a bind socket in a step that leaves its phase.
LEMMA BindDoor ==
    ASSUME SocketInv, BindInv, NEW b \in Call, NEW c \in Call, Lookup(c) \/ Handle(c),
           bphase'[b] = bphase[b]
    PROVE  BindFile(b)!ANext \/ (Holders(b)' = Holders(b) /\ bphase'[b] = bphase[b])
<1>0. /\ \A d \in Call \ {c} : call'[d] = call[d]
      /\ \/ call'[c].held \in {None, call[c].held}
         \/ call'[c].held = call[c].prev.bind /\ bphase[call[c].prev.bind] = "open"
  BY OperateEffect, FinishEffect, AsideEffect DEF Handle, Close, Operate, Finish, Advanced
<1>1. \A d \in Call \ {c} : d \in Holders(b)' <=> d \in Holders(b)
  BY <1>0 DEF Holders
<1>2. /\ Holders(b) \subseteq Call /\ Holders(b)' \subseteq Call
      /\ c \in Holders(b)' => c \in Holders(b) \/ bphase[b] = "open"
  BY <1>0, CallIsMaker DEF Holders
<1>3. CASE c \in Holders(b)' /\ c \notin Holders(b)
  <2>1. Holders(b)' = Holders(b) \cup {c}
    BY <1>1, <1>2, <1>3
  <2>2. BindFile(b)!Enter(c)
    BY <1>2, <1>3, <2>1 DEF BindFile!Enter
  <2>3. QED
    BY <2>2 DEF BindFile!ANext
<1>4. CASE c \notin Holders(b)' /\ c \in Holders(b)
  <2>1. Holders(b)' = Holders(b) \ {c}
    BY <1>1, <1>2, <1>4
  <2>2. BindFile(b)!Leave(c)
    BY <1>4, <2>1 DEF BindFile!Leave
  <2>3. QED
    BY <2>2 DEF BindFile!ANext
<1>5. CASE c \in Holders(b)' <=> c \in Holders(b)
  <2>1. Holders(b)' = Holders(b)
    BY <1>1, <1>2, <1>5
  <2>2. QED
    BY <2>1
<1>6. QED
  BY <1>3, <1>4, <1>5

\* Who shuts a bind socket, when no listen does.
LEMMA BindShutters ==
    ASSUME SocketInv, BindInv, NEW b \in Call, NEW c \in Call,
           bphase[b] # "none", bphase'[b] # bphase[b], ~Called("listen"),
           Lookup(c) \/ Handle(c) \/ Background(c)
    PROVE  BindFile(b)!ANext
<1>0. /\ call \in [Call -> CallType] /\ bphase \in [Call -> Phases] /\ LockOK(c)
      /\ dial[c].bind \in Call \cup {None} /\ call[c].prev.bind \in Call \cup {None}
      /\ c # None /\ b # None
  BY BindHere, CallIsMaker
<1>1. ASSUME bphase[b] = "open", bphase'[b] = "closing", Holders(b)' = Holders(b)
      PROVE  BindFile(b)!ANext
  BY <1>1 DEF BindFile!ANext, BindFile!BeginClose
<1>2. ASSUME bphase[b] \notin {"none", "open"}, bphase'[b] = "closed",
             Holders(b) = {}, Holders(b)' = {}
      PROVE  BindFile(b)!ANext
  <2>1. bphase[b] = "closing"
    BY <1>0, <1>2 DEF Phases
  <2>2. QED
    BY <1>2, <2>1 DEF BindFile!ANext, BindFile!FinishClose
<1>3. CASE DialUnbind(c)
  <2>1. b = dial[c].bind /\ bphase[b] = "open" /\ bphase'[b] = "closing" /\ UNCHANGED call
    BY <1>0, <1>3 DEF DialUnbind
  <2>2. QED
    BY <1>1, <2>1 DEF Holders
<1>4. CASE DialCloseBind(c)
  <2>1. /\ b = dial[c].bind /\ bphase[b] # "open" /\ bphase'[b] = "closed" /\ UNCHANGED call
        /\ Holders(b) = {}
    BY <1>0, <1>4 DEF DialCloseBind, Drained, LockOK
  <2>2. QED
    BY <1>2, <2>1 DEF Holders
<1>5. CASE CloseReleaseBind(c)
  <2>1. /\ b = call[c].prev.bind /\ bphase[b] = "open" /\ bphase'[b] = "closing"
        /\ Goto(c, "lock")
    BY <1>0, <1>5 DEF CloseReleaseBind
  <2>2. Holders(b)' = Holders(b)
    BY <1>0, <2>1 DEF Goto, Holders, CallType
  <2>3. QED
    BY <1>1, <2>1, <2>2
<1>6. CASE CloseBind(c)
  <2>1. /\ b = call[c].prev.bind /\ bphase[b] # "open" /\ bphase'[b] = "closed"
        /\ Holders(b) = {} /\ Return(c, "ok")
    BY <1>0, <1>6 DEF CloseBind, Drained, LockOK, At
  <2>2. Holders(b)' = {}
    BY <1>0, <2>1, ReturnAdvances DEF Advanced, Holders
  <2>3. QED
    BY <1>2, <2>1, <2>2
<1>7. ~(ConnectPublish(c) \/ BindPublish(c) \/ ListenUnbind(c))
  <2>1. ASSUME ConnectPublish(c) \/ BindPublish(c) PROVE FALSE
    <3>1. b = c /\ call[c].pc \in {"publish", "bound"}
      BY <1>0, <2>1 DEF ConnectPublish, BindPublish, At
    <3>2. QED
      BY <3>1, BindHere DEF After
  <2>2. ASSUME ListenUnbind(c) PROVE FALSE
    <3>1. call[c].pc = "unbind"
      BY <2>2 DEF ListenUnbind, At
    <3>2. QED
      BY <3>1, Here, StageOf DEF Called
  <2>3. QED
    BY <2>1, <2>2
<1>8. QED
  BY <1>3, <1>4, <1>5, <1>6, <1>7
  DEF Handle, Close, Background, Completion, Lookup, Enter, Load, EnterBind, GotName, ConnectDummy,
      ConnectAttach, ConnectWait, BindEnter, ListenPark, NetListen, ListenPublish, DupCreate,
      DupInstall, Import, CloseMark, CloseDrain, CloseRemove, CloseLoad, CloseEnd,
      CloseReleaseProxy, CloseReleaseListener, Join, Resolve, Reply, HangUp, ProxyEnd, ProxyClose,
      AcceptLoopEnd

\* The same of the temporary bind sockets, from the moment they are published,
\* as long as no listen is called, which closes one without Lock.
THEOREM BindsGuarded ==
    ASSUME NEW b \in Call
    PROVE  Spec => [][bphase[b] # "none" /\ ~Called("listen") => BindFile(b)!ANext
                     ]_<<Holders(b), bphase[b]>>
<1>1. ASSUME SocketInv, LifeInv, [Next]_vars, bphase[b] # "none", ~Called("listen")
      PROVE  BindFile(b)!ANext \/ (Holders(b)' = Holders(b) /\ bphase'[b] = bphase[b])
  <2>0. BindInv
    BY <1>1 DEF LifeInv
  <2>1. CASE UNCHANGED <<call, bphase>>
    BY <2>1 DEF Holders
  <2>2. ASSUME NEW c \in Call, Lookup(c) \/ Handle(c)
        PROVE  BindFile(b)!ANext \/ (Holders(b)' = Holders(b) /\ bphase'[b] = bphase[b])
    BY <1>1, <2>0, <2>2, BindDoor, BindShutters
  <2>3. ASSUME NEW c \in Call, Background(c)
        PROVE  BindFile(b)!ANext \/ (Holders(b)' = Holders(b) /\ bphase'[b] = bphase[b])
    <3>1. CASE bphase'[b] = bphase[b]
      BY <2>3, <3>1, GoroutineEffect DEF Holders
    <3>2. CASE bphase'[b] # bphase[b]
      BY <1>1, <2>0, <2>3, <3>2, BindShutters
    <3>3. QED
      BY <3>1, <3>2
  <2>4. QED
    BY <1>1, <2>1, <2>2, <2>3 DEF Next, Background, vars
<1>2. SocketInv /\ LifeInv /\ [Next]_vars =>
         [bphase[b] # "none" /\ ~Called("listen") => BindFile(b)!ANext]_<<Holders(b), bphase[b]>>
  BY <1>1
<1>3. QED
  BY <1>2, LifeInvariance, PTL DEF Spec
-----------------------------------------------------------------------------
(* The waits: who is inside what, and what a connect that waits waits for.  *)

Within == Inside \cup {"dup", "install"}
WaitOK(c) ==
    /\ call[c].ref => call[c].pc \in Within
    /\ call[c].held # None => call[c].pc \in {"named", "bound"}
    /\ call[c].pc \notin {"wait", "done"} => ~dial[c].accepted
    /\ call[c].pc = "attach" => dial[c].pc = "join"
    /\ call[c].pc = "wait" =>
          \/ dial[c].reply # "none" \/ dial[c].pc \in {"swap", "reply"}
          \/ dial[c].pc = "join" /\ (dial[c].accepted \/ call[c].res = "EISCONN")
WaitInv == \A c \in Call : WaitOK(c)

LEMMA WaitHere ==
    ASSUME SocketInv, WaitInv, NEW c \in Call
    PROVE  /\ WaitOK(c) /\ DialOK(c)
           /\ call \in [Call -> CallType] /\ dial \in [Call -> DialType]
           /\ call[c].pc \in Stages(call[c].op) /\ call[c].op \in Operations \cup {"none"}
BY Here, ThisConnect DEF WaitInv

\* What a step of c leaves of the waits of the others.
LEMMA WaitFrame ==
    ASSUME WaitInv, NEW c \in Call, WaitOK(c)',
           \A d \in Call \ {c} : call'[d] = call[d] /\ dial'[d] = dial[d]
    PROVE  WaitInv'
<1>1. ASSUME NEW d \in Call \ {c} PROVE WaitOK(d)'
  BY <1>1 DEF WaitInv, WaitOK
<1>2. QED
  BY <1>1 DEF WaitInv

\* A handler that does not attach: it returns, or goes on inside, or outside.
Early == {"attach", "wait", "done"}
Passed(c) ==
    \/ call'[c].pc = "done" /\ ~call'[c].ref /\ call'[c].held = None
    \/ /\ call[c].pc \notin Early /\ call'[c].pc \notin Early
       /\ call'[c].ref => call'[c].pc \in Within
       /\ call'[c].held # None => call'[c].pc = "named" \/ call'[c].pc = "bound"
LEMMA WaitPassed ==
    ASSUME NEW c \in Call, WaitOK(c), Passed(c),
           dial'[c].accepted = dial[c].accepted
    PROVE  WaitOK(c)'
BY DEF WaitOK, Passed, Early

LEMMA ReturnPasses ==
    ASSUME call \in [Call -> CallType], NEW c \in Call, NEW r, Return(c, r)
    PROVE  Passed(c) /\ \A d \in Call \ {c} : call'[d] = call[d]
BY ReturnAdvances DEF Passed, Advanced

LEMMA GotoPasses ==
    ASSUME call \in [Call -> CallType], NEW c \in Call, WaitOK(c), NEW l, Goto(c, l),
           call[c].pc \notin Early \cup {"named", "bound"}, l \notin Early,
           call[c].pc \in Within => l \in Within
    PROVE  Passed(c) /\ \A d \in Call \ {c} : call'[d] = call[d]
<1>1. /\ call'[c].pc = l /\ call'[c].ref = call[c].ref /\ call'[c].held = call[c].held
      /\ \A d \in Call \ {c} : call'[d] = call[d]
  BY DEF Goto, CallType
<1>2. QED
  BY <1>1 DEF Passed, WaitOK

\* The queries, bind, listen and close.
Aside(c) == \/ Lookup(c) \/ Enter(c) \/ DupCreate(c) \/ DupInstall(c) \/ Import(c)
            \/ CloseMark(c) \/ CloseDrain(c) \/ CloseRemove(c)
LEMMA WaitHandlers ==
    ASSUME SocketInv, WaitInv, NEW c \in Call,
           Apart(c) \/ Finish(c) \/ Aside(c)
    PROVE  Passed(c) /\ UNCHANGED dial /\ \A d \in Call \ {c} : call'[d] = call[d]
<1> DEFINE others == \A d \in Call \ {c} : call'[d] = call[d]
<1>1. UNCHANGED dial
  BY DEF Apart, Finish, Aside, Load, EnterBind, GotName, ConnectWait, BindEnter, BindPublish,
         ListenPark, NetListen, ListenUnbind, ListenPublish, CloseLoad, CloseEnd,
         CloseReleaseBind, CloseBind, CloseReleaseProxy, CloseReleaseListener, Lookup, Enter,
         DupCreate, DupInstall, Import, CloseMark, CloseDrain, CloseRemove
<1>2. call \in [Call -> CallType] /\ WaitOK(c)
  BY WaitHere
<1>3. ASSUME \E r : Return(c, r) PROVE Passed(c) /\ others
  BY <1>2, <1>3, ReturnPasses
<1>4. CASE Lookup(c)
  <2>1. \A o : First(o) \in {"mark", "import", "enter"}
    BY DEF First
  <2>2. PICK o, s, b : call' = [call EXCEPT ![c] =
                          [@ EXCEPT !.op = o, !.sock = s, !.blocking = b, !.pc = First(o)]]
    BY <1>4 DEF Lookup
  <2>3. /\ call'[c].pc = First(o) /\ call'[c].ref = call[c].ref
        /\ call'[c].held = call[c].held /\ others
    BY <1>2, <2>2 DEF CallType
  <2>4. call[c].pc = "idle" /\ ~call[c].ref /\ call[c].held = None
    BY <1>2, <1>4 DEF Lookup, At, WaitOK, Within, Inside
  <2>5. QED
    BY <1>1, <2>1, <2>3, <2>4 DEF Passed, Early
<1>5. CASE Enter(c)
  <2>1. call[c].pc = "enter" /\ call[c].held = None
    BY <1>2, <1>5 DEF Enter, At, WaitOK
  <2>2. CASE ~(\E r : Return(c, r))
    <3> DEFINE l == IF call[c].op = "dup" THEN "dup" ELSE "load"
    <3>1. call' = [call EXCEPT ![c] = [@ EXCEPT !.ref = TRUE, !.pc = l]]
      BY <1>5, <2>2 DEF Enter
    <3>2. call'[c].pc = l /\ call'[c].held = call[c].held /\ others
      BY <1>2, <3>1 DEF CallType
    <3>3. l \in {"dup", "load"}
      OBVIOUS
    <3>4. QED
      BY <1>1, <2>1, <3>2, <3>3 DEF Passed, Early, Within, Inside
  <2>3. QED
    BY <1>1, <1>3, <2>2
<1>6. CASE Load(c)
  <2>1. call[c].pc = "load" /\ call[c].held = None
    BY <1>2, <1>6 DEF Load, At, WaitOK
  <2>2. CASE ~(\E r : Return(c, r))
    <3>1. call' = [call EXCEPT ![c] = [@ EXCEPT !.prev = state, !.pc = Onward(call[c].op)]]
      BY <1>6, <2>2 DEF Load
    <3>2. call'[c].pc = Onward(call[c].op) /\ call'[c].held = call[c].held /\ others
      BY <1>2, <3>1 DEF CallType
    <3>3. Onward(call[c].op) \in {"bind", "park", "sockname"}
      BY DEF Onward
    <3>4. QED
      BY <1>1, <2>1, <3>2, <3>3 DEF Passed, Early, Within, Inside
  <2>3. QED
    BY <1>1, <1>3, <2>2
<1>7. CASE EnterBind(c)
  <2>1. call[c].pc = "sockname"
    BY <1>7 DEF EnterBind, At
  <2>2. AfterName(call[c].op) \in {"publish", "netlisten"}
    BY DEF AfterName
  <2>3. CASE Goto(c, AfterName(call[c].op))
    BY <1>1, <1>2, <2>1, <2>2, <2>3, GotoPasses DEF Early, Within, Inside
  <2>4. CASE call' = [call EXCEPT ![c] = [@ EXCEPT !.held = call[c].prev.bind, !.pc = "named"]]
    <3>1. call'[c].pc = "named" /\ others
      BY <1>2, <2>4 DEF CallType
    <3>2. QED
      BY <1>1, <2>1, <3>1 DEF Passed, Early, Within, Inside
  <2>5. QED
    BY <1>1, <1>3, <1>7, <2>3, <2>4 DEF EnterBind
<1>8. CASE GotName(c)
  <2>1. call[c].pc = "named"
    BY <1>8 DEF GotName, At
  <2>2. CASE ~(\E r : Return(c, r))
    <3>1. call' = [call EXCEPT ![c] = [@ EXCEPT !.held = None, !.pc = AfterName(call[c].op)]]
      BY <1>8, <2>2 DEF GotName
    <3>2. call'[c].pc = AfterName(call[c].op) /\ call'[c].held = None /\ others
      BY <1>2, <3>1 DEF CallType
    <3>3. AfterName(call[c].op) \in {"publish", "netlisten"}
      BY DEF AfterName
    <3>4. QED
      BY <1>1, <2>1, <3>2, <3>3 DEF Passed, Early, Within, Inside
  <2>3. QED
    BY <1>1, <1>3, <2>2
<1>9. CASE BindEnter(c)
  <2>1. call[c].pc = "bind"
    BY <1>9 DEF BindEnter, At
  <2>2. CASE ~(\E r : Return(c, r))
    <3>1. call' = [call EXCEPT ![c] = [@ EXCEPT !.held = call[c].prev.bind, !.pc = "bound"]]
      BY <1>9, <2>2 DEF BindEnter
    <3>2. call'[c].pc = "bound" /\ others
      BY <1>2, <3>1 DEF CallType
    <3>3. QED
      BY <1>1, <2>1, <3>2 DEF Passed, Early, Within, Inside
  <2>3. QED
    BY <1>1, <1>3, <2>2
<1>10. CASE ConnectWait(c) \/ BindPublish(c)
  BY <1>1, <1>3, <1>10 DEF ConnectWait, BindPublish
<1>11. CASE ListenPark(c) \/ NetListen(c) \/ ListenUnbind(c) \/ ListenPublish(c)
  <2>1. \/ \E r : Return(c, r)
        \/ /\ call[c].pc \in {"park", "netlisten", "unbind"}
           /\ \E l \in {"sockname", "unbind", "listening"} : Goto(c, l)
    BY <1>11 DEF ListenPark, NetListen, ListenUnbind, ListenPublish, At
  <2>2. QED
    BY <1>1, <1>2, <1>3, <2>1, GotoPasses DEF Early, Within, Inside
<1>12. CASE DupCreate(c) \/ DupInstall(c) \/ Import(c)
  <2>1. \/ \E r : Return(c, r)
        \/ call[c].pc = "dup" /\ Goto(c, "install")
    BY <1>12 DEF DupCreate, DupInstall, Import, At
  <2>2. QED
    BY <1>1, <1>2, <1>3, <2>1, GotoPasses DEF Early, Within, Inside
<1>13. CASE CloseLoad(c)
  <2>1. call[c].pc = "final" /\ ~call[c].ref /\ call[c].held = None
    BY <1>2, <1>13 DEF CloseLoad, At, WaitOK, Within, Inside
  <2> DEFINE l == IF state.kind = "closed" THEN "panic" ELSE "end"
  <2>2. call' = [call EXCEPT ![c] = [@ EXCEPT !.prev = state, !.pc = l]]
    BY <1>13 DEF CloseLoad
  <2>3. call'[c].pc = l /\ call'[c].ref = call[c].ref /\ call'[c].held = call[c].held /\ others
    BY <1>2, <2>2 DEF CallType
  <2>4. l \in {"panic", "end"}
    OBVIOUS
  <2>5. QED
    BY <1>1, <2>1, <2>3, <2>4 DEF Passed, Early
<1>14. CASE \/ CloseMark(c) \/ CloseDrain(c) \/ CloseRemove(c) \/ CloseEnd(c)
            \/ CloseReleaseBind(c) \/ CloseBind(c) \/ CloseReleaseProxy(c)
            \/ CloseReleaseListener(c)
  <2>1. \/ \E r : Return(c, r)
        \/ /\ call[c].pc \in {"mark", "drain", "remove", "end", "release"}
           /\ \E l \in {"drain", "remove", "final", "release", "lock"} : Goto(c, l)
    BY <1>14 DEF CloseMark, CloseDrain, CloseRemove, CloseEnd, CloseReleaseBind, CloseBind,
                 CloseReleaseProxy, CloseReleaseListener, At
  <2>2. QED
    BY <1>1, <1>2, <1>3, <2>1, GotoPasses DEF Early, Within, Inside
<1>15. QED
  BY <1>1, <1>4, <1>5, <1>6, <1>7, <1>8, <1>9, <1>10, <1>11, <1>12, <1>13, <1>14
  DEF Apart, Finish, Aside

\* The connect that starts the dial and attaches the tracee's socket to it.
LEMMA WaitConnects ==
    ASSUME SocketInv, WaitInv, NEW c \in Call,
           ConnectPublish(c) \/ ConnectDummy(c) \/ ConnectAttach(c)
    PROVE  WaitInv'
<1> DEFINE others == \A d \in Call \ {c} : call'[d] = call[d] /\ dial'[d] = dial[d]
<1>1. /\ call \in [Call -> CallType] /\ dial \in [Call -> DialType]
      /\ WaitOK(c) /\ DialOK(c)
  BY WaitHere
<1>2. CASE ConnectPublish(c)
  <2>1. call[c].pc = "publish"
    BY <1>2 DEF ConnectPublish, At
  <2>2. dial' = dial \/ dial' = [dial EXCEPT ![c].bind = BindFor(c)]
    BY <1>2 DEF ConnectPublish
  <2>3. dial'[c].accepted = dial[c].accepted /\ \A d \in Call \ {c} : dial'[d] = dial[d]
    BY <1>1, <2>2 DEF DialType
  <2>4. Goto(c, "dummy") \/ \E r : Return(c, r)
    BY <1>2 DEF ConnectPublish
  <2>5. Passed(c) /\ \A d \in Call \ {c} : call'[d] = call[d]
    BY <1>1, <2>1, <2>4, ReturnPasses, GotoPasses DEF Early, Within, Inside
  <2>6. QED
    BY <1>1, <2>3, <2>5, WaitPassed, WaitFrame
<1>3. CASE ConnectDummy(c)
  <2>1. CASE UNCHANGED dial /\ \E r : Return(c, r)
    BY <1>1, <2>1, ReturnPasses, WaitPassed, WaitFrame
  <2>2. CASE dial' = [dial EXCEPT ![c].pc = "join"] /\ Goto(c, "attach")
    <3>1. /\ call'[c].pc = "attach" /\ call'[c].ref = call[c].ref
          /\ call'[c].held = call[c].held /\ \A d \in Call \ {c} : call'[d] = call[d]
      BY <1>1, <2>2 DEF Goto, CallType
    <3>2. /\ dial'[c].pc = "join" /\ dial'[c].accepted = dial[c].accepted
          /\ \A d \in Call \ {c} : dial'[d] = dial[d]
      BY <1>1, <2>2 DEF DialType
    <3>3. call[c].pc = "dummy"
      BY <1>3 DEF ConnectDummy, At
    <3>4. WaitOK(c)'
      BY <1>1, <3>1, <3>2, <3>3 DEF WaitOK, Within, Inside
    <3>5. QED
      BY <3>1, <3>2, <3>4, WaitFrame
  <2>3. QED
    BY <1>3, <2>1, <2>2 DEF ConnectDummy
<1>4. CASE ConnectAttach(c)
  <2>1. call[c].pc = "attach" /\ dial[c].pc = "join" /\ call[c].held = None
    BY <1>1, <1>4 DEF ConnectAttach, At, WaitOK
  <2>2. /\ dial'[c].pc = "join" /\ dial'[c].accepted = ~kernel.wired
        /\ \A d \in Call \ {c} : dial'[d] = dial[d]
    BY <1>1, <1>4, <2>1 DEF ConnectAttach, DialType
  <2>3. CASE \E r : Return(c, r)
    <3>1. /\ call'[c].pc = "done" /\ ~call'[c].ref /\ call'[c].held = None
          /\ \A d \in Call \ {c} : call'[d] = call[d]
      BY <1>1, <2>3, ReturnAdvances DEF Advanced
    <3>2. WaitOK(c)'
      BY <3>1 DEF WaitOK
    <3>3. QED
      BY <2>2, <3>1, <3>2, WaitFrame
  <2>4. CASE call' = [call EXCEPT ![c] = [@ EXCEPT !.pc = "wait", !.res = AttachErrno(c)]]
    <3>1. /\ call'[c].pc = "wait" /\ call'[c].held = call[c].held
          /\ call'[c].res = AttachErrno(c) /\ \A d \in Call \ {c} : call'[d] = call[d]
      BY <1>1, <2>4 DEF CallType
    <3>2. kernel.wired => AttachErrno(c) = "EISCONN"
      BY DEF AttachErrno
    <3>3. WaitOK(c)'
      BY <2>1, <2>2, <3>1, <3>2 DEF WaitOK, Within, Inside
    <3>4. QED
      BY <2>2, <3>1, <3>3, WaitFrame
  <2>5. QED
    BY <1>4, <2>3, <2>4 DEF ConnectAttach
<1>5. QED
  BY <1>2, <1>3, <1>4

\* A completion starts when the tracee is attached, and answers before it ends.
LEMMA WaitCompletions ==
    ASSUME SocketInv, GoroutineInv, WaitInv, NEW c \in Call, Completion(c)
    PROVE  WaitInv'
<1>1. /\ call \in [Call -> CallType] /\ dial \in [Call -> DialType]
      /\ WaitOK(c) /\ DialOK(c) /\ GoroutineOK(c)
  BY WaitHere DEF GoroutineInv
<1>2. UNCHANGED call
  BY DEF Completion, Join, Resolve, Reply, HangUp, DialUnbind, DialCloseBind
<1>3. \A d \in Call \ {c} : dial'[d] = dial[d]
  BY <1>1 DEF Completion, Join, Resolve, Reply, HangUp, DialUnbind, DialCloseBind
<1>4. /\ dial'[c].accepted = dial[c].accepted
      /\ call[c].pc # "attach"
      /\ call[c].pc = "wait" => dial'[c].reply # "none" \/ dial'[c].pc \in {"swap", "reply"}
  <2>1. CASE Join(c)
    <3>1. PICK o \in Dials :
             dial' = [dial EXCEPT ![c] =
                [@ EXCEPT !.pc = IF Unresolved(o) THEN "reply" ELSE "swap",
                          !.next = IF o = "ok" THEN Plain("connected", c)
                                   ELSE Passive(dial[c].bind, "ECONNREFUSED", c),
                          !.errno = CASE o = "ok" -> "ok"
                                      [] o = "refused" -> "ECONNREFUSED"
                                      [] o = "unknown" -> "ENOSYS"]]
      BY <2>1 DEF Join
    <3>2. dial'[c].pc \in {"swap", "reply"} /\ dial'[c].accepted = dial[c].accepted
      BY <1>1, <3>1 DEF DialType
    <3>3. call[c].pc # "attach"
      BY <1>1, <2>1 DEF Join, WaitOK
    <3>4. QED
      BY <3>2, <3>3
  <2>2. CASE Resolve(c)
    <3>1. /\ dial'[c].pc = "reply" /\ dial'[c].accepted = dial[c].accepted
          /\ dial[c].pc = "swap"
      BY <1>1, <2>2 DEF Resolve, DialType
    <3>2. QED
      BY <1>1, <3>1 DEF WaitOK
  <2>3. CASE Reply(c)
    <3>1. /\ dial'[c].reply = dial[c].errno /\ dial'[c].accepted = dial[c].accepted
          /\ dial[c].pc = "reply"
      BY <1>1, <2>3 DEF Reply, DialType
    <3>2. dial[c].errno # "none"
      BY <1>1 DEF GoroutineOK
    <3>3. QED
      BY <1>1, <3>1, <3>2 DEF WaitOK
  <2>4. CASE HangUp(c) \/ DialUnbind(c) \/ DialCloseBind(c)
    <3>1. /\ dial'[c].reply = dial[c].reply /\ dial'[c].accepted = dial[c].accepted
          /\ dial[c].pc \in {"hangup", "unbind", "lock"}
      BY <1>1, <2>4 DEF HangUp, DialUnbind, DialCloseBind, DialType
    <3>2. QED
      BY <1>1, <3>1 DEF WaitOK
  <2>5. QED
    BY <2>1, <2>2, <2>3, <2>4 DEF Completion
<1>5. WaitOK(c)'
  BY <1>1, <1>2, <1>4 DEF WaitOK
<1>6. QED
  BY <1>2, <1>3, <1>5, WaitFrame

LEMMA WaitStep ==
    ASSUME SocketInv, GoroutineInv, WaitInv, [Next]_vars
    PROVE  WaitInv'
<1>1. ASSUME NEW c \in Call, Apart(c) \/ Finish(c) \/ Aside(c)
      PROVE  WaitInv'
  BY <1>1, WaitHandlers, WaitHere, WaitPassed, WaitFrame
<1>2. ASSUME NEW c \in Call, ConnectPublish(c) \/ ConnectDummy(c) \/ ConnectAttach(c)
      PROVE  WaitInv'
  BY <1>2, WaitConnects
<1>3. ASSUME NEW c \in Call, Completion(c)
      PROVE  WaitInv'
  BY <1>3, WaitCompletions
<1>4. CASE UNCHANGED <<call, dial>>
  BY <1>4 DEF WaitInv, WaitOK
<1>5. QED
  BY <1>1, <1>2, <1>3, <1>4
  DEF Next, Handle, Close, Apart, Finish, Aside, ProxyEnd, ProxyClose, AcceptLoopEnd, vars

\* WaitsEnd: no wait of a close, of a Lock or of a blocking connect is part of
\* a circle, and each is for a goroutine that is still to do its part.
THEOREM NoCircularWait == Spec => []WaitsEnd
<1>1. Init => WaitInv
  BY DEF Init, WaitInv, WaitOK
<1>2. SocketInv /\ LifeInv /\ WaitInv /\ [Next]_vars => WaitInv'
  BY WaitStep DEF LifeInv
<1>3. SocketInv /\ LifeInv /\ WaitInv => WaitsEnd
  <2> SUFFICES ASSUME SocketInv, LifeInv, WaitInv
               PROVE  WaitsEnd
    OBVIOUS
  <2>1. ASSUME NEW c \in Call, NEW d \in Users(call[c].sock)
        PROVE  call[d].op \notin {"close", "cleanup"}
    <3>1. d \in Call /\ call[d].pc \in Within
      BY <2>1 DEF Users, WaitInv, WaitOK
    <3>2. QED
      BY <3>1, WaitHere, StageOf DEF Within, Inside, Stages
  <2>2. ASSUME NEW b, NEW d \in Holders(b), b # None
        PROVE  call[d].pc \in {"named", "bound"}
    BY <2>2 DEF Holders, WaitInv, WaitOK
  <2>3. ASSUME NEW c \in Call
        PROVE  /\ At(c, "lock") => call[c].prev.bind # None
               /\ dial[c].pc = "lock" => dial[c].bind # None
    BY DEF LifeInv, BindInv, LockOK, At
  <2>4. ASSUME NEW c \in Call, At(c, "wait")
        PROVE  \/ dial[c].reply # "none" \/ dial[c].pc \in {"swap", "reply"}
               \/ dial[c].pc = "join" /\ (dial[c].accepted \/ call[c].res = "EISCONN")
    BY <2>4 DEF WaitInv, WaitOK, At
  <2>5. QED
    BY <2>1, <2>2, <2>3, <2>4 DEF WaitsEnd
<1>4. QED
  BY <1>1, <1>2, <1>3, LifeInvariance, PTL DEF Spec
-----------------------------------------------------------------------------
(* The connects: what is still to replace a Connecting state.               *)

\* The part of ConnectingHasDial that is about the connect.  The record of the
\* state is GoroutineInv's.
Pending(c) ==
    \/ Forsaken(c)
    \/ call[c].pc = "dummy"
    \/ call[c].pc = "attach" /\ dial[c].pc = "join"
    \/ dial[c].pc = "join" /\ dial[c].accepted
    \/ dial[c].pc = "swap"
PendingInv == state.kind = "connecting" => state.by \in Call /\ Pending(state.by)

\* Only a handler that has published a Connecting state can be pending.
LEMMA PendingPlace ==
    ASSUME SocketInv, GoroutineInv, NEW c \in Call, Pending(c)
    PROVE  call[c].pc \in {"dummy", "attach", "wait", "done"}
<1>1. GoroutineOK(c) /\ DialOK(c)
  BY ThisConnect DEF GoroutineInv
<1>2. QED
  BY <1>1 DEF Pending, Forsaken, Undialed, Refused, GoroutineOK, DialOK

LEMMA PendingFrame ==
    ASSUME NEW c \in Call, Pending(c), call'[c] = call[c], dial'[c] = dial[c]
    PROVE  Pending(c)'
BY DEF Pending, Forsaken, Undialed, Refused

\* A step of another kind than a connect's leaves it pending.
LEMMA PendingKept ==
    ASSUME SocketInv, GoroutineInv, PendingInv, state' = state, UNCHANGED dial,
           NEW c \in Call, \A d \in Call \ {c} : call'[d] = call[d],
           call[c].pc \notin {"dummy", "attach", "wait", "done"}
    PROVE  PendingInv'
<1> SUFFICES ASSUME state.kind = "connecting"
             PROVE  state.by \in Call /\ Pending(state.by)'
  BY DEF PendingInv
<1>1. state.by \in Call /\ Pending(state.by)
  BY DEF PendingInv
<1>2. PICK p \in Call : p = state.by
  BY <1>1
<1>3. Pending(p) /\ p # c
  BY <1>1, <1>2, PendingPlace
<1>4. Pending(p)'
  BY <1>3, PendingFrame
<1>5. QED
  BY <1>2, <1>4

\* A connect begins with its own record and starts its dial before it attaches.
LEMMA PendingConnects ==
    ASSUME SocketInv, GoroutineInv, WaitInv, PendingInv, NEW c \in Call,
           \/ ConnectPublish(c) \/ ConnectDummy(c) \/ ConnectAttach(c) \/ ConnectWait(c)
    PROVE  PendingInv'
<1>1. /\ call \in [Call -> CallType] /\ dial \in [Call -> DialType]
      /\ WaitOK(c) /\ DialOK(c) /\ GoroutineOK(c)
  BY WaitHere DEF GoroutineInv
<1>2. /\ \A d \in Call \ {c} : call'[d] = call[d] /\ dial'[d] = dial[d]
  <2>1. Operate(c)
    BY DEF Operate
  <2>2. QED
    BY <1>1, <2>1, OperateEffect
    DEF Advanced, ConnectPublish, ConnectDummy, ConnectAttach, ConnectWait
\* While the state stays, only the connect of this handler may cease to be pending.
<1>3. ASSUME state' = state, Pending(c) => Pending(c)'
      PROVE  PendingInv'
  <2> SUFFICES ASSUME state.kind = "connecting"
               PROVE  state'.by \in Call /\ Pending(state.by)'
    BY <1>3 DEF PendingInv
  <2>1. state.by \in Call /\ Pending(state.by)
    BY DEF PendingInv
  <2>2. PICK p \in Call : p = state.by
    BY <2>1
  <2>3. Pending(p)'
    BY <1>2, <1>3, <2>1, <2>2, PendingFrame
  <2>4. state'.by = p
    BY <1>3, <2>2
  <2>5. QED
    BY <1>3, <2>2, <2>3, <2>4
<1>4. CASE ConnectPublish(c)
  <2>1. call[c].pc = "publish"
    BY <1>4 DEF ConnectPublish, At
  <2>2. CASE state = call[c].prev
    <3>1. state' = Connecting(BindFor(c), c) /\ Goto(c, "dummy")
      BY <1>4, <2>2 DEF ConnectPublish
    <3>2. call'[c].pc = "dummy" /\ state'.by = c
      BY <1>1, <3>1, GotoAdvances DEF Connecting
    <3>3. Pending(c)'
      BY <3>2 DEF Pending
    <3>4. QED
      BY <3>2, <3>3 DEF PendingInv
  <2>3. CASE state # call[c].prev
    <3>1. UNCHANGED state
      BY <1>4, <2>3 DEF ConnectPublish
    <3>2. ~Pending(c)
      BY <2>1, PendingPlace
    <3>3. QED
      BY <1>3, <3>1, <3>2
  <2>4. QED
    BY <2>2, <2>3
<1>5. CASE ConnectDummy(c)
  <2>1. CASE Return(c, "unanswered")
    <3>1. call'[c].pc = "done" /\ call'[c].res = "unanswered"
      BY <1>1, <2>1, ReturnAdvances
    <3>2. QED
      BY <1>3, <1>5, <3>1 DEF ConnectDummy, Pending, Forsaken, Undialed
  <2>2. CASE dial' = [dial EXCEPT ![c].pc = "join"] /\ Goto(c, "attach")
    <3>1. call'[c].pc = "attach" /\ dial'[c].pc = "join"
      BY <1>1, <2>2, GotoAdvances DEF DialType
    <3>2. QED
      BY <1>3, <1>5, <3>1 DEF ConnectDummy, Pending
  <2>3. QED
    BY <1>5, <2>1, <2>2 DEF ConnectDummy
<1>6. CASE ConnectAttach(c)
  <2>1. dial[c].pc = "join"
    BY <1>1, <1>6 DEF ConnectAttach, At, WaitOK
  <2>2. dial'[c].pc = "join" /\ dial'[c].accepted = ~kernel.wired
    BY <1>1, <1>6, <2>1 DEF ConnectAttach, DialType
  <2>3. call'[c].res = AttachErrno(c)
    <3>1. CASE Return(c, AttachErrno(c))
      BY <1>1, <3>1, ReturnAdvances
    <3>2. CASE call' = [call EXCEPT ![c] = [@ EXCEPT !.pc = "wait", !.res = AttachErrno(c)]]
      BY <1>1, <3>2 DEF CallType
    <3>3. QED
      BY <1>6, <3>1, <3>2 DEF ConnectAttach
  <2>4. kernel.wired => AttachErrno(c) = "EISCONN"
    BY DEF AttachErrno
  <2>5. Pending(c)'
    BY <2>2, <2>3, <2>4 DEF Pending, Forsaken, Refused
  <2>6. QED
    BY <1>3, <1>6, <2>5 DEF ConnectAttach
<1>7. CASE ConnectWait(c)
  <2>1. /\ call[c].pc = "wait" /\ dial[c].reply # "none"
        /\ UNCHANGED <<state, dial>>
    BY <1>7 DEF ConnectWait, At
  <2>2. dial[c].pc \notin {"idle", "join", "swap", "reply"}
    BY <1>1, <2>1 DEF DialOK
  <2>3. Pending(c) => dial[c].errno = "ENOSYS"
    BY <2>1, <2>2 DEF Pending, Forsaken, Undialed, Refused
  <2>4. Pending(c) => Pending(c)'
    BY <2>1, <2>3 DEF Pending, Forsaken
  <2>5. QED
    BY <1>3, <2>1, <2>4
<1>8. QED
  BY <1>4, <1>5, <1>6, <1>7

\* A dial is pending until it has replaced the Connecting state.
LEMMA PendingCompletions ==
    ASSUME SocketInv, GoroutineInv, PendingInv, NEW c \in Call, Completion(c)
    PROVE  PendingInv'
<1>1. /\ dial \in [Call -> DialType] /\ DialOK(c) /\ GoroutineOK(c)
  BY Here, ThisConnect DEF GoroutineInv
<1>2. UNCHANGED call
  BY DEF Completion, Join, Resolve, Reply, HangUp, DialUnbind, DialCloseBind
<1>3. \A d \in Call \ {c} : dial'[d] = dial[d]
  BY <1>1 DEF Completion, Join, Resolve, Reply, HangUp, DialUnbind, DialCloseBind
<1>4. ASSUME state' = state, state.by = c => (Pending(c) => Pending(c)')
      PROVE  PendingInv'
  <2> SUFFICES ASSUME state.kind = "connecting"
               PROVE  state'.by \in Call /\ Pending(state.by)'
    BY <1>4 DEF PendingInv
  <2>1. state.by \in Call /\ Pending(state.by)
    BY DEF PendingInv
  <2>2. PICK p \in Call : p = state.by
    BY <2>1
  <2>3. Pending(p)'
    BY <1>2, <1>3, <1>4, <2>1, <2>2, PendingFrame
  <2>4. state'.by = p
    BY <1>4, <2>2
  <2>5. QED
    BY <1>4, <2>2, <2>3, <2>4
<1>5. CASE Join(c)
  <2>1. PICK o \in {"ok", "refused", "unknown"} :
          dial' = [dial EXCEPT ![c] =
            [@ EXCEPT !.pc = IF Unresolved(o) THEN "reply" ELSE "swap",
                      !.next = IF o = "ok" THEN Plain("connected", c)
                               ELSE Passive(dial[c].bind, "ECONNREFUSED", c),
                      !.errno = CASE o = "ok" -> "ok"
                                  [] o = "refused" -> "ECONNREFUSED"
                                  [] o = "unknown" -> "ENOSYS"]]
    BY <1>5, SocketAssumption DEF Join, SocketAssumption
  <2>2. dial'[c].pc = "swap" \/ dial'[c].errno = "ENOSYS"
    BY <1>1, <2>1 DEF DialType, Unresolved
  <2>3. Pending(c)'
    BY <2>2 DEF Pending, Forsaken
  <2>4. QED
    BY <1>4, <1>5, <2>3 DEF Join
<1>6. CASE Resolve(c)
  <2>1. CASE state = Connecting(dial[c].bind, c) /\ state' = dial[c].next
    <3>1. dial[c].next.kind \in {"connected", "passive"}
      BY <1>1, <1>6 DEF Resolve, DialOK, Plain, Passive
    <3>2. QED
      BY <2>1, <3>1 DEF PendingInv
  <2>2. CASE state # Connecting(dial[c].bind, c) /\ UNCHANGED state
    <3>1. state.kind = "closed"
      BY <1>1, <1>6, <2>2 DEF Resolve, GoroutineOK, Underway
    <3>2. QED
      BY <2>2, <3>1 DEF PendingInv
  <2>3. QED
    BY <1>6, <2>1, <2>2 DEF Resolve
<1>7. CASE Reply(c) \/ HangUp(c) \/ DialUnbind(c) \/ DialCloseBind(c)
  <2>1. UNCHANGED state /\ dial[c].pc \in {"reply", "hangup", "unbind", "lock"}
    BY <1>7 DEF Reply, HangUp, DialUnbind, DialCloseBind
  <2>2. dial'[c].errno = dial[c].errno
    BY <1>1, <1>7 DEF Reply, HangUp, DialUnbind, DialCloseBind, DialType
  <2>3. Pending(c) => Undialed(c) \/ dial[c].errno = "ENOSYS"
    BY <1>1, <2>1 DEF Pending, Forsaken, Refused, DialOK
  <2>4. Pending(c) => Pending(c)'
    BY <1>2, <2>2, <2>3 DEF Pending, Forsaken, Undialed
  <2>5. QED
    BY <1>4, <2>1, <2>4
<1>8. QED
  BY <1>5, <1>6, <1>7 DEF Completion

\* The other handlers: their own steps are at other places, and what they
\* publish is not Connecting.
LEMMA PendingHandlers ==
    ASSUME SocketInv, GoroutineInv, PendingInv, NEW c \in Call,
           Apart(c) \/ Finish(c) \/ Aside(c), ~ConnectWait(c)
    PROVE  PendingInv'
<1>1. /\ UNCHANGED dial
      /\ \A d \in Call \ {c} : call'[d] = call[d]
      /\ call[c].pc \notin {"dummy", "attach", "wait", "done"}
  <2>1. CASE Apart(c)
    <3>1. Operate(c) /\ UNCHANGED dial
      BY <2>1, ApartEffect DEF Apart, Operate
    <3>2. call[c].pc \notin {"dummy", "attach", "wait", "done"}
      BY <2>1 DEF Apart, At, Load, EnterBind, GotName, BindEnter, BindPublish, ListenPark,
                  NetListen, ListenUnbind, ListenPublish
    <3>3. QED
      BY <3>1, <3>2, OperateEffect DEF Advanced
  <2>2. CASE Finish(c)
    BY <2>2, FinishEffect DEF Advanced, Finishing, Finish, CloseLoad, CloseEnd,
       CloseReleaseBind, CloseBind, CloseReleaseProxy, CloseReleaseListener
  <2>3. CASE Aside(c)
    BY <2>3, AsideEffect DEF Aside
  <2>4. QED
    BY <2>1, <2>2, <2>3
<1>2. state' = state \/ state'.kind # "connecting"
  <2>1. CASE BindPublish(c)
    <3>1. \E b, e : state' = Passive(b, e, c) \/ state' = state
      BY <2>1 DEF BindPublish
    <3>2. QED
      BY <3>1 DEF Passive
  <2>2. CASE ListenPublish(c) \/ CloseEnd(c)
    BY <2>2 DEF ListenPublish, CloseEnd, Plain
  <2>3. CASE ~(BindPublish(c) \/ ListenPublish(c) \/ CloseEnd(c))
    BY <2>3
    DEF Apart, Finish, Aside, Load, EnterBind, GotName, BindEnter, ListenPark, NetListen,
        ListenUnbind, CloseLoad, CloseReleaseBind, CloseBind, CloseReleaseProxy,
        CloseReleaseListener, Lookup, Enter, DupCreate, DupInstall, Import, CloseMark,
        CloseDrain, CloseRemove
  <2>4. QED
    BY <2>1, <2>2, <2>3
<1>3. CASE state' = state
  BY <1>1, <1>3, PendingKept
<1>4. CASE state'.kind # "connecting"
  BY <1>4 DEF PendingInv
<1>5. QED
  BY <1>2, <1>3, <1>4

LEMMA PendingStep ==
    ASSUME SocketInv, GoroutineInv, WaitInv, PendingInv, [Next]_vars
    PROVE  PendingInv'
<1>1. CASE UNCHANGED <<state, call, dial>>
  BY <1>1 DEF PendingInv, Pending, Forsaken, Undialed, Refused
<1>2. QED
  BY <1>1, PendingConnects, PendingCompletions, PendingHandlers
  DEF Next, Handle, Close, Apart, Finish, Aside, ProxyEnd, ProxyClose, AcceptLoopEnd, vars

\* ConnectingHasDial: whatever calls and closes run beside it, a Connecting
\* state is one that its own connect is still to replace, but for three ends.
THEOREM DialBehindConnecting == Spec => []ConnectingHasDial
<1>1. Init => WaitInv /\ PendingInv
  BY DEF Init, WaitInv, WaitOK, PendingInv, Passive
<1>2. SocketInv /\ LifeInv /\ WaitInv /\ PendingInv /\ [Next]_vars => WaitInv' /\ PendingInv'
  BY WaitStep, PendingStep DEF LifeInv
<1>3. SocketInv /\ LifeInv /\ WaitInv /\ PendingInv => ConnectingHasDial
  <2> SUFFICES ASSUME SocketInv, GoroutineInv, WaitInv, PendingInv, state.kind = "connecting"
               PROVE  /\ state.by \in Call
                      /\ \/ Forsaken(state.by)
                         \/ /\ Replacing(state.by)
                            /\ state = Connecting(dial[state.by].bind, state.by)
    BY DEF ConnectingHasDial, LifeInv
  <2>1. PICK p \in Call : p = state.by
    BY DEF PendingInv
  <2>2. Pending(p) /\ GoroutineOK(p)
    BY <2>1 DEF PendingInv, GoroutineInv
  <2>3. Forsaken(p) \/ Replacing(p)
    BY <2>2 DEF Pending, Replacing, At
  <2>4. Replacing(p) => state = Connecting(dial[p].bind, p)
    BY <2>2 DEF Replacing, At, GoroutineOK, Underway
  <2>5. QED
    BY <2>1, <2>3, <2>4
<1>4. QED
  BY <1>1, <1>2, <1>3, LifeInvariance, PTL DEF Spec
=============================================================================
