--------------------------- MODULE PlaySessionProofs ---------------------------
(***************************************************************************)
(* Proofs about the playback sessions, for every number of widgets, every  *)
(* range of ports and every bound on the plays and the pictures.           *)
(***************************************************************************)
EXTENDS PlaySession, SequenceTheorems, FiniteSetTheorems, TLAPS

-----------------------------------------------------------------------------
(* The inductive invariant.  The properties speak of the session a handler  *)
(* works on only through ui and server, so most of its parts say how far    *)
(* the handler has got with that session.                                   *)

Stopping == {"closeConn", "closeSock", "unwire"}
Playing == {"start", "wire", "invite"}
Opening == {"delete", "open"}

(* A handler works on a widget; where it needs a server object there is     *)
(* one, with a port where it is to play, and where it is to create one      *)
(* there is room for it.                                                    *)
HandlerPlace ==
    /\ ui.at # "idle" => ui.widget \in Widgets
    /\ ui.at \in {"free"} \cup Stopping \cup Playing => Current # 0
    /\ ui.at \in Playing => ui.port \in Ports
    /\ ui.at \in {"scan"} \cup Opening => ui.play
    /\ ui.play /\ ui.at \in {"free"} \cup Stopping \cup Opening => plays < MaxPlays

(* A widget has a server that exists, no two widgets share one, and a       *)
(* server is deleted when no widget has it or is about to get another.      *)
Ownership ==
    /\ \A w \in Widgets : server[w] \in 0..plays
    /\ \A v, w \in Widgets : server[v] = server[w] /\ server[v] # 0 => v = w
    /\ \A s \in 1..plays :
          sess[s].deleted <=> \/ \A w \in Widgets : server[w] # s
                              \/ ui.at = "open" /\ Current = s

(* The thread sets m_bRunning first and clears it last; its socket is       *)
(* closed by then, and without a thread there is one only in onPlay.        *)
ThreadLife ==
    \A s \in 1..plays :
        /\ sess[s].running <=> sess[s].thread \in Alive \ {"starting"}
        /\ sess[s].thread \in {"leaving", "done"} => sess[s].port = 0
        /\ sess[s].thread = "none" /\ sess[s].port # 0 => ui.at = "start" /\ Current = s
        /\ ui.at = "start" /\ Current = s => sess[s].thread = "none"

(* The history variables: stop() has been through its sessions, unwires     *)
(* them, and is the only one to delete sources or to be crossed.            *)
StopHistory ==
    /\ stopped \subseteq 1..plays
    /\ \A s \in stopped : ~sess[s].wired
    /\ ui.at \in Playing => Current \notin stopped
    /\ \A s \in crossed : s \in stopped \/ (ui.at \in {"closeSock", "unwire"} /\ Current = s)
    /\ \A s \in 1..plays :
          sess[s].sources = "freed" => s \in stopped \/ (ui.at \in Stopping /\ Current = s)

(* A user who waits finds no thread in its first instructions, and until    *)
(* his play has started another there is none; what onPlay has deleted has  *)
(* left its port.                                                           *)
Patience ==
    ~hasty => /\ ui.at \notin {"idle", "wire", "invite"}
                    => \A s \in 1..plays : sess[s].thread # "starting"
              /\ ui.at = "open" /\ Current # 0 => sess[Current].port = 0

IInv == /\ SessionTypeOK
        /\ HandlerPlace
        /\ Ownership
        /\ ThreadLife
        /\ StopHistory
        /\ Patience
        /\ ThreadsOutlived
        /\ PortsFreed
        /\ PlayFreesOnce

-----------------------------------------------------------------------------
(* Facts every step needs. *)

(* The session a handler works on is one that exists. *)
LEMMA CurrentExists ==
    ASSUME IInv, ui.at # "idle", Current # 0
    PROVE  /\ Current \in 1..plays /\ Current \in Sessions
           /\ sess[Current] \in Session
           /\ ui.widget \in Widgets
BY PlayAssumption DEF IInv, SessionTypeOK, HandlerPlace, Ownership, Current, Sessions, Widgets

(* Before anything is played nothing can have gone wrong. *)
LEMMA InvInit == Init => IInv
<1> SUFFICES ASSUME Init PROVE IInv
  OBVIOUS
<1> USE PlayAssumption DEF Init, Idle
<1>1. plays = 0 /\ 1..plays = {} /\ DOMAIN sess = {}
  OBVIOUS
<1>2. SessionTypeOK
  <2>1. /\ server \in [Widgets -> 0..MaxPlays] /\ plays \in 0..MaxPlays
        /\ sess \in [1..plays -> Session]
    BY <1>1
  <2>2. ui \in [at : {"idle", "scan", "free", "closeConn", "closeSock", "unwire", "delete",
                     "hung", "open", "start", "wire", "invite"},
               widget : 0..NumWidgets, kind : Kinds, play : BOOLEAN,
               port : {0} \cup Ports]
    BY DEF Kinds
  <2>3. pictures \in Seq(Sessions)
    BY EmptySeq
  <2> QED
    BY <2>1, <2>2, <2>3 DEF SessionTypeOK
<1>3. HandlerPlace /\ Ownership /\ ThreadLife
  BY <1>1 DEF HandlerPlace, Ownership, ThreadLife, Stopping, Playing, Opening
<1>4. StopHistory /\ Patience
  BY <1>1 DEF StopHistory, Patience, Stopping, Playing
<1>5. ThreadsOutlived /\ PortsFreed /\ PlayFreesOnce
  BY <1>1 DEF ThreadsOutlived, PortsFreed, PlayFreesOnce
<1> QED
  BY <1>2, <1>3, <1>4, <1>5 DEF IInv

-----------------------------------------------------------------------------
(* The receiving thread. *)

(* What every step of the thread of session s has in common is enough for   *)
(* the invariant: it leaves the handler of the UI thread alone, keeps       *)
(* m_bRunning until it is over, never opens a socket or deletes a source,   *)
(* and crosses a stop only between the two closes.                          *)
LEMMA ThreadMovePreserves ==
    ASSUME IInv, NEW s \in 1..plays, sess[s].thread \in Alive, NEW new \in Session,
           sess' = [sess EXCEPT ![s] = new],
           new.thread \in (Alive \ {"starting"}) \cup {"done"},
           new.running <=> new.thread # "done",
           new.port \in {0, sess[s].port},
           new.thread \in {"leaving", "done"} => new.port = 0,
           new.wired = sess[s].wired, new.deleted = sess[s].deleted,
           new.sources = "freed" => sess[s].sources = "freed",
           UNCHANGED uiVars, pictures' \in Seq(Sessions), crashed' \in BOOLEAN,
           \/ crossed' = crossed
           \/ crossed' = crossed \cup {s} /\ ui.at = "closeSock" /\ Current = s
    PROVE  IInv'
<1> USE DEF IInv
<1>0. /\ sess \in [1..plays -> Session] /\ plays \in Nat
      /\ server' = server /\ plays' = plays /\ called' = called /\ ui' = ui
      /\ stopped' = stopped /\ hasty' = hasty
      /\ Current' = Current
  BY DEF SessionTypeOK, uiVars, Current
<1>1. /\ sess' \in [1..plays -> Session]
      /\ \A t \in 1..plays : sess'[t] = IF t = s THEN new ELSE sess[t]
      /\ DOMAIN sess = 1..plays /\ DOMAIN sess' = 1..plays
  BY <1>0
<1>2. SessionTypeOK'
  <2>1. crossed' \subseteq stopped \cup {server[w] : w \in Widgets}
    <3>1. ui.at = "closeSock" => ui.widget \in Widgets
      BY DEF HandlerPlace
    <3> QED
      BY <3>1 DEF SessionTypeOK, Current
  <2> QED
    BY <1>0, <1>1, <2>1 DEF SessionTypeOK
<1>3. HandlerPlace'
  BY <1>0 DEF HandlerPlace
<1>4. Ownership'
  BY <1>0, <1>1 DEF Ownership
<1>5. ThreadLife'
  BY <1>0, <1>1 DEF ThreadLife, Alive
<1>6. StopHistory'
  BY <1>0, <1>1 DEF StopHistory
<1>7. Patience'
  BY <1>0, <1>1, CurrentExists DEF Patience, Alive
<1>8. ThreadsOutlived'
  BY <1>0, <1>1 DEF ThreadsOutlived
<1>9. PortsFreed'
  BY <1>0, <1>1 DEF PortsFreed
<1>10. PlayFreesOnce'
  <2>1. ui.at = "free" => Current \in 1..plays
    BY CurrentExists DEF HandlerPlace
  <2> QED
    BY <1>0, <1>1, <2>1 DEF PlayFreesOnce
<1> QED
  BY <1>2, <1>3, <1>4, <1>5, <1>6, <1>7, <1>8, <1>9, <1>10

(* The first instruction of the thread sets m_bRunning. *)
LEMMA ThreadStartsPreserves ==
    ASSUME IInv, NEW s \in Sessions, ThreadStarts(s)
    PROVE  IInv'
<1> USE DEF IInv
<1> DEFINE new == [sess[s] EXCEPT !.running = TRUE,
                        !.thread = IF sess[s].kind = "TCP" THEN "accepting" ELSE "receiving"]
<1>1. /\ s \in 1..plays /\ sess[s] \in Session /\ sess[s].thread \in Alive
      /\ pictures \in Seq(Sessions) /\ crashed \in BOOLEAN
  BY DEF SessionTypeOK, ThreadStarts, Thread, Alive
<1>2. /\ new \in Session
      /\ sess' = [sess EXCEPT ![s] = new]
      /\ new.thread \in (Alive \ {"starting"}) \cup {"done"}
      /\ new.running <=> new.thread # "done"
      /\ new.port \in {0, sess[s].port}
      /\ new.thread \in {"leaving", "done"} => new.port = 0
      /\ new.wired = sess[s].wired /\ new.deleted = sess[s].deleted
      /\ new.sources = "freed" => sess[s].sources = "freed"
  BY <1>1 DEF SessionTypeOK, ThreadLife, ThreadStarts, Thread, Session, Alive
<1>3. /\ UNCHANGED uiVars /\ pictures' \in Seq(Sessions) /\ crashed' \in BOOLEAN
      /\ \/ crossed' = crossed
         \/ crossed' = crossed \cup {s} /\ ui.at = "closeSock" /\ Current = s
  BY <1>1 DEF ThreadStarts, UndefinedIf, Undefined
<1> HIDE DEF new
<1> QED
  BY <1>1, <1>2, <1>3, ThreadMovePreserves

(* accept returns, and may find that stop() is between its closes. *)
LEMMA AcceptPreserves ==
    ASSUME IInv, NEW s \in Sessions, Accept(s)
    PROVE  IInv'
<1> USE DEF IInv
<1> DEFINE new == [sess[s] EXCEPT !.thread = "receiving", !.conn = "open"]
<1>1. /\ s \in 1..plays /\ sess[s] \in Session /\ sess[s].thread \in Alive
      /\ pictures \in Seq(Sessions) /\ crashed \in BOOLEAN
  BY DEF SessionTypeOK, Accept, Thread, Alive
<1>2. /\ new \in Session
      /\ sess' = [sess EXCEPT ![s] = new]
      /\ new.thread \in (Alive \ {"starting"}) \cup {"done"}
      /\ new.running <=> new.thread # "done"
      /\ new.port \in {0, sess[s].port}
      /\ new.thread \in {"leaving", "done"} => new.port = 0
      /\ new.wired = sess[s].wired /\ new.deleted = sess[s].deleted
      /\ new.sources = "freed" => sess[s].sources = "freed"
  BY <1>1 DEF SessionTypeOK, ThreadLife, Accept, Thread, Session, Alive
<1>3. /\ UNCHANGED uiVars /\ pictures' \in Seq(Sessions) /\ crashed' \in BOOLEAN
      /\ \/ crossed' = crossed
         \/ crossed' = crossed \cup {s} /\ ui.at = "closeSock" /\ Current = s
  BY <1>1 DEF Accept, UndefinedIf, Undefined
<1> HIDE DEF new
<1> QED
  BY <1>1, <1>2, <1>3, ThreadMovePreserves

(* accept or recv fails on a closed handle. *)
LEMMA HandleClosedPreserves ==
    ASSUME IInv, NEW s \in Sessions, HandleClosed(s)
    PROVE  IInv'
<1> USE DEF IInv
<1> DEFINE new == [sess[s] EXCEPT !.thread = "closing"]
<1>1. /\ s \in 1..plays /\ sess[s] \in Session /\ sess[s].thread \in Alive
      /\ pictures \in Seq(Sessions) /\ crashed \in BOOLEAN
  BY DEF SessionTypeOK, HandleClosed, Thread, Alive
<1>2. /\ new \in Session
      /\ sess' = [sess EXCEPT ![s] = new]
      /\ new.thread \in (Alive \ {"starting"}) \cup {"done"}
      /\ new.running <=> new.thread # "done"
      /\ new.port \in {0, sess[s].port}
      /\ new.thread \in {"leaving", "done"} => new.port = 0
      /\ new.wired = sess[s].wired /\ new.deleted = sess[s].deleted
      /\ new.sources = "freed" => sess[s].sources = "freed"
  BY <1>1 DEF SessionTypeOK, ThreadLife, HandleClosed, Thread, Session, Alive
<1>3. /\ UNCHANGED uiVars /\ pictures' \in Seq(Sessions) /\ crashed' \in BOOLEAN
      /\ \/ crossed' = crossed
         \/ crossed' = crossed \cup {s} /\ ui.at = "closeSock" /\ Current = s
  BY <1>1 DEF HandleClosed, UndefinedIf, Undefined
<1> HIDE DEF new
<1> QED
  BY <1>1, <1>2, <1>3, ThreadMovePreserves

(* The camera resets the connection. *)
LEMMA ConnectionResetPreserves ==
    ASSUME IInv, NEW s \in Sessions, ConnectionReset(s)
    PROVE  IInv'
<1> USE DEF IInv
<1> DEFINE new == [sess[s] EXCEPT !.thread = "closing"]
<1>1. /\ s \in 1..plays /\ sess[s] \in Session /\ sess[s].thread \in Alive
      /\ pictures \in Seq(Sessions) /\ crashed \in BOOLEAN
  BY DEF SessionTypeOK, ConnectionReset, Thread, Alive
<1>2. /\ new \in Session
      /\ sess' = [sess EXCEPT ![s] = new]
      /\ new.thread \in (Alive \ {"starting"}) \cup {"done"}
      /\ new.running <=> new.thread # "done"
      /\ new.port \in {0, sess[s].port}
      /\ new.thread \in {"leaving", "done"} => new.port = 0
      /\ new.wired = sess[s].wired /\ new.deleted = sess[s].deleted
      /\ new.sources = "freed" => sess[s].sources = "freed"
  BY <1>1 DEF SessionTypeOK, ThreadLife, ConnectionReset, Thread, Session, Alive
<1>3. /\ UNCHANGED uiVars /\ pictures' \in Seq(Sessions) /\ crashed' \in BOOLEAN
      /\ \/ crossed' = crossed
         \/ crossed' = crossed \cup {s} /\ ui.at = "closeSock" /\ Current = s
  BY <1>1 DEF ConnectionReset, UndefinedIf, Undefined
<1> HIDE DEF new
<1> QED
  BY <1>1, <1>2, <1>3, ThreadMovePreserves

(* A packet is in; a source is only added where there is none. *)
LEMMA ReceivePreserves ==
    ASSUME IInv, NEW s \in Sessions, Receive(s)
    PROVE  IInv'
<1> USE DEF IInv
<1> DEFINE new == [sess[s] EXCEPT !.thread = "parsing",
                        !.sources = IF @ = "none" THEN "held" ELSE @]
<1>1. /\ s \in 1..plays /\ sess[s] \in Session /\ sess[s].thread \in Alive
      /\ pictures \in Seq(Sessions) /\ crashed \in BOOLEAN
  BY DEF SessionTypeOK, Receive, Thread, Alive
<1>2. /\ new \in Session
      /\ sess' = [sess EXCEPT ![s] = new]
      /\ new.thread \in (Alive \ {"starting"}) \cup {"done"}
      /\ new.running <=> new.thread # "done"
      /\ new.port \in {0, sess[s].port}
      /\ new.thread \in {"leaving", "done"} => new.port = 0
      /\ new.wired = sess[s].wired /\ new.deleted = sess[s].deleted
      /\ new.sources = "freed" => sess[s].sources = "freed"
  BY <1>1 DEF SessionTypeOK, ThreadLife, Receive, Thread, Session, Alive
<1>3. /\ UNCHANGED uiVars /\ pictures' \in Seq(Sessions) /\ crashed' \in BOOLEAN
      /\ \/ crossed' = crossed
         \/ crossed' = crossed \cup {s} /\ ui.at = "closeSock" /\ Current = s
  BY <1>1 DEF Receive, UndefinedIf, Undefined
<1> HIDE DEF new
<1> QED
  BY <1>1, <1>2, <1>3, ThreadMovePreserves

(* What the parser does to the queue keeps it a queue of sessions. *)
LEMMA ParsedQueue ==
    ASSUME IInv, NEW s \in Sessions, Parsed(s)
    PROVE  /\ pictures' \in Seq(Sessions) /\ crashed' \in BOOLEAN
           /\ UNCHANGED uiVars /\ crossed' = crossed
<1>1. pictures \in Seq(Sessions) /\ crashed \in BOOLEAN
  BY DEF IInv, SessionTypeOK
<1>2. Append(pictures, s) \in Seq(Sessions)
  BY <1>1, AppendProperties
<1> QED
  BY <1>1, <1>2 DEF Parsed, UndefinedIf, Undefined

(* The parser is through with what recv brought. *)
LEMMA ParseLastPreserves ==
    ASSUME IInv, NEW s \in Sessions, ParseLast(s)
    PROVE  IInv'
<1> USE DEF IInv
<1> DEFINE new == [sess[s] EXCEPT !.thread = "receiving"]
<1>1. /\ s \in 1..plays /\ sess[s] \in Session /\ sess[s].thread \in Alive
      /\ pictures \in Seq(Sessions) /\ crashed \in BOOLEAN
  BY DEF SessionTypeOK, ParseLast, Thread, Alive
<1>2. /\ new \in Session
      /\ sess' = [sess EXCEPT ![s] = new]
      /\ new.thread \in (Alive \ {"starting"}) \cup {"done"}
      /\ new.running <=> new.thread # "done"
      /\ new.port \in {0, sess[s].port}
      /\ new.thread \in {"leaving", "done"} => new.port = 0
      /\ new.wired = sess[s].wired /\ new.deleted = sess[s].deleted
      /\ new.sources = "freed" => sess[s].sources = "freed"
  BY <1>1 DEF SessionTypeOK, ThreadLife, ParseLast, Thread, Session, Alive
<1>3. /\ UNCHANGED uiVars /\ pictures' \in Seq(Sessions) /\ crashed' \in BOOLEAN
      /\ \/ crossed' = crossed
         \/ crossed' = crossed \cup {s} /\ ui.at = "closeSock" /\ Current = s
  BY ParsedQueue DEF ParseLast
<1> HIDE DEF new
<1> QED
  BY <1>1, <1>2, <1>3, ThreadMovePreserves

(* The parser goes on with the same bytes: only the queue changes. *)
LEMMA ParseOneOfManyPreserves ==
    ASSUME IInv, NEW s \in Sessions, ParseOneOfMany(s)
    PROVE  IInv'
<1> USE DEF IInv
<1> DEFINE new == sess[s]
<1>1. /\ s \in 1..plays /\ sess[s] \in Session /\ sess[s].thread \in Alive
      /\ pictures \in Seq(Sessions) /\ crashed \in BOOLEAN
  BY DEF SessionTypeOK, ParseOneOfMany, Thread, Alive
<1>2. /\ new \in Session
      /\ sess' = [sess EXCEPT ![s] = new]
      /\ new.thread \in (Alive \ {"starting"}) \cup {"done"}
      /\ new.running <=> new.thread # "done"
      /\ new.port \in {0, sess[s].port}
      /\ new.thread \in {"leaving", "done"} => new.port = 0
      /\ new.wired = sess[s].wired /\ new.deleted = sess[s].deleted
      /\ new.sources = "freed" => sess[s].sources = "freed"
  BY <1>1 DEF SessionTypeOK, ThreadLife, ParseOneOfMany, Thread, Session, Alive
<1>3. /\ UNCHANGED uiVars /\ pictures' \in Seq(Sessions) /\ crashed' \in BOOLEAN
      /\ \/ crossed' = crossed
         \/ crossed' = crossed \cup {s} /\ ui.at = "closeSock" /\ Current = s
  BY ParsedQueue DEF ParseOneOfMany
<1> HIDE DEF new
<1> QED
  BY <1>1, <1>2, <1>3, ThreadMovePreserves

(* The thread closes its sockets before it leaves. *)
LEMMA CloseSocketsPreserves ==
    ASSUME IInv, NEW s \in Sessions, CloseSockets(s)
    PROVE  IInv'
<1> USE DEF IInv
<1> DEFINE new == [sess[s] EXCEPT !.thread = "leaving", !.port = 0,
                        !.conn = IF @ = "open" THEN "closed" ELSE @]
<1>1. /\ s \in 1..plays /\ sess[s] \in Session /\ sess[s].thread \in Alive
      /\ pictures \in Seq(Sessions) /\ crashed \in BOOLEAN
  BY DEF SessionTypeOK, CloseSockets, Thread, Alive
<1>2. /\ new \in Session
      /\ sess' = [sess EXCEPT ![s] = new]
      /\ new.thread \in (Alive \ {"starting"}) \cup {"done"}
      /\ new.running <=> new.thread # "done"
      /\ new.port \in {0, sess[s].port}
      /\ new.thread \in {"leaving", "done"} => new.port = 0
      /\ new.wired = sess[s].wired /\ new.deleted = sess[s].deleted
      /\ new.sources = "freed" => sess[s].sources = "freed"
  BY <1>1 DEF SessionTypeOK, ThreadLife, CloseSockets, Thread, Session, Alive
<1>3. /\ UNCHANGED uiVars /\ pictures' \in Seq(Sessions) /\ crashed' \in BOOLEAN
      /\ \/ crossed' = crossed
         \/ crossed' = crossed \cup {s} /\ ui.at = "closeSock" /\ Current = s
  BY <1>1 DEF CloseSockets, UndefinedIf, Undefined
<1> HIDE DEF new
<1> QED
  BY <1>1, <1>2, <1>3, ThreadMovePreserves

(* The last instruction of the thread clears m_bRunning. *)
LEMMA LeavePreserves ==
    ASSUME IInv, NEW s \in Sessions, Leave(s)
    PROVE  IInv'
<1> USE DEF IInv
<1> DEFINE new == [sess[s] EXCEPT !.thread = "done", !.running = FALSE]
<1>1. /\ s \in 1..plays /\ sess[s] \in Session /\ sess[s].thread \in Alive
      /\ pictures \in Seq(Sessions) /\ crashed \in BOOLEAN
  BY DEF SessionTypeOK, Leave, Thread, Alive
<1>2. /\ new \in Session
      /\ sess' = [sess EXCEPT ![s] = new]
      /\ new.thread \in (Alive \ {"starting"}) \cup {"done"}
      /\ new.running <=> new.thread # "done"
      /\ new.port \in {0, sess[s].port}
      /\ new.thread \in {"leaving", "done"} => new.port = 0
      /\ new.wired = sess[s].wired /\ new.deleted = sess[s].deleted
      /\ new.sources = "freed" => sess[s].sources = "freed"
  BY <1>1 DEF SessionTypeOK, ThreadLife, Leave, Thread, Session, Alive
<1>3. /\ UNCHANGED uiVars /\ pictures' \in Seq(Sessions) /\ crashed' \in BOOLEAN
      /\ \/ crossed' = crossed
         \/ crossed' = crossed \cup {s} /\ ui.at = "closeSock" /\ Current = s
  BY <1>1 DEF Leave, UndefinedIf, Undefined
<1> HIDE DEF new
<1> QED
  BY <1>1, <1>2, <1>3, ThreadMovePreserves

-----------------------------------------------------------------------------
(* The UI thread. *)

(* The states the UI thread can be in, as SessionTypeOK spells them. *)
UiState == [at : {"idle", "scan", "free", "closeConn", "closeSock", "unwire", "delete",
                  "hung", "open", "start", "wire", "invite"},
            widget : 0..NumWidgets, kind : Kinds, play : BOOLEAN, port : {0} \cup Ports]

(* The UI thread is between two handlers. *)
LEMMA IdleType == Idle \in UiState
<1>1. /\ Idle.at = "idle" /\ Idle.widget = 0 /\ Idle.kind = "UDP"
      /\ Idle.play = FALSE /\ Idle.port = 0
  BY DEF Idle
<1>2. "UDP" \in Kinds /\ 0 \in 0..NumWidgets
  BY PlayAssumption DEF Kinds
<1> QED
  BY <1>2 DEF Idle, UiState

(* A click of a user who waits finds every thread started or over. *)
LEMMA ClickWaits ==
    ASSUME Click, hasty \in BOOLEAN
    PROVE  /\ hasty' \in BOOLEAN
           /\ ~hasty' => ~hasty /\ Settled
           /\ ui.at = "idle"
BY DEF Click

(* Steps that leave the sessions alone keep their types. *)
LEMMA TypesKept ==
    ASSUME SessionTypeOK, ui' \in UiState, hasty' \in BOOLEAN, crashed' \in BOOLEAN,
           pictures' \in Seq(Sessions), called' \subseteq Ports \X Kinds,
           UNCHANGED <<server, plays, sess, stopped, crossed>>
    PROVE  SessionTypeOK'
BY DEF SessionTypeOK, UiState

(* onPlay into the selected widget: nothing of a session has changed yet,   *)
(* and a user who waited knows that every thread has started or is over.    *)
LEMMA PlaySelectedPreserves ==
    ASSUME IInv, NEW w \in Selectable, NEW k \in Kinds, PlaySelected(w, k)
    PROVE  IInv'
<1> USE DEF IInv
<1>0. /\ sess' = sess /\ plays' = plays /\ server' = server /\ called' = called
      /\ pictures' = pictures /\ crashed' = crashed /\ stopped' = stopped /\ crossed' = crossed
      /\ ui' = [at |-> IF IsRunning(w) THEN "free" ELSE "delete",
                widget |-> w, kind |-> k, play |-> TRUE, port |-> 0]
      /\ ui.at = "idle" /\ w \in Widgets /\ plays < MaxPlays /\ plays \in Nat
      /\ Current' = server[w] /\ server[w] \in 0..plays
      /\ ui'.at = "free" => server[w] # 0 /\ sess[server[w]].running
      /\ sess \in [1..plays -> Session] /\ DOMAIN sess = 1..plays
      /\ hasty' \in BOOLEAN /\ (~hasty' => ~hasty /\ Settled)
  <2>1. Click
    BY DEF PlaySelected
  <2>2. w \in Widgets /\ server[w] \in 0..plays /\ plays \in Nat
    BY PlayAssumption DEF PlaySelected, SessionTypeOK, Ownership, Selectable, NotSelected
  <2> QED
    BY <2>1, <2>2, ClickWaits DEF PlaySelected, SessionTypeOK, Current, IsRunning
<1>1. SessionTypeOK'
  <2>1. ui' \in UiState
    BY <1>0 DEF UiState, Widgets
  <2> QED
    BY <1>0, <2>1, TypesKept DEF SessionTypeOK
<1>2. HandlerPlace'
  BY <1>0 DEF HandlerPlace, Stopping, Playing, Opening, Settled, Alive
<1>3. Ownership'
  BY <1>0 DEF Ownership, Settled, Alive
<1>4. ThreadLife'
  BY <1>0 DEF ThreadLife, Settled, Alive
<1>5. StopHistory'
  BY <1>0 DEF StopHistory, Stopping, Playing, Settled, Alive
<1>6. Patience'
  BY <1>0 DEF Patience, Settled, Alive
<1>7. ThreadsOutlived'
  BY <1>0 DEF ThreadsOutlived, Settled, Alive
<1>8. PortsFreed'
  BY <1>0 DEF PortsFreed, Settled, Alive
<1>9. PlayFreesOnce'
  BY <1>0 DEF PlayFreesOnce, StopHistory, ThreadLife, Stopping, Settled, Alive
<1> QED
  BY <1>1, <1>2, <1>3, <1>4, <1>5, <1>6, <1>7, <1>8, <1>9

(* onPlay without a selection starts its scan. *)
LEMMA PlayAnywherePreserves ==
    ASSUME IInv, NEW w \in Selectable, NEW k \in Kinds, PlayAnywhere(w, k)
    PROVE  IInv'
<1> USE DEF IInv
<1>0. /\ sess' = sess /\ plays' = plays /\ server' = server /\ called' = called
      /\ pictures' = pictures /\ crashed' = crashed /\ stopped' = stopped /\ crossed' = crossed
      /\ ui' = [at |-> "scan", widget |-> 1, kind |-> k, play |-> TRUE, port |-> 0]
      /\ ui.at = "idle" /\ 1 \in Widgets /\ plays \in Nat
      /\ sess \in [1..plays -> Session] /\ DOMAIN sess = 1..plays
      /\ hasty' \in BOOLEAN /\ (~hasty' => ~hasty /\ Settled)
  <2>1. Click
    BY DEF PlayAnywhere
  <2>2. 1 \in Widgets /\ plays \in Nat
    BY PlayAssumption DEF SessionTypeOK, Widgets
  <2> QED
    BY <2>1, <2>2, ClickWaits DEF PlayAnywhere, SessionTypeOK
<1>1. SessionTypeOK'
  <2>1. ui' \in UiState
    BY <1>0 DEF UiState, Widgets
  <2> QED
    BY <1>0, <2>1, TypesKept DEF SessionTypeOK
<1>2. HandlerPlace'
  BY <1>0 DEF HandlerPlace, Stopping, Playing, Opening, Settled
<1>3. Ownership'
  BY <1>0 DEF Ownership, Settled
<1>4. ThreadLife'
  BY <1>0 DEF ThreadLife, Settled
<1>5. StopHistory'
  BY <1>0 DEF StopHistory, Stopping, Playing, Settled
<1>6. Patience'
  BY <1>0 DEF Patience, Settled
<1>7. ThreadsOutlived'
  BY <1>0 DEF ThreadsOutlived, Settled
<1>8. PortsFreed'
  BY <1>0 DEF PortsFreed, Settled
<1>9. PlayFreesOnce'
  BY <1>0 DEF PlayFreesOnce, Settled
<1> QED
  BY <1>1, <1>2, <1>3, <1>4, <1>5, <1>6, <1>7, <1>8, <1>9

(* The scan goes on, finds a widget that is not running, or gives up. *)
LEMMA ScanWidgetPreserves ==
    ASSUME IInv, ScanWidget
    PROVE  IInv'
<1> USE DEF IInv
<1>0. /\ sess' = sess /\ plays' = plays /\ server' = server
      /\ stopped' = stopped /\ crossed' = crossed
      /\ sess \in [1..plays -> Session] /\ DOMAIN sess = 1..plays
      /\ called' = called /\ pictures' = pictures /\ crashed' = crashed /\ hasty' = hasty
      /\ ui.at = "scan" /\ ui.widget \in Widgets /\ plays \in 0..MaxPlays
      /\ \/ ui' = [ui EXCEPT !.at = "delete"] /\ ui'.at = "delete" /\ ui'.widget \in Widgets
            /\ ui'.play = ui.play /\ plays < MaxPlays
         \/ ui' = [ui EXCEPT !.widget = @ + 1] /\ ui'.at = "scan" /\ ui'.widget \in Widgets
            /\ ui'.play = ui.play
         \/ ui' = Idle /\ ui'.at = "idle" /\ ui'.play = FALSE
  <2>1. ui.at = "scan" /\ ui.widget \in Widgets
    BY DEF ScanWidget, At, HandlerPlace
  <2> QED
    BY <2>1, PlayAssumption DEF ScanWidget, At, SessionTypeOK, Busy, Idle, Widgets
<1>1. SessionTypeOK'
  <2>1. ui' \in UiState
    BY <1>0, IdleType DEF SessionTypeOK, UiState, Widgets
  <2> QED
    BY <1>0, <2>1, TypesKept DEF SessionTypeOK
<1>2. HandlerPlace'
  BY <1>0 DEF HandlerPlace, Stopping, Playing, Opening
<1>3. Ownership'
  BY <1>0 DEF Ownership
<1>4. ThreadLife'
  BY <1>0 DEF ThreadLife
<1>5. StopHistory'
  BY <1>0 DEF StopHistory, Stopping, Playing
<1>6. Patience'
  BY <1>0 DEF Patience
<1>7. ThreadsOutlived'
  BY <1>0 DEF ThreadsOutlived
<1>8. PortsFreed'
  BY <1>0 DEF PortsFreed
<1>9. PlayFreesOnce'
  BY <1>0 DEF PlayFreesOnce
<1> QED
  BY <1>1, <1>2, <1>3, <1>4, <1>5, <1>6, <1>7, <1>8, <1>9

(* onStop calls stop() of a server that exists, or the process ends. *)
LEMMA OnStopPreserves ==
    ASSUME IInv, NEW w \in Selectable, OnStop(w)
    PROVE  IInv'
<1> USE DEF IInv
<1>0. /\ sess' = sess /\ plays' = plays /\ server' = server
      /\ stopped' = stopped /\ crossed' = crossed
      /\ sess \in [1..plays -> Session] /\ DOMAIN sess = 1..plays
      /\ called' = called /\ pictures' = pictures /\ crashed' \in BOOLEAN
      /\ ui.at = "idle" /\ w \in Widgets /\ plays \in Nat
      /\ \/ ui' = ui
         \/ /\ ui' = [at |-> "free", widget |-> w, kind |-> "UDP", play |-> FALSE, port |-> 0]
            /\ ui'.at = "free" /\ ui'.widget = w /\ ui'.play = FALSE
            /\ Current' = server[w] /\ server[w] # 0
      /\ hasty' \in BOOLEAN /\ (~hasty' => ~hasty /\ Settled)
  <2>1. Click
    BY DEF OnStop
  <2>2. w \in Widgets /\ plays \in Nat
    BY DEF OnStop, SessionTypeOK, Selectable, NotSelected
  <2> QED
    BY <2>1, <2>2, ClickWaits DEF OnStop, SessionTypeOK, Current, Idle
<1>1. SessionTypeOK'
  <2>1. ui \in UiState
    BY DEF SessionTypeOK, UiState
  <2>2. "UDP" \in Kinds /\ w \in 0..NumWidgets
    BY <1>0 DEF Kinds, Widgets
  <2>3. [at |-> "free", widget |-> w, kind |-> "UDP", play |-> FALSE, port |-> 0] \in UiState
    BY <2>2 DEF UiState
  <2>4. ui' \in UiState
    BY <1>0, <2>1, <2>3
  <2> QED
    BY <1>0, <2>4, TypesKept DEF SessionTypeOK
<1>2. HandlerPlace'
  BY <1>0 DEF HandlerPlace, Stopping, Playing, Opening, Settled
<1>3. Ownership'
  BY <1>0 DEF Ownership, Settled
<1>4. ThreadLife'
  BY <1>0 DEF ThreadLife, Settled
<1>5. StopHistory'
  BY <1>0 DEF StopHistory, Stopping, Playing, Settled
<1>6. Patience'
  BY <1>0 DEF Patience, Settled
<1>7. ThreadsOutlived'
  BY <1>0 DEF ThreadsOutlived, Settled
<1>8. PortsFreed'
  BY <1>0 DEF PortsFreed, Settled
<1>9. PlayFreesOnce'
  BY <1>0 DEF PlayFreesOnce, Settled
<1> QED
  BY <1>1, <1>2, <1>3, <1>4, <1>5, <1>6, <1>7, <1>8, <1>9

(* The camera is invited, or the channel is gone; the handler is over. *)
LEMMA InvitePreserves ==
    ASSUME IInv, Invite
    PROVE  IInv'
<1> USE DEF IInv
<1>0. /\ sess' = sess /\ plays' = plays /\ server' = server
      /\ stopped' = stopped /\ crossed' = crossed
      /\ sess \in [1..plays -> Session] /\ DOMAIN sess = 1..plays
      /\ called' \subseteq Ports \X Kinds
      /\ pictures' = pictures /\ crashed' = crashed /\ hasty' = hasty
      /\ ui.at = "invite" /\ ui' = Idle /\ ui'.at = "idle" /\ ui'.play = FALSE
  <2>1. ui.at = "invite" /\ Current \in 1..plays
    BY CurrentExists DEF Invite, At, HandlerPlace, Playing
  <2>2. ui.port \in Ports /\ ui.kind \in Kinds
    BY <2>1 DEF SessionTypeOK, HandlerPlace, Playing
  <2> QED
    BY <2>1, <2>2 DEF Invite, SessionTypeOK, Idle
<1>1. SessionTypeOK'
  <2>1. ui' \in UiState
    BY <1>0, IdleType DEF SessionTypeOK, UiState, Widgets
  <2> QED
    BY <1>0, <2>1, TypesKept DEF SessionTypeOK
<1>2. HandlerPlace'
  BY <1>0 DEF HandlerPlace, Stopping, Playing, Opening
<1>3. Ownership'
  BY <1>0 DEF Ownership
<1>4. ThreadLife'
  BY <1>0 DEF ThreadLife
<1>5. StopHistory'
  BY <1>0 DEF StopHistory, Stopping, Playing
<1>6. Patience'
  BY <1>0 DEF Patience
<1>7. ThreadsOutlived'
  BY <1>0 DEF ThreadsOutlived
<1>8. PortsFreed'
  BY <1>0 DEF PortsFreed
<1>9. PlayFreesOnce'
  BY <1>0 DEF PlayFreesOnce
<1> QED
  BY <1>1, <1>2, <1>3, <1>4, <1>5, <1>6, <1>7, <1>8, <1>9

(* The destructor spins for ever. *)
LEMMA SpinForeverPreserves ==
    ASSUME IInv, SpinForever
    PROVE  IInv'
<1> USE DEF IInv
<1>0. /\ sess' = sess /\ plays' = plays /\ server' = server
      /\ stopped' = stopped /\ crossed' = crossed
      /\ sess \in [1..plays -> Session] /\ DOMAIN sess = 1..plays
      /\ called' = called /\ pictures' = pictures /\ crashed' = crashed /\ hasty' = hasty
      /\ ui.at = "delete" /\ ui.widget \in Widgets /\ plays \in Nat
      /\ ui' = [ui EXCEPT !.at = "hung"] /\ ui'.at = "hung" /\ ui'.widget = ui.widget
      /\ Current' = Current
  BY DEF SpinForever, At, GoTo, SessionTypeOK, HandlerPlace, Current
<1>1. SessionTypeOK'
  <2>1. ui' \in UiState
    BY <1>0 DEF SessionTypeOK, UiState, Widgets
  <2> QED
    BY <1>0, <2>1, TypesKept DEF SessionTypeOK
<1>2. HandlerPlace'
  BY <1>0 DEF HandlerPlace, Stopping, Playing, Opening
<1>3. Ownership'
  BY <1>0 DEF Ownership
<1>4. ThreadLife'
  BY <1>0 DEF ThreadLife
<1>5. StopHistory'
  BY <1>0 DEF StopHistory, Stopping, Playing
<1>6. Patience'
  BY <1>0 DEF Patience
<1>7. ThreadsOutlived'
  BY <1>0 DEF ThreadsOutlived
<1>8. PortsFreed'
  BY <1>0 DEF PortsFreed
<1>9. PlayFreesOnce'
  BY <1>0 DEF PlayFreesOnce
<1> QED
  BY <1>1, <1>2, <1>3, <1>4, <1>5, <1>6, <1>7, <1>8, <1>9

(* The event loop delivers a picture. *)
LEMMA SetVideoFramePreserves ==
    ASSUME IInv, SetVideoFrame
    PROVE  IInv'
<1> USE DEF IInv
<1>0. /\ sess' = sess /\ plays' = plays /\ server' = server
      /\ stopped' = stopped /\ crossed' = crossed
      /\ sess \in [1..plays -> Session] /\ DOMAIN sess = 1..plays
      /\ called' = called /\ pictures' \in Seq(Sessions) /\ crashed' = crashed /\ hasty' = hasty
      /\ ui' = ui /\ Current' = Current
  <2>1. pictures # <<>> => Tail(pictures) \in Seq(Sessions)
    BY HeadTailProperties DEF SessionTypeOK
  <2> QED
    BY <2>1 DEF SetVideoFrame, SessionTypeOK, Current
<1>1. SessionTypeOK'
  <2>1. ui' \in UiState
    BY <1>0 DEF SessionTypeOK, UiState, Widgets
  <2> QED
    BY <1>0, <2>1, TypesKept DEF SessionTypeOK
<1>2. HandlerPlace'
  BY <1>0 DEF HandlerPlace, Stopping, Playing, Opening
<1>3. Ownership'
  BY <1>0 DEF Ownership
<1>4. ThreadLife'
  BY <1>0 DEF ThreadLife
<1>5. StopHistory'
  BY <1>0 DEF StopHistory, Stopping, Playing
<1>6. Patience'
  BY <1>0 DEF Patience
<1>7. ThreadsOutlived'
  BY <1>0 DEF ThreadsOutlived
<1>8. PortsFreed'
  BY <1>0 DEF PortsFreed
<1>9. PlayFreesOnce'
  BY <1>0 DEF PlayFreesOnce
<1> QED
  BY <1>1, <1>2, <1>3, <1>4, <1>5, <1>6, <1>7, <1>8, <1>9

(* A handler that changes one field of the session it works on, or none. *)
LEMMA OneSession ==
    ASSUME IInv, ui.at # "idle", Current # 0, NEW new \in Session,
           sess' = [sess EXCEPT ![Current] = new]
    PROVE  /\ sess \in [1..plays -> Session] /\ DOMAIN sess = 1..plays
           /\ sess' \in [1..plays -> Session] /\ DOMAIN sess' = 1..plays
           /\ Current \in 1..plays /\ ui.widget \in Widgets
           /\ \A s \in 1..plays : sess'[s] = IF s = Current THEN new ELSE sess[s]
BY CurrentExists DEF IInv, SessionTypeOK

(* stop() deletes the sources and leaves the pointers to them. *)
LEMMA StopFreePreserves ==
    ASSUME IInv, StopFree
    PROVE  IInv'
<1> USE DEF IInv
<1> DEFINE new == [sess[Current] EXCEPT !.sources = IF @ = "none" THEN "none" ELSE "freed"]
<1>a. /\ ui.at = "free" /\ Current # 0
      /\ Current \in 1..plays /\ Current \in Sessions /\ sess[Current] \in Session
      /\ sess \in [1..plays -> Session]
  BY CurrentExists DEF StopFree, At, HandlerPlace, Stopping, Playing, SessionTypeOK
<1>b. /\ new \in Session
      /\ new.thread = sess[Current].thread /\ new.running = sess[Current].running
      /\ new.port = sess[Current].port /\ new.wired = sess[Current].wired
      /\ new.deleted = sess[Current].deleted
      /\ sess' = [sess EXCEPT ![Current] = new]
  BY <1>a DEF StopFree, Session, ThreadLife, Alive
<1>c. /\ sess \in [1..plays -> Session] /\ DOMAIN sess = 1..plays
      /\ sess' \in [1..plays -> Session] /\ DOMAIN sess' = 1..plays
      /\ Current \in 1..plays /\ ui.widget \in Widgets
      /\ \A s \in 1..plays : sess'[s] = IF s = Current THEN new ELSE sess[s]
  <2> HIDE DEF new
  <2> QED
    BY <1>a, <1>b, OneSession
<1> HIDE DEF new
<1>d. /\ plays' = plays /\ server' = server /\ stopped' = stopped /\ crossed' = crossed
      /\ called' = called /\ pictures' = pictures /\ crashed' \in BOOLEAN /\ hasty' = hasty
      /\ ui' = [ui EXCEPT !.at = ui'.at] /\ ui'.widget = ui.widget /\ ui'.play = ui.play
      /\ ui'.at \in {"closeConn", "closeSock"} /\ Current' = Current /\ ui'.port = ui.port
  BY <1>a DEF StopFree, At, GoTo, UndefinedIf, Undefined, Current, SessionTypeOK, Idle
<1>1. SessionTypeOK'
  <2>1. ui' \in UiState
    BY <1>d, IdleType DEF SessionTypeOK, UiState
  <2> QED
    BY <1>a, <1>c, <1>d, <2>1 DEF SessionTypeOK, UiState
<1>2. HandlerPlace'
  BY <1>a, <1>b, <1>c, <1>d DEF HandlerPlace, Stopping, Playing, Opening
<1>3. Ownership'
  BY <1>a, <1>b, <1>c, <1>d DEF Ownership
<1>4. ThreadLife'
  BY <1>a, <1>b, <1>c, <1>d DEF ThreadLife
<1>5. StopHistory'
  BY <1>a, <1>b, <1>c, <1>d DEF StopHistory, Stopping, Playing
<1>6. Patience'
  BY <1>a, <1>b, <1>c, <1>d DEF Patience
<1>7. ThreadsOutlived'
  BY <1>a, <1>b, <1>c, <1>d DEF ThreadsOutlived
<1>8. PortsFreed'
  BY <1>a, <1>b, <1>c, <1>d DEF PortsFreed
<1>9. PlayFreesOnce'
  BY <1>a, <1>b, <1>c, <1>d DEF PlayFreesOnce
<1> QED
  BY <1>1, <1>2, <1>3, <1>4, <1>5, <1>6, <1>7, <1>8, <1>9

(* stop() closes the connection. *)
LEMMA StopCloseConnPreserves ==
    ASSUME IInv, StopCloseConn
    PROVE  IInv'
<1> USE DEF IInv
<1> DEFINE new == [sess[Current] EXCEPT !.conn = IF @ = "open" THEN "closed" ELSE @]
<1>a. /\ ui.at = "closeConn" /\ Current # 0
      /\ Current \in 1..plays /\ Current \in Sessions /\ sess[Current] \in Session
      /\ sess \in [1..plays -> Session]
  BY CurrentExists DEF StopCloseConn, At, HandlerPlace, Stopping, Playing, SessionTypeOK
<1>b. /\ new \in Session
      /\ new.thread = sess[Current].thread /\ new.running = sess[Current].running
      /\ new.port = sess[Current].port /\ new.sources = sess[Current].sources
      /\ new.wired = sess[Current].wired /\ new.deleted = sess[Current].deleted
      /\ sess' = [sess EXCEPT ![Current] = new]
  BY <1>a DEF StopCloseConn, Session, ThreadLife, Alive
<1>c. /\ sess \in [1..plays -> Session] /\ DOMAIN sess = 1..plays
      /\ sess' \in [1..plays -> Session] /\ DOMAIN sess' = 1..plays
      /\ Current \in 1..plays /\ ui.widget \in Widgets
      /\ \A s \in 1..plays : sess'[s] = IF s = Current THEN new ELSE sess[s]
  <2> HIDE DEF new
  <2> QED
    BY <1>a, <1>b, OneSession
<1> HIDE DEF new
<1>d. /\ plays' = plays /\ server' = server /\ stopped' = stopped /\ crossed' = crossed
      /\ called' = called /\ pictures' = pictures /\ crashed' = crashed /\ hasty' = hasty
      /\ ui' = [ui EXCEPT !.at = "closeSock"] /\ ui'.widget = ui.widget /\ ui'.play = ui.play
      /\ ui'.at = "closeSock" /\ Current' = Current /\ ui'.port = ui.port
  BY <1>a DEF StopCloseConn, At, GoTo, UndefinedIf, Undefined, Current, SessionTypeOK, Idle
<1>1. SessionTypeOK'
  <2>1. ui' \in UiState
    BY <1>d, IdleType DEF SessionTypeOK, UiState
  <2> QED
    BY <1>a, <1>c, <1>d, <2>1 DEF SessionTypeOK, UiState
<1>2. HandlerPlace'
  BY <1>a, <1>b, <1>c, <1>d DEF HandlerPlace, Stopping, Playing, Opening
<1>3. Ownership'
  BY <1>a, <1>b, <1>c, <1>d DEF Ownership
<1>4. ThreadLife'
  BY <1>a, <1>b, <1>c, <1>d DEF ThreadLife
<1>5. StopHistory'
  BY <1>a, <1>b, <1>c, <1>d DEF StopHistory, Stopping, Playing
<1>6. Patience'
  BY <1>a, <1>b, <1>c, <1>d DEF Patience
<1>7. ThreadsOutlived'
  BY <1>a, <1>b, <1>c, <1>d DEF ThreadsOutlived
<1>8. PortsFreed'
  BY <1>a, <1>b, <1>c, <1>d DEF PortsFreed
<1>9. PlayFreesOnce'
  BY <1>a, <1>b, <1>c, <1>d DEF PlayFreesOnce
<1> QED
  BY <1>1, <1>2, <1>3, <1>4, <1>5, <1>6, <1>7, <1>8, <1>9

(* stop() closes the socket, which gives the port back. *)
LEMMA StopCloseSockPreserves ==
    ASSUME IInv, StopCloseSock
    PROVE  IInv'
<1> USE DEF IInv
<1> DEFINE new == [sess[Current] EXCEPT !.port = 0]
<1>a. /\ ui.at = "closeSock" /\ Current # 0
      /\ Current \in 1..plays /\ Current \in Sessions /\ sess[Current] \in Session
      /\ sess \in [1..plays -> Session]
  BY CurrentExists DEF StopCloseSock, At, HandlerPlace, Stopping, Playing, SessionTypeOK
<1>b. /\ new \in Session
      /\ new.thread = sess[Current].thread /\ new.running = sess[Current].running
      /\ new.sources = sess[Current].sources /\ new.wired = sess[Current].wired
      /\ new.deleted = sess[Current].deleted
      /\ new.port = 0
      /\ sess' = [sess EXCEPT ![Current] = new]
  BY <1>a DEF StopCloseSock, Session, ThreadLife, Alive
<1>c. /\ sess \in [1..plays -> Session] /\ DOMAIN sess = 1..plays
      /\ sess' \in [1..plays -> Session] /\ DOMAIN sess' = 1..plays
      /\ Current \in 1..plays /\ ui.widget \in Widgets
      /\ \A s \in 1..plays : sess'[s] = IF s = Current THEN new ELSE sess[s]
  <2> HIDE DEF new
  <2> QED
    BY <1>a, <1>b, OneSession
<1> HIDE DEF new
<1>d. /\ plays' = plays /\ server' = server /\ stopped' = stopped /\ crossed' = crossed
      /\ called' = called /\ pictures' = pictures /\ crashed' = crashed /\ hasty' = hasty
      /\ ui' = [ui EXCEPT !.at = "unwire"] /\ ui'.widget = ui.widget /\ ui'.play = ui.play
      /\ ui'.at = "unwire" /\ Current' = Current /\ ui'.port = ui.port
  BY <1>a DEF StopCloseSock, At, GoTo, UndefinedIf, Undefined, Current, SessionTypeOK, Idle
<1>1. SessionTypeOK'
  <2>1. ui' \in UiState
    BY <1>d, IdleType DEF SessionTypeOK, UiState
  <2> QED
    BY <1>a, <1>c, <1>d, <2>1 DEF SessionTypeOK, UiState
<1>2. HandlerPlace'
  BY <1>a, <1>b, <1>c, <1>d DEF HandlerPlace, Stopping, Playing, Opening
<1>3. Ownership'
  BY <1>a, <1>b, <1>c, <1>d DEF Ownership
<1>4. ThreadLife'
  BY <1>a, <1>b, <1>c, <1>d DEF ThreadLife
<1>5. StopHistory'
  BY <1>a, <1>b, <1>c, <1>d DEF StopHistory, Stopping, Playing
<1>6. Patience'
  BY <1>a, <1>b, <1>c, <1>d DEF Patience
<1>7. ThreadsOutlived'
  BY <1>a, <1>b, <1>c, <1>d DEF ThreadsOutlived
<1>8. PortsFreed'
  BY <1>a, <1>b, <1>c, <1>d DEF PortsFreed
<1>9. PlayFreesOnce'
  BY <1>a, <1>b, <1>c, <1>d DEF PlayFreesOnce
<1> QED
  BY <1>1, <1>2, <1>3, <1>4, <1>5, <1>6, <1>7, <1>8, <1>9

(* VideoWidget::stop disconnects the decoders: the session counts as stopped. *)
LEMMA StopUnwirePreserves ==
    ASSUME IInv, StopUnwire
    PROVE  IInv'
<1> USE DEF IInv
<1> DEFINE new == [sess[Current] EXCEPT !.wired = FALSE]
<1>a. /\ ui.at = "unwire" /\ Current # 0
      /\ Current \in 1..plays /\ Current \in Sessions /\ sess[Current] \in Session
      /\ sess \in [1..plays -> Session]
  BY CurrentExists DEF StopUnwire, At, HandlerPlace, Stopping, Playing, SessionTypeOK
<1>b. /\ new \in Session
      /\ new.thread = sess[Current].thread /\ new.running = sess[Current].running
      /\ new.port = sess[Current].port /\ new.sources = sess[Current].sources
      /\ new.deleted = sess[Current].deleted
      /\ new.wired = FALSE
      /\ sess' = [sess EXCEPT ![Current] = new]
  BY <1>a DEF StopUnwire, Session, ThreadLife, Alive
<1>c. /\ sess \in [1..plays -> Session] /\ DOMAIN sess = 1..plays
      /\ sess' \in [1..plays -> Session] /\ DOMAIN sess' = 1..plays
      /\ Current \in 1..plays /\ ui.widget \in Widgets
      /\ \A s \in 1..plays : sess'[s] = IF s = Current THEN new ELSE sess[s]
  <2> HIDE DEF new
  <2> QED
    BY <1>a, <1>b, OneSession
<1> HIDE DEF new
<1>d. /\ plays' = plays /\ server' = server /\ stopped' = stopped \cup {Current}
      /\ crossed' = crossed
      /\ called' = called /\ pictures' = pictures /\ crashed' = crashed /\ hasty' = hasty
      /\ ui'.at = (IF ui.play THEN "delete" ELSE "idle")
      /\ ui' = (IF ui.play THEN [ui EXCEPT !.at = "delete"] ELSE Idle)
      /\ ui.play => ui'.widget = ui.widget /\ ui'.play /\ Current' = Current
      /\ ~ui.play => ~ui'.play
  BY <1>a DEF StopUnwire, At, GoTo, UndefinedIf, Undefined, Current, SessionTypeOK, Idle
<1>1. SessionTypeOK'
  <2>1. ui' \in UiState
    BY <1>d, IdleType DEF SessionTypeOK, UiState
  <2> QED
    BY <1>a, <1>c, <1>d, <2>1 DEF SessionTypeOK, UiState
<1>2. HandlerPlace'
  BY <1>a, <1>b, <1>c, <1>d DEF HandlerPlace, Stopping, Playing, Opening
<1>3. Ownership'
  BY <1>a, <1>b, <1>c, <1>d DEF Ownership
<1>4. ThreadLife'
  BY <1>a, <1>b, <1>c, <1>d DEF ThreadLife
<1>5. StopHistory'
  BY <1>a, <1>b, <1>c, <1>d DEF StopHistory, Stopping, Playing
<1>6. Patience'
  BY <1>a, <1>b, <1>c, <1>d DEF Patience
<1>7. ThreadsOutlived'
  BY <1>a, <1>b, <1>c, <1>d DEF ThreadsOutlived
<1>8. PortsFreed'
  BY <1>a, <1>b, <1>c, <1>d DEF PortsFreed
<1>9. PlayFreesOnce'
  BY <1>a, <1>b, <1>c, <1>d DEF PlayFreesOnce
<1> QED
  BY <1>1, <1>2, <1>3, <1>4, <1>5, <1>6, <1>7, <1>8, <1>9

(* onPlay starts the thread of the session it has just created. *)
LEMMA StartThreadPreserves ==
    ASSUME IInv, StartThread
    PROVE  IInv'
<1> USE DEF IInv
<1> DEFINE new == [sess[Current] EXCEPT !.thread = "starting"]
<1>a. /\ ui.at = "start" /\ Current # 0
      /\ Current \in 1..plays /\ Current \in Sessions /\ sess[Current] \in Session
      /\ sess \in [1..plays -> Session]
  BY CurrentExists DEF StartThread, At, HandlerPlace, Stopping, Playing, SessionTypeOK
<1>b. /\ new \in Session
      /\ new.running = sess[Current].running /\ new.port = sess[Current].port
      /\ new.sources = sess[Current].sources /\ new.wired = sess[Current].wired
      /\ new.deleted = sess[Current].deleted
      /\ new.thread = "starting" /\ ~new.running
      /\ sess' = [sess EXCEPT ![Current] = new]
  BY <1>a DEF StartThread, Session, ThreadLife, Alive
<1>c. /\ sess \in [1..plays -> Session] /\ DOMAIN sess = 1..plays
      /\ sess' \in [1..plays -> Session] /\ DOMAIN sess' = 1..plays
      /\ Current \in 1..plays /\ ui.widget \in Widgets
      /\ \A s \in 1..plays : sess'[s] = IF s = Current THEN new ELSE sess[s]
  <2> HIDE DEF new
  <2> QED
    BY <1>a, <1>b, OneSession
<1> HIDE DEF new
<1>d. /\ plays' = plays /\ server' = server /\ stopped' = stopped /\ crossed' = crossed
      /\ called' = called /\ pictures' = pictures /\ crashed' = crashed /\ hasty' = hasty
      /\ ui' = [ui EXCEPT !.at = "wire"] /\ ui'.widget = ui.widget /\ ui'.play = ui.play
      /\ ui'.at = "wire" /\ Current' = Current /\ ui'.port = ui.port
  BY <1>a DEF StartThread, At, GoTo, UndefinedIf, Undefined, Current, SessionTypeOK, Idle
<1>1. SessionTypeOK'
  <2>1. ui' \in UiState
    BY <1>d, IdleType DEF SessionTypeOK, UiState
  <2> QED
    BY <1>a, <1>c, <1>d, <2>1 DEF SessionTypeOK, UiState
<1>2. HandlerPlace'
  BY <1>a, <1>b, <1>c, <1>d DEF HandlerPlace, Stopping, Playing, Opening
<1>3. Ownership'
  BY <1>a, <1>b, <1>c, <1>d DEF Ownership
<1>4. ThreadLife'
  BY <1>a, <1>b, <1>c, <1>d DEF ThreadLife
<1>5. StopHistory'
  BY <1>a, <1>b, <1>c, <1>d DEF StopHistory, Stopping, Playing
<1>6. Patience'
  BY <1>a, <1>b, <1>c, <1>d DEF Patience
<1>7. ThreadsOutlived'
  BY <1>a, <1>b, <1>c, <1>d DEF ThreadsOutlived, Ownership, Current
<1>8. PortsFreed'
  BY <1>a, <1>b, <1>c, <1>d DEF PortsFreed
<1>9. PlayFreesOnce'
  BY <1>a, <1>b, <1>c, <1>d DEF PlayFreesOnce
<1> QED
  BY <1>1, <1>2, <1>3, <1>4, <1>5, <1>6, <1>7, <1>8, <1>9

(* onPlay connects the decoders of the session it has just created. *)
LEMMA WireDecodersPreserves ==
    ASSUME IInv, WireDecoders
    PROVE  IInv'
<1> USE DEF IInv
<1> DEFINE new == [sess[Current] EXCEPT !.wired = TRUE]
<1>a. /\ ui.at = "wire" /\ Current # 0
      /\ Current \in 1..plays /\ Current \in Sessions /\ sess[Current] \in Session
      /\ sess \in [1..plays -> Session]
  BY CurrentExists DEF WireDecoders, At, HandlerPlace, Stopping, Playing, SessionTypeOK
<1>b. /\ new \in Session
      /\ new.thread = sess[Current].thread /\ new.running = sess[Current].running
      /\ new.port = sess[Current].port /\ new.sources = sess[Current].sources
      /\ new.deleted = sess[Current].deleted
      /\ sess' = [sess EXCEPT ![Current] = new]
  BY <1>a DEF WireDecoders, Session, ThreadLife, Alive
<1>c. /\ sess \in [1..plays -> Session] /\ DOMAIN sess = 1..plays
      /\ sess' \in [1..plays -> Session] /\ DOMAIN sess' = 1..plays
      /\ Current \in 1..plays /\ ui.widget \in Widgets
      /\ \A s \in 1..plays : sess'[s] = IF s = Current THEN new ELSE sess[s]
  <2> HIDE DEF new
  <2> QED
    BY <1>a, <1>b, OneSession
<1> HIDE DEF new
<1>d. /\ plays' = plays /\ server' = server /\ stopped' = stopped /\ crossed' = crossed
      /\ called' = called /\ pictures' = pictures /\ crashed' = crashed /\ hasty' = hasty
      /\ ui' = [ui EXCEPT !.at = "invite"] /\ ui'.widget = ui.widget /\ ui'.play = ui.play
      /\ ui'.at = "invite" /\ Current' = Current /\ ui'.port = ui.port
  BY <1>a DEF WireDecoders, At, GoTo, UndefinedIf, Undefined, Current, SessionTypeOK, Idle
<1>1. SessionTypeOK'
  <2>1. ui' \in UiState
    BY <1>d, IdleType DEF SessionTypeOK, UiState
  <2> QED
    BY <1>a, <1>c, <1>d, <2>1 DEF SessionTypeOK, UiState
<1>2. HandlerPlace'
  BY <1>a, <1>b, <1>c, <1>d DEF HandlerPlace, Stopping, Playing, Opening
<1>3. Ownership'
  BY <1>a, <1>b, <1>c, <1>d DEF Ownership
<1>4. ThreadLife'
  BY <1>a, <1>b, <1>c, <1>d DEF ThreadLife
<1>5. StopHistory'
  BY <1>a, <1>b, <1>c, <1>d DEF StopHistory, Stopping, Playing
<1>6. Patience'
  BY <1>a, <1>b, <1>c, <1>d DEF Patience
<1>7. ThreadsOutlived'
  BY <1>a, <1>b, <1>c, <1>d DEF ThreadsOutlived
<1>8. PortsFreed'
  BY <1>a, <1>b, <1>c, <1>d DEF PortsFreed
<1>9. PlayFreesOnce'
  BY <1>a, <1>b, <1>c, <1>d DEF PlayFreesOnce
<1> QED
  BY <1>1, <1>2, <1>3, <1>4, <1>5, <1>6, <1>7, <1>8, <1>9

(* The destructor goes on only when m_bRunning is false: with a patient     *)
(* user the thread is over and its socket closed, or there never was one.   *)
LEMMA DeleteServerPreserves ==
    ASSUME IInv, DeleteServer
    PROVE  IInv'
<1> USE DEF IInv
<1>a. /\ ui.at = "delete" /\ ui.widget \in Widgets /\ Current \in 0..plays
      /\ plays \in Nat /\ plays < MaxPlays /\ ui.play
      /\ Current # 0 => ~sess[Current].running
      /\ sess \in [1..plays -> Session] /\ DOMAIN sess = 1..plays
  BY DEF DeleteServer, At, HandlerPlace, Opening, Ownership, SessionTypeOK, IsRunning, Current
<1>b. \A s \in 1..plays :
         /\ Remains(sess[s]) \in Session
         /\ Remains(sess[s]).thread = sess[s].thread /\ Remains(sess[s]).running = sess[s].running
         /\ Remains(sess[s]).port = sess[s].port /\ Remains(sess[s]).deleted
         /\ Remains(sess[s]).sources = "none" /\ Remains(sess[s]).wired = sess[s].wired
  BY <1>a, ZenonT(40) DEF Remains, Session
<1>c. /\ sess' \in [1..plays -> Session] /\ DOMAIN sess' = 1..plays
      /\ \A s \in 1..plays : sess'[s] = IF s = Current THEN Remains(sess[s]) ELSE sess[s]
  BY <1>a, <1>b DEF DeleteServer
<1>d. /\ plays' = plays /\ server' = server /\ stopped' = stopped /\ crossed' = crossed
      /\ called' = called /\ pictures' = pictures /\ crashed' = crashed /\ hasty' = hasty
      /\ ui' = [ui EXCEPT !.at = "open"] /\ ui'.widget = ui.widget /\ ui'.play = ui.play
      /\ ui'.at = "open" /\ Current' = Current /\ ui'.port = ui.port
  BY DEF DeleteServer, GoTo, SessionTypeOK, Current
<1>e. ~hasty /\ Current # 0 => sess[Current].thread \in {"none", "done"} /\ sess[Current].port = 0
  <2> SUFFICES ASSUME ~hasty, Current # 0
               PROVE  sess[Current].thread \in {"none", "done"} /\ sess[Current].port = 0
    OBVIOUS
  <2>1. Current \in 1..plays /\ sess[Current].thread \in {"none", "done"} \cup Alive
    BY <1>a DEF Session
  <2>2. sess[Current].thread # "starting" /\ sess[Current].thread \notin Alive \ {"starting"}
    BY <1>a, <2>1 DEF Patience, ThreadLife
  <2> QED
    BY <1>a, <2>1, <2>2 DEF ThreadLife, Alive
<1>1. SessionTypeOK'
  <2>1. ui' \in UiState
    BY <1>d DEF SessionTypeOK, UiState
  <2> QED
    BY <1>c, <1>d, <2>1 DEF SessionTypeOK, UiState
<1>2. HandlerPlace'
  BY <1>a, <1>b, <1>c, <1>d DEF HandlerPlace, Stopping, Playing, Opening
<1>3. Ownership'
  BY <1>a, <1>b, <1>c, <1>d DEF Ownership, Current
<1>4. ThreadLife'
  BY <1>a, <1>b, <1>c, <1>d DEF ThreadLife
<1>5. StopHistory'
  BY <1>a, <1>b, <1>c, <1>d DEF StopHistory, Stopping, Playing
<1>6. Patience'
  BY <1>a, <1>b, <1>c, <1>d, <1>e DEF Patience
<1>7. ThreadsOutlived'
  BY <1>a, <1>b, <1>c, <1>d, <1>e DEF ThreadsOutlived, Alive
<1>8. PortsFreed'
  BY <1>a, <1>b, <1>c, <1>d DEF PortsFreed
<1>9. PlayFreesOnce'
  BY <1>a, <1>b, <1>c, <1>d DEF PlayFreesOnce
<1> QED
  BY <1>1, <1>2, <1>3, <1>4, <1>5, <1>6, <1>7, <1>8, <1>9

(* The new server is bound to a free port or has no thread: the widget's    *)
(* old server had been deleted and had given its port back.                 *)
LEMMA OpenServerPreserves ==
    ASSUME IInv, OpenServer
    PROVE  IInv'
<1> USE DEF IInv
<1>a. /\ ui.at = "open" /\ ui.widget \in Widgets /\ Current \in 0..plays
      /\ plays \in Nat /\ plays < MaxPlays /\ ui.play /\ ui.kind \in Kinds
      /\ sess \in [1..plays -> Session] /\ DOMAIN sess = 1..plays
      /\ server \in [Widgets -> 0..MaxPlays] /\ \A w \in Widgets : server[w] \in 0..plays
  BY DEF OpenServer, At, HandlerPlace, Opening, Ownership, SessionTypeOK, Current
<1>e. PICK p \in {0} \cup FirstFree :
        /\ sess' = Append(sess, NewSession(ui.kind, p))
        /\ ui' = IF p # 0 THEN [ui EXCEPT !.at = "start", !.port = p] ELSE Idle
  BY DEF OpenServer
<1> DEFINE new == NewSession(ui.kind, p)
<1>b. /\ p \in {0} \cup Ports
      /\ new \in Session /\ new.thread = "none" /\ ~new.running /\ new.port = p
      /\ new.sources = "none" /\ ~new.wired /\ ~new.deleted
  BY <1>a DEF NewSession, Session, FirstFree, FreePorts
<1>c. /\ sess' \in [1..(plays + 1) -> Session] /\ DOMAIN sess' = 1..(plays + 1)
      /\ sess'[plays + 1] = new
      /\ \A s \in 1..plays : sess'[s] = sess[s]
  <2>1. sess \in Seq(Session) /\ Len(sess) = plays
    BY <1>a, IsASeq
  <2> HIDE DEF new
  <2>2. sess' = Append(sess, new)
    BY <1>e DEF new
  <2>3. sess' \in Seq(Session) /\ Len(sess') = plays + 1
    BY <1>b, <2>1, <2>2, AppendProperties
  <2>4. /\ sess'[plays + 1] = new
        /\ \A s \in 1..plays : sess'[s] = sess[s]
    BY <1>a, <1>b, <2>1, <2>2, AppendProperties
  <2> QED
    BY <2>3, <2>4, LenProperties
<1>f. \A s \in 1..(plays + 1) : s = plays + 1 \/ (s \in 1..plays /\ s # plays + 1)
  BY <1>a
<1> HIDE DEF new
<1>d. /\ plays' = plays + 1 /\ server' = [server EXCEPT ![ui.widget] = plays + 1]
      /\ stopped' = stopped /\ crossed' = crossed
      /\ called' = called /\ pictures' = pictures /\ crashed' = crashed /\ hasty' = hasty
      /\ p # 0 => /\ ui' = [ui EXCEPT !.at = "start", !.port = p]
                  /\ ui'.at = "start" /\ ui'.widget = ui.widget
                  /\ ui'.port = p /\ ui'.play = ui.play /\ Current' = plays + 1
      /\ p = 0 => ui' = Idle /\ ui'.at = "idle" /\ ui'.play = FALSE
      /\ \A w \in Widgets : server'[w] = IF w = ui.widget THEN plays + 1 ELSE server[w]
  BY <1>a, <1>e DEF OpenServer, SessionTypeOK, Current, Idle
<1>1. SessionTypeOK'
  <2>1. ui' \in UiState
    <3>1. CASE p = 0
      BY <3>1, <1>d, IdleType
    <3>2. CASE p # 0
      BY <3>2, <1>b, <1>d DEF SessionTypeOK, UiState
    <3> QED
      BY <3>1, <3>2
  <2>2. crossed \subseteq stopped
    BY <1>a DEF StopHistory
  <2>3. server' \in [Widgets -> 0..MaxPlays] /\ plays' \in 0..MaxPlays
    BY <1>a, <1>d, PlayAssumption
  <2> QED
    BY <1>c, <1>d, <2>1, <2>2, <2>3 DEF SessionTypeOK, UiState
<1>2. HandlerPlace'
  <2>1. CASE p = 0
    BY <2>1, <1>a, <1>b, <1>c, <1>d, <1>f DEF HandlerPlace, Stopping, Playing, Opening
  <2>2. CASE p # 0
    BY <2>2, <1>a, <1>b, <1>c, <1>d, <1>f DEF HandlerPlace, Stopping, Playing, Opening
  <2> QED
    BY <2>1, <2>2
<1>3. Ownership'
  <2>1. CASE p = 0
    BY <2>1, <1>a, <1>b, <1>c, <1>d, <1>f DEF Ownership, Current
  <2>2. CASE p # 0
    BY <2>2, <1>a, <1>b, <1>c, <1>d, <1>f DEF Ownership, Current
  <2> QED
    BY <2>1, <2>2
<1>4. ThreadLife'
  <2>1. CASE p = 0
    BY <2>1, <1>a, <1>b, <1>c, <1>d, <1>f DEF ThreadLife, Alive
  <2>2. CASE p # 0
    BY <2>2, <1>a, <1>b, <1>c, <1>d, <1>f DEF ThreadLife, Alive
  <2> QED
    BY <2>1, <2>2
<1>5. StopHistory'
  <2>1. CASE p = 0
    BY <2>1, <1>a, <1>b, <1>c, <1>d, <1>f DEF StopHistory, Stopping, Playing
  <2>2. CASE p # 0
    BY <2>2, <1>a, <1>b, <1>c, <1>d, <1>f DEF StopHistory, Stopping, Playing
  <2> QED
    BY <2>1, <2>2
<1>6. Patience'
  BY <1>a, <1>b, <1>c, <1>d, <1>f, ZenonT(40) DEF Patience
<1>7. ThreadsOutlived'
  BY <1>a, <1>b, <1>c, <1>d, <1>f DEF ThreadsOutlived
<1>8. PortsFreed'
  BY <1>a, <1>b, <1>c, <1>d, <1>f DEF PortsFreed, Patience, Current
<1>9. PlayFreesOnce'
  BY <1>a, <1>b, <1>c, <1>d, <1>f DEF PlayFreesOnce
<1> QED
  BY <1>1, <1>2, <1>3, <1>4, <1>5, <1>6, <1>7, <1>8, <1>9

-----------------------------------------------------------------------------
(* The theorems. *)

(* Every step of the specification preserves the invariant. *)
LEMMA InvStep == IInv /\ [Next]_vars => IInv'
<1> SUFFICES ASSUME IInv, [Next]_vars PROVE IInv'
  OBVIOUS
<1>1. CASE UserClick
  <2>1. ASSUME NEW w \in Selectable, NEW k \in Kinds, PlaySelected(w, k) PROVE IInv'
    BY <2>1, PlaySelectedPreserves
  <2>2. ASSUME NEW w \in Selectable, NEW k \in Kinds, PlayAnywhere(w, k) PROVE IInv'
    BY <2>2, PlayAnywherePreserves
  <2>3. ASSUME NEW w \in Selectable, OnStop(w) PROVE IInv'
    BY <2>3, OnStopPreserves
  <2> QED
    BY <1>1, <2>1, <2>2, <2>3 DEF UserClick
<1>2. CASE UiStep
  BY <1>2, ScanWidgetPreserves, StopFreePreserves, StopCloseConnPreserves,
     StopCloseSockPreserves, StopUnwirePreserves, DeleteServerPreserves,
     OpenServerPreserves, StartThreadPreserves, WireDecodersPreserves, InvitePreserves
     DEF UiStep
<1>3. ASSUME NEW s \in Sessions, ThreadStep(s) PROVE IInv'
  BY <1>3, ThreadStartsPreserves, HandleClosedPreserves, ParseLastPreserves,
     CloseSocketsPreserves, LeavePreserves
     DEF ThreadStep
<1>4. ASSUME NEW s \in Sessions, CameraStep(s) PROVE IInv'
  BY <1>4, AcceptPreserves, ConnectionResetPreserves, ReceivePreserves,
     ParseOneOfManyPreserves
     DEF CameraStep
<1>5. CASE UNCHANGED vars
  <2>1. /\ server' = server /\ plays' = plays /\ sess' = sess /\ called' = called
        /\ ui' = ui /\ pictures' = pictures /\ crashed' = crashed /\ stopped' = stopped
        /\ crossed' = crossed /\ hasty' = hasty
    BY <1>5 DEF vars
  <2> QED
    BY <2>1 DEF IInv, SessionTypeOK, HandlerPlace, Ownership, ThreadLife, StopHistory, Patience,
                ThreadsOutlived, PortsFreed, PlayFreesOnce, Current
<1> QED
  BY <1>1, <1>2, <1>3, <1>4, <1>5, SpinForeverPreserves, SetVideoFramePreserves DEF Next

(* The invariant holds in every state of every behaviour. *)
THEOREM SessionInvariant == Spec => []IInv
<1>1. Init => IInv
  BY InvInit
<1>2. IInv /\ [Next]_vars => IInv'
  BY InvStep
<1> QED
  BY <1>1, <1>2, PTL DEF Spec

(* Every variable keeps its type: at no step does a handler leave the       *)
(* widgets, the sessions or the ports it works on.                          *)
THEOREM SessionTypes == Spec => []SessionTypeOK
<1>1. IInv => SessionTypeOK
  BY DEF IInv
<1> QED
  BY <1>1, SessionInvariant, PTL

(* The destructor waits for every thread of a patient user, whatever the    *)
(* number of widgets and of earlier plays.                                  *)
THEOREM ThreadsOutlivedHolds == Spec => []ThreadsOutlived
<1>1. IInv => ThreadsOutlived
  BY DEF IInv
<1> QED
  BY <1>1, SessionInvariant, PTL

(* No port is lost to a session that no widget has any more.                *)
THEOREM PortsFreedHolds == Spec => []PortsFreed
<1>1. IInv => PortsFreed
  BY DEF IInv
<1> QED
  BY <1>1, SessionInvariant, PTL

(* onPlay meets sources that a stop() has deleted only where accept crossed *)
(* that stop.                                                               *)
THEOREM PlayFreesOnceHolds == Spec => []PlayFreesOnce
<1>1. IInv => PlayFreesOnce
  BY DEF IInv
<1> QED
  BY <1>1, SessionInvariant, PTL

-----------------------------------------------------------------------------
(* The queue of pictures. *)

(* The places of a session in the queue are a finite set. *)
LEMMA WaitingFinite ==
    ASSUME NEW queue \in Seq(Sessions), NEW s
    PROVE  IsFiniteSet({i \in DOMAIN queue : queue[i] = s})
<1>1. DOMAIN queue = 1..Len(queue) /\ Len(queue) \in Nat
  BY LenProperties
<1>2. IsFiniteSet(1..Len(queue))
  BY <1>1, FS_Interval
<1>3. {i \in DOMAIN queue : queue[i] = s} \in SUBSET (1..Len(queue))
  BY <1>1
<1> QED
  BY <1>2, <1>3, FS_Subset

(* A picture of another session adds nothing to those that wait.            *)
LEMMA WaitingAppend ==
    ASSUME NEW queue \in Seq(Sessions), NEW s, NEW t \in Sessions, s # t
    PROVE  Waiting(Append(queue, t), s) = Waiting(queue, s)
<1>1. /\ Len(queue) \in Nat /\ DOMAIN queue = 1..Len(queue)
      /\ DOMAIN Append(queue, t) = 1..(Len(queue) + 1)
      /\ Append(queue, t)[Len(queue) + 1] = t
      /\ \A i \in 1..Len(queue) : Append(queue, t)[i] = queue[i]
  BY LenProperties, AppendProperties
<1>2. {i \in DOMAIN Append(queue, t) : Append(queue, t)[i] = s}
         = {i \in DOMAIN queue : queue[i] = s}
  BY <1>1
<1> QED
  BY <1>2 DEF Waiting

(* Delivering a picture never makes more of any session wait: the places in *)
(* the tail map one to one into those of the queue.                         *)
LEMMA WaitingTail ==
    ASSUME NEW queue \in Seq(Sessions), queue # <<>>, NEW s
    PROVE  Waiting(Tail(queue), s) <= Waiting(queue, s)
<1> DEFINE A == {i \in DOMAIN Tail(queue) : Tail(queue)[i] = s}
           B == {i \in DOMAIN queue : queue[i] = s}
           f == [i \in A |-> i + 1]
<1>1. /\ Len(queue) \in Nat \ {0} /\ DOMAIN queue = 1..Len(queue)
      /\ DOMAIN Tail(queue) = 1..(Len(queue) - 1)
      /\ \A i \in 1..(Len(queue) - 1) : Tail(queue)[i] = queue[i + 1]
  BY LenProperties, EmptySeq, HeadTailProperties
<1>2. \A i \in A : i \in Int /\ i + 1 \in B
  BY <1>1
<1>3. f \in Injection(A, B)
  BY <1>2 DEF Injection, IsInjective
<1>4. IsFiniteSet(B)
  BY WaitingFinite
<1>5. Cardinality(A) <= Cardinality(B)
  <2> HIDE DEF A, B, f
  <2> QED
    BY <1>3, <1>4, FS_Injection
<1> QED
  BY <1>5 DEF Waiting

(* A step adds a picture only for a session whose decoders are connected,   *)
(* and those of a stopped session are not.                                  *)
LEMMA StepKeepsDark ==
    ASSUME IInv, [Next]_vars, NEW s \in stopped
    PROVE  Waiting(pictures', s) <= Waiting(pictures, s)
<1>1. pictures \in Seq(Sessions) /\ s \in 1..plays /\ ~sess[s].wired
  BY DEF IInv, SessionTypeOK, StopHistory
<1>2. Waiting(pictures, s) \in Nat
  BY <1>1, WaitingFinite, FS_CardinalityType DEF Waiting
<1>3. CASE pictures' = pictures
  BY <1>2, <1>3
<1>4. CASE SetVideoFrame
  BY <1>1, <1>4, WaitingTail DEF SetVideoFrame
<1>5. ASSUME NEW t \in Sessions, Parsed(t) PROVE Waiting(pictures', s) <= Waiting(pictures, s)
  <2>1. CASE pictures' = Append(pictures, t) /\ sess[t].wired
    BY <1>1, <1>2, <2>1, WaitingAppend
  <2> QED
    BY <1>3, <1>5, <2>1 DEF Parsed
<1>6. CASE UserClick \/ UiStep \/ SpinForever
  <2>1. pictures' = pictures
    BY <1>6 DEF UserClick, UiStep, SpinForever, PlaySelected, PlayAnywhere, OnStop, ScanWidget,
                StopFree, StopCloseConn, StopCloseSock, StopUnwire, DeleteServer, OpenServer,
                StartThread, WireDecoders, Invite
  <2> QED
    BY <1>3, <2>1
<1>7. ASSUME NEW t \in Sessions, ThreadStep(t) \/ CameraStep(t)
      PROVE  Waiting(pictures', s) <= Waiting(pictures, s)
  <2>1. pictures' = pictures \/ Parsed(t)
    BY <1>7 DEF ThreadStep, CameraStep, ThreadStarts, HandleClosed, CloseSockets, Leave, Accept,
                ConnectionReset, Receive, ParseLast, ParseOneOfMany
  <2> QED
    BY <1>3, <1>5, <2>1
<1>8. CASE UNCHANGED vars
  BY <1>3, <1>8 DEF vars
<1> QED
  BY <1>4, <1>6, <1>7, <1>8 DEF Next

(* After stop() no step queues another picture of the session, not even     *)
(* when its thread goes on receiving.                                       *)
THEOREM StoppedStaysDarkHolds == Spec => StoppedStaysDark
<1>1. IInv /\ [Next]_vars
         => [\A s \in stopped : Waiting(pictures', s) <= Waiting(pictures, s)]_vars
  BY StepKeepsDark
<1> QED
  BY <1>1, SessionInvariant, PTL DEF Spec, StoppedStaysDark
=============================================================================
