------------------------- MODULE CoordinationProofs -------------------------
(***************************************************************************)
(* Theorems about Coordination, for every tree of sessions, every set of   *)
(* plans and calls, and every bound.                                       *)
(*                                                                         *)
(* HeardAsRecorded is not inductive: between the claim of a plan, the      *)
(* answer to its callback and the record of the answer, it depends on      *)
(* what the worker in the middle of it knows.  Doing(w) says that of a     *)
(* worker: it holds the lifecycle lock, the row it claimed is there and    *)
(* says submitting, and its caller is an ancestor (Answering); what it     *)
(* answers without a claim nobody created (Serving).  Obeying says that an *)
(* actor in the middle of a command is waited for by the service, RowIs    *)
(* and Backed what stays of an answer in the rows and at who heard it.     *)
(* Typed adds to TypeOK what the kind of an event, the place of an actor   *)
(* and the operation of a worker say about their fields.                   *)
(*                                                                         *)
(* ClaimMoves and HeardMoves then say how one step may change what is on   *)
(* record and what was heard, which is how PlanApproval is implemented.    *)
(*                                                                         *)
(* Told and NoticeInv are about what is on its way to the gateway: where   *)
(* the report of a child that came to rest still is, and which plans may   *)
(* yet become a notice of their parent.                                    *)
(***************************************************************************)
EXTENDS Coordination, TLAPS

Places == {"lock", "check", "claim", "ask", "await", "store", "fail",
           "retire", "sync", "unmap", "none"}

TypedEvent ==
    {e \in Event : /\ e.kind = "tool" => e.of \in Calls
                   /\ e.kind \in {"plan", "void"} => e.of \in Plans
                   /\ e.kind = "over" => e.of \in Sessions /\ e.status \in Rest}

TypedJob ==
    {j \in Job : /\ j.op \in {"answer", "plain"} => j.plan \in Plans /\ j.verdict \in Verdict
                 /\ j.op = "answer" => j.by \in By
                 /\ j.op \in {"plan", "void"} => j.plan \in Plans
                 /\ j.op = "over" => j.sess \in Sessions /\ j.verdict \in Rest
                 /\ j.op \in {"cancel", "close", "archive"} => j.sess \in Sessions
                 /\ j.op \in {"idle", "answer", "plain", "plan", "void"} => j.sess = None}

Typed ==
    /\ TypeOK
    /\ channel \in Seq(TypedEvent)
    /\ job \in [Workers -> TypedJob]
    /\ \A s \in Sessions :
        /\ act[s].at \in {"plan", "void"} => act[s].plan \in Plans
        /\ act[s].at = "over" => status[s] \in Rest

\* An actor in the middle of a command of the service is waited for.
Obeying ==
    /\ job[Service].op \notin {"plan", "void", "over"}
    /\ job[Service].at = "ask" => job[Service].op \in {"answer", "plain", "cancel", "close", "archive"}
    /\ \A s \in Sessions : act[s].at \in {"retire", "void"} => act[s].end # "none"
    /\ \A s \in Sessions : act[s].end \in {"cancel", "disconnect"} =>
        /\ s \in up /\ job[Service].sess = s /\ job[Service].at = "await"
        /\ job[Service].op \in IF act[s].end = "cancel" THEN {"cancel"} ELSE {"close", "archive"}

-----------------------------------------------------------------------------
(* Records.                                                                *)

LEMMA IdleTyped == Idle \in TypedJob /\ Idle.op = "idle" /\ Idle.at = "none"
  BY DEF Idle, TypedJob, Job

LEMMA ReadyTyped == Ready \in Act /\ Ready.at = "ready"
  BY DEF Ready, Act

LEMMA SetsDiffer ==
    /\ Gateway \in Workers /\ Service \in Workers /\ Gateway # Service
    /\ None \notin Sessions /\ None \notin Plans /\ None \notin Workers
    /\ "none" \notin Verdict /\ "cancel" \notin Verdict /\ "lost" \notin Verdict
  BY CoordinationAssumption DEF Workers, Unheard

\* A worker goes on to another place with the same job.
LEMMA StepTyped ==
    ASSUME job \in [Workers -> TypedJob], NEW w \in Workers, NEW at \in Places, Step(w, at)
    PROVE  /\ job' \in [Workers -> TypedJob]
           /\ \A v \in Workers : v # w => job'[v] = job[v]
           /\ job'[w] = [job[w] EXCEPT !.at = at]
           /\ job'[w].at = at /\ job'[w].op = job[w].op /\ job'[w].plan = job[w].plan
           /\ job'[w].sess = job[w].sess /\ job'[w].by = job[w].by
           /\ job'[w].verdict = job[w].verdict
  <1>1. job' = [job EXCEPT ![w] = [job[w] EXCEPT !.at = at]]
    BY DEF Step
  <1> DEFINE j == job[w]
             k == [job[w] EXCEPT !.at = at]
  <1>2. j \in Job /\ j \in TypedJob
    BY DEF TypedJob
  <1>3. /\ k \in Job /\ k.at = at /\ k.op = j.op /\ k.plan = j.plan
        /\ k.sess = j.sess /\ k.by = j.by /\ k.verdict = j.verdict
    BY <1>2 DEF Job, Places
  <1>4. k \in TypedJob
    BY <1>2, <1>3 DEF TypedJob
  <1>5. job'[w] = k /\ \A v \in Workers : v # w => job'[v] = job[v]
    BY <1>1
  <1> HIDE DEF k, j
  <1>6. job' \in [Workers -> TypedJob]
    BY <1>1, <1>4 DEF k
  <1> QED  BY <1>3, <1>5, <1>6 DEF k, j

LEMMA FinishTyped ==
    ASSUME job \in [Workers -> TypedJob], NEW w \in Workers, Finish(w)
    PROVE  /\ job' \in [Workers -> TypedJob]
           /\ \A v \in Workers : v # w => job'[v] = job[v]
           /\ job'[w] = Idle
  BY IdleTyped DEF Finish

LEMMA ReleaseTyped ==
    ASSUME lock \in Workers \cup {None}, NEW w \in Workers, UNCHANGED lock \/ Release(w)
    PROVE  /\ lock' \in Workers \cup {None}
           /\ \A v \in Workers : v # w /\ lock = v => lock' = v
  BY DEF Release

LEMMA TroubleTyped ==
    ASSUME faults \in Nat, troubles \in Nat
    PROVE  /\ Trouble => troubles' \in Nat
           /\ \A ok \in BOOLEAN : Works(ok) => faults' \in Nat /\ troubles' \in Nat
  BY DEF Trouble, Works

LEMMA JobTypes ==
    ASSUME NEW f \in [Workers -> TypedJob]
    PROVE  f \in [Workers -> Job]
  BY DEF TypedJob

LEMMA EventTypes ==
    ASSUME NEW e \in TypedEvent, channel \in Seq(TypedEvent), channel \in Seq(Event)
    PROVE  /\ Append(channel, e) \in Seq(TypedEvent) /\ Append(channel, e) \in Seq(Event)
           /\ Len(Append(channel, e)) = Len(channel) + 1
  <1>1. e \in Event
    BY DEF TypedEvent
  <1> HIDE DEF TypedEvent, Event
  <1> QED  BY <1>1

-----------------------------------------------------------------------------
(* Type correctness, in parts.                                             *)

DurableTyped ==
    /\ responses \subseteq Response
    /\ notice \in [Plans -> Notice] /\ unread \subseteq Plans
    /\ completion \in [Sessions -> Rest \cup {"none"}]
    /\ hidden \subseteq Sessions

PlansTyped ==
    /\ owner \in [Plans -> Sessions \cup {None}] /\ working \subseteq Sessions
    /\ answer \in [Plans -> Verdict \cup Unheard]
    /\ arriving \subseteq Plans /\ pending \subseteq Plans
    /\ listed \subseteq Plans /\ shown \subseteq Plans

ActorsTyped ==
    /\ up \subseteq Sessions /\ installed \subseteq Sessions
    /\ status \in [Sessions -> Status] /\ act \in [Sessions -> Act]
    /\ \A s \in Sessions :
        /\ act[s].at \in {"plan", "void"} => act[s].plan \in Plans
        /\ act[s].at = "over" => status[s] \in Rest

ChannelTyped ==
    channel \in Seq(TypedEvent) /\ channel \in Seq(Event) /\ Len(channel) <= Capacity

JobsTyped == job \in [Workers -> TypedJob] /\ lock \in Workers \cup {None}

BoundsTyped == turns \in Nat /\ faults \in Nat /\ troubles \in Nat

LEMMA TypedParts ==
    ASSUME Typed
    PROVE  DurableTyped /\ PlansTyped /\ ActorsTyped /\ ChannelTyped /\ JobsTyped /\ BoundsTyped
  BY DEF Typed, TypeOK, DurableTyped, PlansTyped, ActorsTyped, ChannelTyped, JobsTyped, BoundsTyped

LEMMA TypedFrom ==
    ASSUME DurableTyped, PlansTyped, ActorsTyped, ChannelTyped, JobsTyped, BoundsTyped
    PROVE  Typed
  <1>1. job \in [Workers -> Job]
    BY JobTypes DEF JobsTyped
  <1> QED
    BY <1>1
    DEF Typed, TypeOK, DurableTyped, PlansTyped, ActorsTyped, ChannelTyped, JobsTyped, BoundsTyped

LEMMA TypedNext ==
    ASSUME DurableTyped', PlansTyped', ActorsTyped', ChannelTyped', JobsTyped', BoundsTyped'
    PROVE  Typed'
  <1>1. job' \in [Workers -> Job]
    BY JobTypes DEF JobsTyped
  <1> QED
    BY <1>1
    DEF Typed, TypeOK, DurableTyped, PlansTyped, ActorsTyped, ChannelTyped, JobsTyped, BoundsTyped

LEMMA TypedInit == Init => Typed
  <1> SUFFICES ASSUME Init PROVE Typed
    OBVIOUS
  <1>1. DurableTyped
    BY DEF Init, DurableTyped, Notice
  <1>2. PlansTyped
    BY DEF Init, PlansTyped, Unheard
  <1>3. ActorsTyped
    BY ReadyTyped DEF Init, ActorsTyped, Status
  <1>4. ChannelTyped
    <2>1. <<>> \in Seq(TypedEvent) /\ <<>> \in Seq(Event) /\ Len(<<>>) = 0
      OBVIOUS
    <2> QED  BY <2>1, CoordinationAssumption DEF Init, ChannelTyped
  <1>5. JobsTyped
    BY IdleTyped DEF Init, JobsTyped
  <1>6. BoundsTyped
    BY DEF Init, BoundsTyped
  <1> QED  BY <1>1, <1>2, <1>3, <1>4, <1>5, <1>6, TypedFrom

LEMMA RuntimeTyped ==
    ASSUME Typed, RuntimeStep
    PROVE  Typed'
  <1> USE TypedParts, TypedNext
  <1>1. CASE \E s \in Sessions, p \in Plans : AskPlan(s, p)
    <2>1. PICK s \in Sessions, p \in Plans : AskPlan(s, p)
      BY <1>1
    <2>2. UNCHANGED <<durableVars, working, answer, pending, listed, shown, actorVars, otherVars>>
      BY <2>1 DEF AskPlan
    <2>3. PlansTyped'
      BY <2>1, <2>2 DEF AskPlan, PlansTyped
    <2> QED
      BY <2>2, <2>3 DEF durableVars, actorVars, otherVars, bounds, DurableTyped,
                        ActorsTyped, ChannelTyped, JobsTyped, BoundsTyped
  <1>2. CASE \E p \in Plans : Abandon(p)
    <2>1. PICK p \in Plans : Abandon(p)
      BY <1>2
    <2>2. UNCHANGED <<durableVars, owner, working, arriving, pending, listed, shown,
                      actorVars, channel, job, lock, turns, faults>>
      BY <2>1 DEF Abandon
    <2>3. PlansTyped'
      BY <2>1, <2>2 DEF Abandon, PlansTyped, Unheard
    <2>4. BoundsTyped'
      BY <2>1, <2>2, TroubleTyped DEF Abandon, BoundsTyped
    <2> QED
      BY <2>2, <2>3, <2>4 DEF durableVars, actorVars, DurableTyped, ActorsTyped, ChannelTyped,
                              JobsTyped
  <1>3. CASE \E k \in Calls : AgentCalls(k)
    <2>1. PICK k \in Calls : AgentCalls(k)
      BY <1>3
    <2>2. UNCHANGED <<durableVars, planVars, actorVars, job, lock, bounds>>
      BY <2>1 DEF AgentCalls
    <2>3. [kind |-> "tool", of |-> k, status |-> "none"] \in TypedEvent
      BY DEF TypedEvent, Event
    <2>4. channel' = Append(channel, [kind |-> "tool", of |-> k, status |-> "none"])
          /\ Len(channel) < Capacity
      BY <2>1 DEF AgentCalls, HasRoom
    <2>5. ChannelTyped'
      <3>1. Capacity \in Nat /\ Len(channel) \in Nat
        BY CoordinationAssumption DEF ChannelTyped
      <3> QED  BY <2>3, <2>4, <3>1, EventTypes DEF ChannelTyped
    <2> QED
      BY <2>2, <2>5 DEF durableVars, planVars, actorVars, bounds, DurableTyped, PlansTyped,
                        ActorsTyped, JobsTyped, BoundsTyped
  <1> QED  BY <1>1, <1>2, <1>3 DEF RuntimeStep

-----------------------------------------------------------------------------
\* An actor goes to another place.
LEMMA ActTyped ==
    ASSUME ActorsTyped, NEW s \in Sessions, NEW a \in Act,
           a.at \in {"plan", "void"} => a.plan \in Plans,
           a.at = "over" => status'[s] \in Rest,
           act' = [act EXCEPT ![s] = a],
           status' \in [Sessions -> Status], \A t \in Sessions : t # s => status'[t] = status[t],
           up' \subseteq Sessions, installed' \subseteq Sessions
    PROVE  ActorsTyped'
  BY DEF ActorsTyped

LEMMA PlaceTyped ==
    /\ \A p \in Plans : [Ready EXCEPT !.at = "plan", !.plan = p] \in Act
    /\ [Ready EXCEPT !.at = "over"] \in Act
    /\ \A todo \in SUBSET Plans, end \in {"none", "cancel", "disconnect", "closed"} :
          [Ready EXCEPT !.at = "retire", !.todo = todo, !.end = end] \in Act
  BY DEF Ready, Act

LEMMA HeardTyped ==
    ASSUME Typed, NEW s \in Sessions, NEW st \in Rest, Heard(s, st), working' \subseteq Sessions,
           troubles' \in Nat
    PROVE  Typed'
  <1>1. UNCHANGED <<responses, notice, unread, completion, hidden, owner, answer, arriving,
                    pending, listed, shown, up, installed, channel, job, lock, turns, faults>>
    BY DEF Heard
  <1>2. status' = [status EXCEPT ![s] = st] /\ status' \in [Sessions -> Status]
        /\ status'[s] = st /\ \A t \in Sessions : t # s => status'[t] = status[t]
    <2>1. status \in [Sessions -> Status] /\ st \in Status
      BY TypedParts DEF ActorsTyped, Status
    <2> QED  BY <2>1 DEF Heard
  <1>3. ActorsTyped'
    <2>1. ActorsTyped /\ up \subseteq Sessions /\ installed \subseteq Sessions
      BY TypedParts DEF ActorsTyped
    <2>2. CASE act' = act
      BY <1>1, <1>2, <2>1, <2>2 DEF ActorsTyped
    <2>3. CASE act' = [act EXCEPT ![s] = [Ready EXCEPT !.at = "over"]]
      <3>1. [Ready EXCEPT !.at = "over"].at = "over"
        BY DEF Ready
      <3> QED  BY <1>1, <1>2, <2>1, <2>3, <3>1, PlaceTyped, ActTyped
    <2> QED  BY <2>2, <2>3 DEF Heard
  <1> QED
    BY <1>1, <1>3, TypedParts, TypedNext
    DEF DurableTyped, PlansTyped, ChannelTyped, JobsTyped, BoundsTyped

LEMMA ReceiveTyped ==
    ASSUME Typed, NEW s \in Sessions, NEW p \in Plans, ReceivePlan(s, p)
    PROVE  Typed'
  <1>1. UNCHANGED <<durableVars, owner, working, answer, up, installed, otherVars>>
    BY DEF ReceivePlan
  <1>2. PlansTyped'
    BY <1>1, TypedParts DEF ReceivePlan, PlansTyped
  <1>3. ActorsTyped'
    <2>1. ActorsTyped /\ up \subseteq Sessions /\ installed \subseteq Sessions
          /\ status \in [Sessions -> Status]
      BY TypedParts DEF ActorsTyped
    <2>2. CASE act' = act
      BY <1>1, <2>1, <2>2 DEF ActorsTyped, durableVars
    <2>3. CASE act' = [act EXCEPT ![s] = [Ready EXCEPT !.at = "plan", !.plan = p]]
      <3>1. LET a == [Ready EXCEPT !.at = "plan", !.plan = p] IN a.at = "plan" /\ a.plan = p
        BY DEF Ready
      <3> QED  BY <1>1, <2>1, <2>3, <3>1, PlaceTyped, ActTyped DEF durableVars
    <2> QED  BY <2>2, <2>3 DEF ReceivePlan
  <1> QED
    BY <1>1, <1>2, <1>3, TypedParts, TypedNext
    DEF durableVars, otherVars, bounds, DurableTyped, ChannelTyped, JobsTyped, BoundsTyped

LEMMA TurnStartTyped ==
    ASSUME Typed, NEW s \in Sessions, TurnStart(s)
    PROVE  Typed'
  <1>1. UNCHANGED <<responses, notice, unread, completion, hidden, owner, answer, arriving,
                    pending, listed, shown, actorVars, channel, job, lock, faults, troubles>>
    BY DEF TurnStart
  <1>2. working' \subseteq Sessions /\ status' = [status EXCEPT ![s] = "busy"]
        /\ act[s].at = "ready" /\ turns' \in Nat
    BY TypedParts DEF TurnStart, IsReady, PlansTyped, BoundsTyped
  <1>3. ActorsTyped'
    BY <1>1, <1>2, TypedParts DEF ActorsTyped, Status, actorVars
  <1> QED
    BY <1>1, <1>2, <1>3, TypedParts, TypedNext
    DEF actorVars, DurableTyped, PlansTyped, ChannelTyped, JobsTyped, BoundsTyped

LEMMA NotifyTyped ==
    ASSUME Typed, NEW s \in Sessions, Notify(s)
    PROVE  Typed'
  <1>1. /\ UNCHANGED <<durableVars, planVars, up, installed, job, lock, bounds>>
        /\ channel' = Append(channel, EventOf(s)) /\ Len(channel) < Capacity
        /\ act[s].at \in {"plan", "void", "over"}
    BY DEF Notify, Notifying, HasRoom
  <1>2. act \in [Sessions -> Act] /\ status \in [Sessions -> Status]
        /\ (act[s].at \in {"plan", "void"} => act[s].plan \in Plans)
        /\ (act[s].at = "over" => status[s] \in Rest)
    BY TypedParts DEF ActorsTyped
  <1>3. EventOf(s) \in TypedEvent
    <2>1. CASE act[s].at = "plan"
      <3>1. EventOf(s) = [kind |-> "plan", of |-> act[s].plan, status |-> "none"]
        BY <2>1 DEF EventOf
      <3> QED  BY <2>1, <3>1, <1>2 DEF TypedEvent, Event
    <2>2. CASE act[s].at = "void"
      <3>1. EventOf(s) = [kind |-> "void", of |-> act[s].plan, status |-> "none"]
        BY <2>2 DEF EventOf
      <3> QED  BY <2>2, <3>1, <1>2 DEF TypedEvent, Event
    <2>3. CASE act[s].at = "over"
      <3>1. EventOf(s) = [kind |-> "over", of |-> s, status |-> status[s]]
        BY <2>3 DEF EventOf
      <3> QED  BY <2>3, <3>1, <1>2 DEF TypedEvent, Event
    <2> QED  BY <1>1, <2>1, <2>2, <2>3
  <1>4. ChannelTyped'
    <2>1. Capacity \in Nat /\ Len(channel) \in Nat /\ channel \in Seq(TypedEvent)
          /\ channel \in Seq(Event)
      BY CoordinationAssumption, TypedParts DEF ChannelTyped
    <2>2. /\ channel' \in Seq(TypedEvent) /\ channel' \in Seq(Event)
          /\ Len(channel') = Len(channel) + 1
      BY <1>1, <1>3, <2>1, EventTypes
    <2> QED  BY <1>1, <2>1, <2>2 DEF ChannelTyped
  <1>5. ActorsTyped'
    <2> DEFINE a == IF act[s].at = "void" THEN [act[s] EXCEPT !.at = "retire", !.plan = None]
                    ELSE Ready
    <2>1. a \in Act /\ a.at \in {"retire", "ready"}
      BY <1>2, ReadyTyped DEF Act
    <2>2. act' = [act EXCEPT ![s] = a]
      BY DEF Notify
    <2>3. ActorsTyped /\ up \subseteq Sessions /\ installed \subseteq Sessions
      BY TypedParts DEF ActorsTyped
    <2> HIDE DEF a
    <2> QED  BY <1>1, <1>2, <2>1, <2>2, <2>3, ActTyped DEF durableVars
  <1> QED
    BY <1>1, <1>4, <1>5, TypedParts, TypedNext
    DEF durableVars, planVars, bounds, DurableTyped, PlansTyped, JobsTyped, BoundsTyped

LEMMA CancellingTyped ==
    ASSUME Typed, NEW s \in Sessions, NEW end \in {"cancel", "disconnect", "closed"},
           Cancelling(s, end)
    PROVE  /\ responses' \subseteq Response
           /\ answer' \in [Plans -> Verdict \cup Unheard]
           /\ pending' \subseteq Plans /\ listed' \subseteq Plans
           /\ up' \subseteq Sessions /\ installed' \subseteq Sessions /\ status' = status
                => ActorsTyped'
           /\ faults' \in Nat /\ troubles' \in Nat
  <1> DEFINE open == PlansOf(s) \cap listed
             told == PlansOf(s) \cap pending
  <1>0. open \subseteq Plans
    BY DEF PlansOf
  <1>1. responses' \subseteq Response
    <2>1. PICK lost \in SUBSET open :
            responses' = responses \cup
                 {[by |-> <<"invalidation", p>>, plan |-> p, verdict |-> "cancel",
                   state |-> "failed"] :
                     p \in {q \in open \ lost : ~Claimed(<<"invalidation", q>>, q)}}
      BY DEF Cancelling
    <2>2. \A p \in Plans : [by |-> <<"invalidation", p>>, plan |-> p, verdict |-> "cancel",
                             state |-> "failed"] \in Response
      BY DEF Response, By
    <2> QED  BY <1>0, <2>1, <2>2, TypedParts DEF DurableTyped
  <1>2. answer' \in [Plans -> Verdict \cup Unheard]
    <2>1. answer' = [p \in Plans |-> IF p \in told /\ answer[p] = "none"
                                     THEN "cancel" ELSE answer[p]]
      BY DEF Cancelling
    <2> HIDE DEF told
    <2> QED  BY <2>1, TypedParts DEF PlansTyped, Unheard
  <1>3. pending' \subseteq Plans /\ listed' \subseteq Plans
    BY TypedParts DEF PlansTyped, Cancelling
  <1>4. faults' \in Nat /\ troubles' \in Nat
    BY TypedParts, TroubleTyped DEF Cancelling, BoundsTyped
  <1>5. ASSUME up' \subseteq Sessions, installed' \subseteq Sessions, status' = status
        PROVE  ActorsTyped'
    <2> DEFINE a == [Ready EXCEPT !.at = "retire", !.todo = open, !.end = end]
    <2>1. a \in Act /\ a.at = "retire"
      BY <1>0, PlaceTyped DEF Ready
    <2>2. act' = [act EXCEPT ![s] = a]
      BY DEF Cancelling
    <2>3. ActorsTyped /\ status \in [Sessions -> Status]
      BY TypedParts DEF ActorsTyped
    <2> HIDE DEF a
    <2> QED  BY <1>5, <2>1, <2>2, <2>3, ActTyped
  <1> QED  BY <1>1, <1>2, <1>3, <1>4, <1>5

LEMMA WithdrawnTyped ==
    ASSUME notice \in [Plans -> Notice], unread \subseteq Plans, NEW p \in Plans, Withdrawn(p)
    PROVE  notice' \in [Plans -> Notice] /\ unread' \subseteq Plans
  BY DEF Withdrawn, Notice

LEMMA CancelTyped ==
    ASSUME Typed, NEW s \in Sessions, Obey(s) \/ ProviderCloses(s)
    PROVE  Typed'
  <1> DEFINE Others == UNCHANGED <<notice, unread, completion, status, hidden, owner, working,
                                   arriving, shown, up, installed, channel, lock, turns>>
  <1>1. Others
    BY DEF Obey, ProviderCloses
  <1>2. PICK end \in {"cancel", "disconnect", "closed"} : Cancelling(s, end)
    BY DEF Obey, ProviderCloses
  <1>3. JobsTyped'
    <2>1. Step(Service, "await") \/ UNCHANGED job
      BY DEF Obey, ProviderCloses, Step
    <2> QED  BY <1>1, <2>1, TypedParts, StepTyped, SetsDiffer DEF JobsTyped, Places
  <1>4. /\ responses' \subseteq Response
        /\ answer' \in [Plans -> Verdict \cup Unheard]
        /\ pending' \subseteq Plans /\ listed' \subseteq Plans
        /\ up' \subseteq Sessions /\ installed' \subseteq Sessions /\ status' = status
             => ActorsTyped'
        /\ faults' \in Nat /\ troubles' \in Nat
    BY <1>2, CancellingTyped
  <1>5. ActorsTyped'
    BY <1>1, <1>4, TypedParts DEF ActorsTyped
  <1> QED
    BY <1>1, <1>3, <1>4, <1>5, TypedParts, TypedNext
    DEF DurableTyped, PlansTyped, ChannelTyped, BoundsTyped

LEMMA RetireTyped ==
    ASSUME Typed, NEW s \in Sessions, Retire(s)
    PROVE  Typed'
  <1>1. UNCHANGED <<responses, completion, status, hidden, planVars, up, installed,
                    channel, job, lock, turns>>
    BY DEF Retire
  <1>2. PICK p \in act[s].todo, ok \in BOOLEAN :
        /\ Works(ok)
        /\ IF ok THEN Withdrawn(p) ELSE UNCHANGED <<notice, unread>>
        /\ act' = [act EXCEPT ![s].todo = @ \ {p},
                              ![s].plan = IF Parent[s] = None THEN None ELSE p,
                              ![s].at = IF Parent[s] = None THEN "retire" ELSE "void"]
    BY DEF Retire
  <1>3. ActorsTyped /\ act[s] \in Act /\ up \subseteq Sessions /\ installed \subseteq Sessions
        /\ status \in [Sessions -> Status] /\ act \in [Sessions -> Act]
    BY TypedParts DEF ActorsTyped
  <1>4. p \in Plans
    BY <1>3 DEF Act
  <1>5. notice' \in [Plans -> Notice] /\ unread' \subseteq Plans
    BY <1>2, <1>4, TypedParts, WithdrawnTyped DEF DurableTyped
  <1>6. ActorsTyped'
    <2> DEFINE b == [[[act[s] EXCEPT !.todo = @ \ {p}]
                       EXCEPT !.plan = IF Parent[s] = None THEN None ELSE p]
                       EXCEPT !.at = IF Parent[s] = None THEN "retire" ELSE "void"]
    <2>1. b \in Act /\ b.at \in {"retire", "void"} /\ (b.at = "void" => b.plan \in Plans)
      BY <1>3, <1>4 DEF Act
    <2>2. act' = [act EXCEPT ![s] = b]
      BY <1>2, <1>3
    <2> HIDE DEF b
    <2> QED  BY <1>1, <1>3, <2>1, <2>2, ActTyped
  <1>7. BoundsTyped'
    BY <1>1, <1>2, TypedParts, TroubleTyped DEF BoundsTyped
  <1> QED
    BY <1>1, <1>5, <1>6, <1>7, TypedParts, TypedNext
    DEF planVars, DurableTyped, PlansTyped, ChannelTyped, JobsTyped

LEMMA LostTyped ==
    ASSUME Typed, NEW S, answer' = LostWith(S)
    PROVE  answer' \in [Plans -> Verdict \cup Unheard]
  BY TypedParts DEF LostWith, PlansTyped, Unheard

\* The service's command is over, or goes on without its actor.
LEMMA OnwardTyped ==
    ASSUME Typed,
           job' = [job EXCEPT ![Service] =
                     CASE @.op = "cancel"  -> Idle
                       [] @.op = "close"   -> [@ EXCEPT !.at = "unmap"]
                       [] @.op = "archive" -> [@ EXCEPT !.at = "store"]],
           job[Service].op \in {"cancel", "close", "archive"}
    PROVE  \/ Finish(Service) /\ job[Service].op = "cancel"
           \/ Step(Service, "unmap") /\ job[Service].op = "close"
           \/ Step(Service, "store") /\ job[Service].op = "archive"
  <1>1. job \in [Workers -> TypedJob] /\ Service \in Workers
    BY TypedParts, SetsDiffer DEF JobsTyped
  <1>2. CASE job[Service].op = "cancel"
    BY <1>1, <1>2 DEF Finish
  <1>3. CASE job[Service].op = "close"
    BY <1>1, <1>3 DEF Step
  <1>4. CASE job[Service].op = "archive"
    BY <1>1, <1>4 DEF Step
  <1> QED  BY <1>2, <1>3, <1>4

LEMMA EndedTyped ==
    ASSUME Typed, Obeying, NEW s \in Sessions, Ended(s)
    PROVE  Typed'
  <1>1. /\ UNCHANGED <<durableVars, owner, working, pending, listed, installed, channel, lock,
                       bounds>>
        /\ act' = [act EXCEPT ![s] = Ready]
        /\ shown' = (shown \ PlansOf(s)) \cup (listed \cap PlansOf(s))
    BY DEF Ended
  <1>2. up' \subseteq Sessions /\ arriving' \subseteq Plans
        /\ answer' \in [Plans -> Verdict \cup Unheard]
    <2>1. CASE UNCHANGED <<up, answer, arriving>>
      BY <2>1, TypedParts DEF PlansTyped, ActorsTyped
    <2>2. CASE up' = up \ {s} /\ answer' = LostWith({s}) /\ arriving' = arriving \ PlansOf(s)
      BY <2>2, TypedParts, LostTyped DEF PlansTyped, ActorsTyped
    <2> QED  BY <2>1, <2>2 DEF Ended
  <1>3. shown' \subseteq Plans
    BY <1>1, TypedParts DEF PlansTyped
  <1>4. ActorsTyped'
    BY <1>1, <1>2, TypedParts, ReadyTyped, ActTyped DEF ActorsTyped, durableVars
  <1>5. JobsTyped'
    <2>1. CASE act[s].end = "closed"
      <3>1. job' = job
        BY <2>1 DEF Ended
      <3> QED  BY <1>1, <3>1, TypedParts DEF JobsTyped
    <2>2. CASE act[s].end # "closed"
      <3>1. job[Service].op \in {"cancel", "close", "archive"}
        <4>1. act[s].end \in {"none", "cancel", "disconnect"}
          BY <2>2, TypedParts DEF ActorsTyped, Act
        <4>2. act[s].end # "none"
          BY DEF Ended, Obeying
        <4> QED  BY <4>1, <4>2 DEF Obeying
      <3>2. Finish(Service) \/ Step(Service, "unmap") \/ Step(Service, "store")
        BY <2>2, <3>1, OnwardTyped DEF Ended
      <3> QED  BY <1>1, <3>2, TypedParts, StepTyped, FinishTyped, SetsDiffer DEF JobsTyped, Places
    <2> QED  BY <2>1, <2>2
  <1> QED
    BY <1>1, <1>2, <1>3, <1>4, <1>5, TypedParts, TypedNext
    DEF durableVars, bounds, DurableTyped, PlansTyped, ChannelTyped, BoundsTyped

LEMMA ActorTyped == Typed /\ Obeying /\ ActorStep => Typed'
  <1> SUFFICES ASSUME Typed, Obeying, ActorStep PROVE Typed'
    OBVIOUS
  <1>1. ASSUME NEW s \in Sessions, NEW st \in Rest, TurnOver(s, st) PROVE Typed'
    <2>1. working' \subseteq Sessions /\ troubles' \in Nat /\ Heard(s, st)
      BY <1>1, TypedParts DEF TurnOver, PlansTyped, BoundsTyped
    <2> QED  BY <2>1, HeardTyped
  <1>2. ASSUME NEW s \in Sessions, WorkFails(s) PROVE Typed'
    <2>1. working' \subseteq Sessions /\ troubles' \in Nat /\ Heard(s, "failed")
      BY <1>2, TypedParts, TroubleTyped DEF WorkFails, PlansTyped, BoundsTyped
    <2> QED  BY <2>1, HeardTyped DEF Rest
  <1>3. ASSUME NEW p \in Plans, Deliver(p) PROVE Typed'
    <2>1. UNCHANGED <<responses, unread, completion, status, hidden, planVars, actorVars, otherVars>>
      BY <1>3 DEF Deliver
    <2>2. notice' \in [Plans -> Notice]
      BY <1>3, TypedParts DEF Deliver, DurableTyped, Notice
    <2> QED
      BY <2>1, <2>2, TypedParts, TypedNext
      DEF planVars, actorVars, otherVars, bounds, DurableTyped, PlansTyped, ActorsTyped,
          ChannelTyped, JobsTyped, BoundsTyped
  <1> QED
    BY <1>1, <1>2, <1>3, ReceiveTyped, TurnStartTyped, NotifyTyped, CancelTyped, RetireTyped,
       EndedTyped
    DEF ActorStep

-----------------------------------------------------------------------------
(* Workers.                                                                *)

\* A worker goes on or is done, and takes, keeps or releases the lock.
LEMMA MovesTyped ==
    ASSUME Typed, NEW w \in Workers,
           Finish(w) \/ \E at \in Places : Step(w, at),
           UNCHANGED lock \/ Release(w) \/ lock' = w
    PROVE  JobsTyped'
  <1>1. job \in [Workers -> TypedJob] /\ lock \in Workers \cup {None}
    BY TypedParts DEF JobsTyped
  <1>2. job' \in [Workers -> TypedJob]
    BY <1>1, StepTyped, FinishTyped
  <1>3. lock' \in Workers \cup {None}
    BY <1>1, ReleaseTyped
  <1> QED  BY <1>2, <1>3 DEF JobsTyped

LEMMA LockTyped ==
    ASSUME Typed, NEW w \in Workers, Lock(w)
    PROVE  Typed'
  <1>1. UNCHANGED <<durableVars, planVars, up, act, channel, bounds>>
    BY DEF Lock
  <1>2. JobsTyped'
    <2>1. \E at \in Places : Step(w, at)
      BY DEF Lock, Places
    <2> QED  BY <2>1, MovesTyped DEF Lock
  <1>3. ActorsTyped'
    BY <1>1, TypedParts DEF Lock, ActorsTyped, durableVars
  <1> QED
    BY <1>1, <1>2, <1>3, TypedParts, TypedNext
    DEF durableVars, planVars, bounds, DurableTyped, PlansTyped, ChannelTyped, BoundsTyped

LEMMA CheckTyped ==
    ASSUME Typed, NEW w \in Workers, Check(w)
    PROVE  Typed'
  <1>1. UNCHANGED <<durableVars, planVars, actorVars, channel, bounds>>
    BY DEF Check
  <1>2. JobsTyped'
    <2>1. (Finish(w) \/ \E at \in Places : Step(w, at)) /\ (UNCHANGED lock \/ Release(w))
      BY DEF Check, Places
    <2> QED  BY <2>1, MovesTyped
  <1> QED
    BY <1>1, <1>2, TypedParts, TypedNext
    DEF durableVars, planVars, actorVars, bounds, DurableTyped, PlansTyped, ActorsTyped,
        ChannelTyped, BoundsTyped

LEMMA ClaimTyped ==
    ASSUME Typed, NEW w \in Workers, Claim(w)
    PROVE  Typed'
  <1>1. UNCHANGED <<notice, unread, completion, status, hidden, planVars, actorVars,
                    channel, bounds>>
    BY DEF Claim
  <1>2. JobsTyped'
    <2>1. (Finish(w) \/ \E at \in Places : Step(w, at)) /\ (UNCHANGED lock \/ Release(w))
      BY DEF Claim, Places
    <2> QED  BY <2>1, MovesTyped
  <1>3. responses' \subseteq Response
    <2>1. job[w] \in TypedJob /\ job[w].op = "answer"
      BY TypedParts DEF JobsTyped, Claim, At
    <2>2. job[w].by \in By /\ job[w].plan \in Plans /\ job[w].verdict \in Verdict
      BY <2>1 DEF TypedJob
    <2> DEFINE r == [by |-> job[w].by, plan |-> job[w].plan, verdict |-> job[w].verdict,
                     state |-> "submitting"]
    <2>3. r \in Response
      BY <2>2 DEF Response
    <2>4. responses' = responses \/ responses' = responses \cup {r}
      BY DEF Claim
    <2> HIDE DEF r
    <2> QED  BY <2>3, <2>4, TypedParts DEF DurableTyped
  <1> QED
    BY <1>1, <1>2, <1>3, TypedParts, TypedNext
    DEF planVars, actorVars, bounds, DurableTyped, PlansTyped, ActorsTyped, ChannelTyped,
        BoundsTyped

LEMMA AskTyped ==
    ASSUME Typed, NEW w \in Workers, Ask(w)
    PROVE  Typed'
  <1>1. UNCHANGED <<durableVars, owner, working, arriving, actorVars, channel, lock, bounds>>
    BY DEF Ask
  <1>2. JobsTyped'
    <2>1. Finish(w) \/ \E at \in Places : Step(w, at)
      BY DEF Ask, Answered, Places
    <2> QED  BY <1>1, <2>1, MovesTyped
  <1>3. PlansTyped'
    <2>1. job[w].verdict \in Verdict
      BY TypedParts DEF JobsTyped, TypedJob, Ask
    <2> QED  BY <1>1, <2>1, TypedParts DEF Ask, Answered, PlansTyped
  <1> QED
    BY <1>1, <1>2, <1>3, TypedParts, TypedNext
    DEF durableVars, actorVars, bounds, DurableTyped, ActorsTyped, ChannelTyped, BoundsTyped

LEMMA StoreTyped ==
    ASSUME Typed, NEW w \in Workers, Store(w)
    PROVE  Typed'
  <1>1. UNCHANGED <<notice, unread, completion, status, hidden, planVars, actorVars,
                    channel, turns>>
    BY DEF Store
  <1>2. PICK ok \in BOOLEAN :
        /\ Works(ok)
        /\ Record(w, ok)
        /\ IF ok /\ job[w].at = "store" THEN Step(w, "retire") /\ UNCHANGED lock
           ELSE Finish(w) /\ Release(w)
    BY DEF Store
  <1>3. JobsTyped'
    <2>1. (Finish(w) \/ \E at \in Places : Step(w, at)) /\ (UNCHANGED lock \/ Release(w))
      BY <1>2 DEF Places
    <2> QED  BY <2>1, MovesTyped
  <1>4. responses' \subseteq Response
    <2>1. \A r \in Response, st \in {"submitted", "failed"} : [r EXCEPT !.state = st] \in Response
      BY DEF Response
    <2>2. responses \subseteq Response
      BY TypedParts DEF DurableTyped
    <2>3. CASE ok
      <3> DEFINE by == job[w].by
                 st == IF job[w].at = "store" THEN "submitted" ELSE "failed"
      <3>1. responses' = {IF r.by = by THEN [r EXCEPT !.state = st] ELSE r : r \in responses}
        BY <1>2, <2>3 DEF Record, SetResponse
      <3>2. st \in {"submitted", "failed"}
        OBVIOUS
      <3> HIDE DEF by, st, Response
      <3> QED  BY <2>1, <2>2, <3>1, <3>2
    <2>4. CASE ~ok
      BY <1>2, <2>2, <2>4 DEF Record
    <2> QED  BY <2>3, <2>4
  <1>5. BoundsTyped'
    BY <1>1, <1>2, TypedParts, TroubleTyped DEF BoundsTyped
  <1> QED
    BY <1>1, <1>3, <1>4, <1>5, TypedParts, TypedNext
    DEF planVars, actorVars, DurableTyped, PlansTyped, ActorsTyped, ChannelTyped

LEMMA WithdrawNoticeTyped ==
    ASSUME Typed, NEW w \in Workers, WithdrawNotice(w)
    PROVE  Typed'
  <1>1. UNCHANGED <<responses, completion, status, hidden, planVars, actorVars,
                    channel, turns>>
    BY DEF WithdrawNotice
  <1>2. PICK ok \in BOOLEAN :
        /\ Works(ok)
        /\ IF ok THEN Withdrawn(job[w].plan) ELSE UNCHANGED <<notice, unread>>
        /\ IF ok /\ notice[job[w].plan] # "none"
           THEN Step(w, "sync") /\ UNCHANGED lock
           ELSE Finish(w) /\ Release(w)
    BY DEF WithdrawNotice
  <1>3. JobsTyped'
    <2>1. (Finish(w) \/ \E at \in Places : Step(w, at)) /\ (UNCHANGED lock \/ Release(w))
      BY <1>2 DEF Places
    <2> QED  BY <2>1, MovesTyped
  <1>4. notice' \in [Plans -> Notice] /\ unread' \subseteq Plans
    <2>1. job[w].plan \in Plans
      BY TypedParts DEF JobsTyped, TypedJob, WithdrawNotice, At
    <2> QED  BY <1>2, <2>1, TypedParts, WithdrawnTyped DEF DurableTyped
  <1>5. BoundsTyped'
    BY <1>1, <1>2, TypedParts, TroubleTyped DEF BoundsTyped
  <1> QED
    BY <1>1, <1>3, <1>4, <1>5, TypedParts, TypedNext
    DEF planVars, actorVars, DurableTyped, PlansTyped, ActorsTyped, ChannelTyped

LEMMA SyncTyped ==
    ASSUME Typed, NEW w \in Workers, Sync(w)
    PROVE  Typed'
  <1>1. UNCHANGED <<durableVars, planVars, actorVars, channel, bounds>>
    BY DEF Sync
  <1>2. JobsTyped'
    BY MovesTyped DEF Sync
  <1> QED
    BY <1>1, <1>2, TypedParts, TypedNext
    DEF durableVars, planVars, actorVars, bounds, DurableTyped, PlansTyped, ActorsTyped,
        ChannelTyped, BoundsTyped

LEMMA WorkerTyped ==
    ASSUME Typed, NEW w \in Workers, WorkerStep(w)
    PROVE  Typed'
  BY LockTyped, CheckTyped, ClaimTyped, AskTyped, StoreTyped, WithdrawNoticeTyped, SyncTyped
  DEF WorkerStep, RecordStep

\* The gateway turns an event into a job.
LEMMA JobOfTyped ==
    ASSUME NEW e \in TypedEvent
    PROVE  JobOf(e) \in TypedJob /\ JobOf(e).sess \in Sessions \cup {None}
  <1>1. e \in Event
    BY DEF TypedEvent
  <1>2. CASE e.kind = "tool"
    <2>1. e.of \in Calls /\ About[e.of] \in Plans /\ Wants[e.of] \in Verdict
      BY <1>2, CoordinationAssumption DEF TypedEvent
    <2>2. JobOf(e) = [op |-> "answer", at |-> "lock", plan |-> About[e.of], sess |-> None,
                      by |-> e.of, verdict |-> Wants[e.of]]
      BY <1>2 DEF JobOf, Idle
    <2> QED  BY <2>1, <2>2 DEF TypedJob, Job, By
  <1>3. CASE e.kind = "plan"
    <2>1. e.of \in Plans
      BY <1>3 DEF TypedEvent
    <2>2. JobOf(e) = [op |-> "plan", at |-> "check", plan |-> e.of, sess |-> None,
                      by |-> None, verdict |-> "none"]
      BY <1>3 DEF JobOf, Idle
    <2> QED  BY <2>1, <2>2 DEF TypedJob, Job
  <1>4. CASE e.kind = "void"
    <2>1. e.of \in Plans
      BY <1>4 DEF TypedEvent
    <2>2. JobOf(e) = [op |-> "void", at |-> "sync", plan |-> e.of, sess |-> None,
                      by |-> None, verdict |-> "none"]
      BY <1>4 DEF JobOf, Idle
    <2> QED  BY <2>1, <2>2 DEF TypedJob, Job
  <1>5. CASE e.kind = "over"
    <2>1. e.of \in Sessions /\ e.status \in Rest
      BY <1>5 DEF TypedEvent
    <2>2. JobOf(e) = [op |-> "over", at |-> "check", plan |-> None, sess |-> e.of,
                      by |-> None, verdict |-> e.status]
      BY <1>5 DEF JobOf, Idle
    <2> QED  BY <2>1, <2>2 DEF TypedJob, Job
  <1> QED  BY <1>1, <1>2, <1>3, <1>4, <1>5 DEF Event

\* A worker is given a job.
LEMMA GivenTyped ==
    ASSUME job \in [Workers -> TypedJob], NEW w \in Workers, NEW j \in TypedJob,
           job' = [job EXCEPT ![w] = j]
    PROVE  /\ job' \in [Workers -> TypedJob] /\ job'[w] = j
           /\ \A v \in Workers : v # w => job'[v] = job[v]
  OBVIOUS

LEMMA TakeTyped ==
    ASSUME Typed, Take
    PROVE  Typed'
  <1>1. UNCHANGED <<durableVars, planVars, actorVars, lock, bounds>>
    BY DEF Take
  <1>2. /\ channel \in Seq(TypedEvent) /\ channel \in Seq(Event) /\ Len(channel) <= Capacity
        /\ channel # <<>> /\ channel' = Tail(channel)
    BY TypedParts DEF Take, ChannelTyped
  <1>3. /\ Head(channel) \in TypedEvent /\ Tail(channel) \in Seq(TypedEvent)
        /\ Tail(channel) \in Seq(Event) /\ Len(Tail(channel)) = Len(channel) - 1
    <2> HIDE DEF TypedEvent, Event
    <2> QED  BY <1>2
  <1>4. JobsTyped'
    <2>1. job' = [job EXCEPT ![Gateway] = JobOf(Head(channel))]
      BY DEF Take
    <2>2. JobOf(Head(channel)) \in TypedJob
      BY <1>3, JobOfTyped
    <2> QED  BY <1>1, <2>1, <2>2, TypedParts, GivenTyped, SetsDiffer DEF JobsTyped
  <1>5. ChannelTyped'
    <2>1. Capacity \in Nat /\ Len(channel) \in Nat
      BY <1>2, CoordinationAssumption
    <2> QED  BY <1>2, <1>3, <2>1 DEF ChannelTyped
  <1> QED
    BY <1>1, <1>4, <1>5, TypedParts, TypedNext
    DEF durableVars, planVars, actorVars, bounds, DurableTyped, PlansTyped, ActorsTyped, BoundsTyped

LEMMA PlanCheckedTyped ==
    ASSUME Typed, PlanChecked
    PROVE  Typed'
  <1>1. UNCHANGED <<durableVars, planVars, actorVars, channel, lock, bounds>>
    BY DEF PlanChecked
  <1>2. JobsTyped'
    <2>1. Finish(Gateway) \/ \E at \in Places : Step(Gateway, at)
      BY DEF PlanChecked, Places
    <2> QED  BY <1>1, <2>1, MovesTyped, SetsDiffer
  <1> QED
    BY <1>1, <1>2, TypedParts, TypedNext
    DEF durableVars, planVars, actorVars, bounds, DurableTyped, PlansTyped, ActorsTyped,
        ChannelTyped, BoundsTyped

LEMMA PlanStoredTyped ==
    ASSUME Typed, PlanStored
    PROVE  Typed'
  <1>1. UNCHANGED <<responses, completion, status, hidden, planVars, actorVars, channel,
                    lock, turns>>
    BY DEF PlanStored
  <1> DEFINE p == job[Gateway].plan
  <1>2. PICK ok \in BOOLEAN :
        /\ Works(ok)
        /\ IF ok /\ ~NotWanted(p)
           THEN /\ notice' = [notice EXCEPT ![p] = "pending"]
                /\ unread' = unread \cup {p}
                /\ Step(Gateway, "sync")
           ELSE Finish(Gateway) /\ UNCHANGED <<notice, unread>>
    BY DEF PlanStored
  <1>3. p \in Plans
    BY TypedParts, SetsDiffer DEF JobsTyped, TypedJob, PlanStored, At
  <1>4. JobsTyped'
    <2>1. Finish(Gateway) \/ \E at \in Places : Step(Gateway, at)
      BY <1>2 DEF Places
    <2> QED  BY <1>1, <2>1, MovesTyped, SetsDiffer
  <1>5. notice' \in [Plans -> Notice] /\ unread' \subseteq Plans
    BY <1>2, <1>3, TypedParts DEF DurableTyped, Notice
  <1>6. BoundsTyped'
    BY <1>1, <1>2, TypedParts, TroubleTyped DEF BoundsTyped
  <1> QED
    BY <1>1, <1>4, <1>5, <1>6, TypedParts, TypedNext
    DEF planVars, actorVars, DurableTyped, PlansTyped, ActorsTyped, ChannelTyped

LEMMA CompletionTyped ==
    ASSUME Typed, Completion
    PROVE  Typed'
  <1>1. UNCHANGED <<responses, notice, unread, status, hidden, planVars, actorVars, channel,
                    lock, turns>>
    BY DEF Completion
  <1> DEFINE s == job[Gateway].sess
             st == job[Gateway].verdict
  <1>2. PICK ok \in BOOLEAN :
        /\ Works(ok)
        /\ IF ok /\ Visible(s) /\ Visible(Parent[s])
           THEN /\ completion' = Completed(s, st)
                /\ IF completion[s] = "none" THEN Step(Gateway, "sync")
                   ELSE Finish(Gateway)
           ELSE Finish(Gateway) /\ UNCHANGED completion
    BY DEF Completion
  <1>3. s \in Sessions /\ st \in Rest
    BY TypedParts, SetsDiffer DEF JobsTyped, TypedJob, Completion, At
  <1>4. JobsTyped'
    <2>1. Finish(Gateway) \/ \E at \in Places : Step(Gateway, at)
      BY <1>2 DEF Places
    <2> QED  BY <1>1, <2>1, MovesTyped, SetsDiffer
  <1>5. completion' \in [Sessions -> Rest \cup {"none"}]
    BY <1>2, <1>3, TypedParts DEF DurableTyped, Completed
  <1>6. BoundsTyped'
    BY <1>1, <1>2, TypedParts, TroubleTyped DEF BoundsTyped
  <1> QED
    BY <1>1, <1>4, <1>5, <1>6, TypedParts, TypedNext
    DEF planVars, actorVars, DurableTyped, PlansTyped, ActorsTyped, ChannelTyped

-----------------------------------------------------------------------------
(* The service, and the life of sessions.                                  *)

\* The jobs the service begins with.
LEMMA AnswersTyped ==
    ASSUME NEW p \in Plans, NEW v \in Verdict
    PROVE  /\ [Idle EXCEPT !.op = "plain", !.at = "ask", !.plan = p, !.verdict = v] \in TypedJob
           /\ [Idle EXCEPT !.op = "answer", !.at = "lock", !.plan = p,
                           !.verdict = v, !.by = <<"ui", p>>] \in TypedJob
  <1> DEFINE a == [Idle EXCEPT !.op = "plain", !.at = "ask", !.plan = p, !.verdict = v]
             b == [Idle EXCEPT !.op = "answer", !.at = "lock", !.plan = p,
                               !.verdict = v, !.by = <<"ui", p>>]
  <1>1. a \in TypedJob
    <2>1. a \in Job /\ a.op = "plain" /\ a.plan = p /\ a.verdict = v /\ a.sess = None
      BY DEF Idle, Job
    <2> HIDE DEF a
    <2> QED  BY <2>1 DEF TypedJob
  <1>2. b \in TypedJob
    <2> DEFINE by == <<"ui", p>>
    <2>1. by \in By
      BY DEF By
    <2> HIDE DEF by
    <2>2. [Idle EXCEPT !.op = "answer", !.at = "lock", !.plan = p, !.verdict = v, !.by = by]
            \in Job
      BY <2>1 DEF Idle, Job
    <2>3. b \in Job /\ b.op = "answer" /\ b.plan = p /\ b.verdict = v /\ b.sess = None
          /\ b.by \in By
      BY <2>1, <2>2 DEF Idle, by
    <2> HIDE DEF b
    <2> QED  BY <2>3 DEF TypedJob
  <1> QED  BY <1>1, <1>2

LEMMA StartsTyped ==
    ASSUME NEW s \in Sessions, NEW op \in {"cancel", "close", "archive"}
    PROVE  [Idle EXCEPT !.op = op, !.sess = s, !.at = IF op = "archive" THEN "lock" ELSE "ask"]
             \in TypedJob
  <1> DEFINE at == IF op = "archive" THEN "lock" ELSE "ask"
             a == [Idle EXCEPT !.op = op, !.sess = s, !.at = at]
  <1>1. a \in TypedJob
    <2>1. at \in {"lock", "ask"}
      OBVIOUS
    <2> HIDE DEF at
    <2>2. a \in Job /\ a.op = op /\ a.sess = s
      BY <2>1 DEF Idle, Job
    <2> HIDE DEF a
    <2> QED  BY <2>2 DEF TypedJob
  <1> QED  BY <1>1

LEMMA ServiceAnswersTyped ==
    ASSUME Typed, NEW p \in Plans, NEW v \in Verdict, ServiceAnswers(p, v)
    PROVE  Typed'
  <1>1. UNCHANGED <<durableVars, planVars, actorVars, channel, lock, bounds>>
    BY DEF ServiceAnswers
  <1> DEFINE a == [Idle EXCEPT !.op = "plain", !.at = "ask", !.plan = p, !.verdict = v]
             b == [Idle EXCEPT !.op = "answer", !.at = "lock", !.plan = p,
                               !.verdict = v, !.by = <<"ui", p>>]
  <1>2. a \in TypedJob
    BY AnswersTyped
  <1>3. b \in TypedJob
    BY AnswersTyped
  <1>4. job' = [job EXCEPT ![Service] = a] \/ job' = [job EXCEPT ![Service] = b]
    BY DEF ServiceAnswers
  <1>5. JobsTyped'
    <2> HIDE DEF a, b
    <2> QED  BY <1>1, <1>2, <1>3, <1>4, TypedParts, GivenTyped, SetsDiffer DEF JobsTyped
  <1> QED
    BY <1>1, <1>5, TypedParts, TypedNext
    DEF durableVars, planVars, actorVars, bounds, DurableTyped, PlansTyped, ActorsTyped,
        ChannelTyped, BoundsTyped

LEMMA ServiceStartsTyped ==
    ASSUME Typed, NEW s \in Sessions, NEW op \in {"cancel", "close", "archive"},
           ServiceStarts(s, op)
    PROVE  Typed'
  <1>1. UNCHANGED <<durableVars, planVars, actorVars, channel, lock, faults, troubles>>
    BY DEF ServiceStarts
  <1> DEFINE at == IF op = "archive" THEN "lock" ELSE "ask"
             a == [Idle EXCEPT !.op = op, !.sess = s, !.at = at]
  <1>2. a \in TypedJob
    BY StartsTyped
  <1>3. job' = [job EXCEPT ![Service] = a]
    BY DEF ServiceStarts
  <1>4. JobsTyped'
    <2> HIDE DEF a
    <2> QED  BY <1>1, <1>2, <1>3, TypedParts, GivenTyped, SetsDiffer DEF JobsTyped
  <1>5. BoundsTyped'
    BY <1>1, TypedParts DEF ServiceStarts, BoundsTyped
  <1> QED
    BY <1>1, <1>4, <1>5, TypedParts, TypedNext
    DEF durableVars, planVars, actorVars, DurableTyped, PlansTyped, ActorsTyped, ChannelTyped

LEMMA ServiceMissesTyped ==
    ASSUME Typed, ServiceMisses
    PROVE  Typed'
  <1>1. UNCHANGED <<durableVars, planVars, actorVars, channel, lock, bounds>>
    BY DEF ServiceMisses
  <1>2. JobsTyped'
    <2>1. Finish(Service) \/ \E at \in Places : Step(Service, at)
      BY OnwardTyped DEF ServiceMisses, Places
    <2> QED  BY <1>1, <2>1, MovesTyped, SetsDiffer
  <1> QED
    BY <1>1, <1>2, TypedParts, TypedNext
    DEF durableVars, planVars, actorVars, bounds, DurableTyped, PlansTyped, ActorsTyped,
        ChannelTyped, BoundsTyped

LEMMA UnmapTyped ==
    ASSUME Typed, Unmap
    PROVE  Typed'
  <1>1. UNCHANGED <<durableVars, planVars, up, act, channel, lock, bounds>>
    BY DEF Unmap
  <1>2. JobsTyped'
    BY <1>1, MovesTyped, SetsDiffer DEF Unmap
  <1>3. ActorsTyped'
    BY <1>1, TypedParts DEF Unmap, ActorsTyped, durableVars
  <1> QED
    BY <1>1, <1>2, <1>3, TypedParts, TypedNext
    DEF durableVars, planVars, bounds, DurableTyped, PlansTyped, ChannelTyped, BoundsTyped

LEMMA ArchiveTyped ==
    ASSUME Typed, Archive
    PROVE  Typed'
  <1>1. UNCHANGED <<responses, notice, unread, completion, status, planVars, actorVars,
                    channel, lock, bounds>>
    BY DEF Archive
  <1>2. JobsTyped'
    BY <1>1, MovesTyped, SetsDiffer DEF Archive, Places
  <1>3. hidden' \subseteq Sessions
    <2>1. job[Service].sess \in Sessions
      BY TypedParts, SetsDiffer DEF JobsTyped, TypedJob, Archive, At
    <2> QED  BY <2>1, TypedParts DEF Archive, DurableTyped
  <1> QED
    BY <1>1, <1>2, <1>3, TypedParts, TypedNext
    DEF planVars, actorVars, bounds, DurableTyped, PlansTyped, ActorsTyped, ChannelTyped,
        BoundsTyped

\* What became of rows in `submitting` when their session was archived.
RetiredRows(s, R) ==
    {IF r.state = "submitting" /\ s \in {owner[r.plan], CallerOf(r.by)}
     THEN [r EXCEPT !.state = "failed"] ELSE r : r \in R}

LEMMA FailedTyped == \A r \in Response : [r EXCEPT !.state = "failed"] \in Response
  BY DEF Response

LEMMA RetireCoordinationTyped ==
    ASSUME Typed, RetireCoordination
    PROVE  Typed'
  <1>1. UNCHANGED <<completion, status, hidden, planVars, actorVars, channel, turns>>
    BY DEF RetireCoordination
  <1> DEFINE s == job[Service].sess
             S == {p \in Plans : notice[p] = "pending" /\ s \in {owner[p], Parent[owner[p]]}}
  <1>2. PICK ok \in BOOLEAN :
           /\ Works(ok)
           /\ IF ok
              THEN /\ notice' = [p \in Plans |-> IF p \in S THEN "retired" ELSE notice[p]]
                   /\ unread' = unread \ S
                   /\ responses' = RetiredRows(s, responses)
              ELSE UNCHANGED <<notice, unread, responses>>
    BY DEF RetireCoordination, RetiredRows
  <1>3. JobsTyped'
    BY MovesTyped, SetsDiffer DEF RetireCoordination
  <1>4. notice' \in [Plans -> Notice] /\ unread' \subseteq Plans
    <2> HIDE DEF S
    <2> QED  BY <1>2, TypedParts DEF DurableTyped, Notice
  <1>5. responses' \subseteq Response
    <2>1. responses \subseteq Response
      BY TypedParts DEF DurableTyped
    <2>2. RetiredRows(s, responses) \subseteq Response
      <3> HIDE DEF s
      <3>1. ASSUME NEW r \in RetiredRows(s, responses)
            PROVE  \E q \in responses : r = q \/ r = [q EXCEPT !.state = "failed"]
        BY <3>1 DEF RetiredRows
      <3> QED  BY <2>1, <3>1, FailedTyped
    <2> QED  BY <1>2, <2>1, <2>2
  <1>6. BoundsTyped'
    BY <1>1, <1>2, TypedParts, TroubleTyped DEF BoundsTyped
  <1> QED
    BY <1>1, <1>3, <1>4, <1>5, <1>6, TypedParts, TypedNext
    DEF planVars, actorVars, DurableTyped, PlansTyped, ActorsTyped, ChannelTyped

LEMMA RestoreTyped ==
    ASSUME Typed, NEW s \in Sessions, Restore(s)
    PROVE  Typed'
  <1>1. UNCHANGED <<responses, notice, unread, completion, hidden, planVars, job, lock, bounds>>
    BY DEF Restore
  <1>2. ActorsTyped'
    <2>1. status' = [status EXCEPT ![s] = IF @ = "fresh" THEN @ ELSE "idle"]
          /\ act' = [act EXCEPT ![s] = Ready] /\ up' = up \cup {s} /\ installed' = installed \ {s}
      BY DEF Restore
    <2>2. status' \in [Sessions -> Status] /\ \A t \in Sessions : t # s => status'[t] = status[t]
      BY <2>1, TypedParts DEF ActorsTyped, Status, Rest
    <2>3. up' \subseteq Sessions /\ installed' \subseteq Sessions
      BY <2>1, TypedParts DEF ActorsTyped
    <2> QED  BY <2>1, <2>2, <2>3, TypedParts, ReadyTyped, ActTyped
  <1>3. ChannelTyped'
    <2>1. PICK st \in Rest : channel' = IF Owed(s)
                   THEN Append(channel, [kind |-> "over", of |-> s, status |-> st])
                   ELSE channel
      BY DEF Restore, Rest
    <2>2. [kind |-> "over", of |-> s, status |-> st] \in TypedEvent
      BY DEF TypedEvent, Event
    <2>3. Capacity \in Nat /\ ChannelTyped /\ Len(channel) \in Nat
      BY TypedParts, CoordinationAssumption DEF ChannelTyped
    <2>4. CASE Owed(s)
      <3> DEFINE e == [kind |-> "over", of |-> s, status |-> st]
      <3>1. channel' = Append(channel, e) /\ Len(channel) < Capacity /\ e \in TypedEvent
        BY <2>1, <2>2, <2>4 DEF Restore, HasRoom
      <3> HIDE DEF e
      <3> QED  BY <2>3, <3>1, EventTypes DEF ChannelTyped
    <2>5. CASE ~Owed(s)
      BY <2>1, <2>3, <2>5 DEF ChannelTyped
    <2> QED  BY <2>4, <2>5
  <1> QED
    BY <1>1, <1>2, <1>3, TypedParts, TypedNext
    DEF planVars, bounds, DurableTyped, PlansTyped, JobsTyped, BoundsTyped

LEMMA InstallTyped ==
    ASSUME Typed, NEW s \in Sessions, Install(s)
    PROVE  Typed'
  <1>1. UNCHANGED <<durableVars, planVars, up, act, otherVars>>
    BY DEF Install
  <1>2. ActorsTyped'
    BY <1>1, TypedParts DEF Install, ActorsTyped, durableVars
  <1> QED
    BY <1>1, <1>2, TypedParts, TypedNext
    DEF durableVars, planVars, otherVars, bounds, DurableTyped, PlansTyped, ChannelTyped,
        JobsTyped, BoundsTyped

LEMMA RestartTyped ==
    ASSUME Typed, Restart
    PROVE  Typed'
  <1>1. UNCHANGED <<completion, status, hidden, owner, working, turns, faults>>
    BY DEF Restart
  <1>2. responses' \subseteq Response
    <2>1. \A r \in Response : Interrupted(r) \in Response
      BY FailedTyped DEF Interrupted
    <2>2. responses' = {Interrupted(r) : r \in responses}
      BY DEF Restart
    <2> HIDE DEF Response
    <2> QED  BY <2>1, <2>2, TypedParts DEF DurableTyped
  <1>3. notice' \in [Plans -> Notice] /\ unread' \subseteq Plans
    BY TypedParts DEF Restart, DurableTyped, Notice
  <1>4. PlansTyped'
    <2>1. answer' \in [Plans -> Verdict \cup Unheard]
      BY LostTyped DEF Restart
    <2> QED  BY <1>1, <2>1, TypedParts DEF Restart, PlansTyped
  <1>5. ActorsTyped'
    BY <1>1, TypedParts, ReadyTyped DEF Restart, ActorsTyped
  <1>6. ChannelTyped'
    <2>1. <<>> \in Seq(TypedEvent) /\ <<>> \in Seq(Event) /\ Len(<<>>) = 0
      OBVIOUS
    <2> QED  BY <2>1, CoordinationAssumption DEF Restart, ChannelTyped
  <1>7. JobsTyped'
    BY IdleTyped DEF Restart, JobsTyped
  <1>8. BoundsTyped'
    BY <1>1, TypedParts, TroubleTyped DEF Restart, BoundsTyped
  <1> QED
    BY <1>1, <1>2, <1>3, <1>4, <1>5, <1>6, <1>7, <1>8, TypedParts, TypedNext DEF DurableTyped

LEMMA StutterTyped ==
    ASSUME Typed, UNCHANGED vars
    PROVE  Typed'
  BY TypedParts, TypedNext
  DEF vars, durableVars, planVars, actorVars, otherVars, bounds, DurableTyped, PlansTyped,
      ActorsTyped, ChannelTyped, JobsTyped, BoundsTyped

LEMMA TypedKept == Typed /\ Obeying /\ [Next]_vars => Typed'
  <1> SUFFICES ASSUME Typed, Obeying, [Next]_vars PROVE Typed'
    OBVIOUS
  <1>1. CASE RuntimeStep
    BY <1>1, RuntimeTyped
  <1>2. CASE ActorStep
    BY <1>2, ActorTyped
  <1>3. CASE GatewayStep
    BY <1>3, TakeTyped, PlanCheckedTyped, PlanStoredTyped, CompletionTyped DEF GatewayStep
  <1>4. CASE ServiceStep
    BY <1>4, ServiceAnswersTyped, ServiceStartsTyped, ServiceMissesTyped, UnmapTyped,
       ArchiveTyped, RetireCoordinationTyped
    DEF ServiceStep
  <1>5. CASE LifeStep
    BY <1>5, RestoreTyped, InstallTyped, RestartTyped DEF LifeStep
  <1>6. CASE \E w \in Workers : WorkerStep(w)
    BY <1>6, WorkerTyped
  <1>7. CASE UNCHANGED vars
    BY <1>7, StutterTyped
  <1> QED  BY <1>1, <1>2, <1>3, <1>4, <1>5, <1>6, <1>7 DEF Next

-----------------------------------------------------------------------------
(* Who waits for whom.                                                     *)

LEMMA ObeyingInit == Init => Obeying
  <1> SUFFICES ASSUME Init PROVE Obeying
    OBVIOUS
  <1>1. job[Service] = Idle /\ \A s \in Sessions : act[s] = Ready
    BY SetsDiffer DEF Init
  <1>2. Ready.at = "ready" /\ Ready.end = "none"
    BY DEF Ready
  <1> QED  BY <1>1, <1>2, IdleTyped DEF Obeying

\* No actor is in the middle of a command unless the service waits for it.
LEMMA NobodyObeys ==
    ASSUME Obeying, job[Service].at # "await"
    PROVE  \A s \in Sessions : act[s].end \notin {"cancel", "disconnect"}
  BY DEF Obeying

LEMMA WorkObeys ==
    ASSUME Obeying, UNCHANGED <<act, up>>,
           job'[Service] = job[Service]
             \/ /\ job[Service].at # "await"
                /\ job'[Service].op \notin {"plan", "void", "over"}
                /\ job'[Service].at = "ask" =>
                     job'[Service].op \in {"answer", "plain", "cancel", "close", "archive"}
    PROVE  Obeying'
  <1>1. CASE job'[Service] = job[Service]
    BY <1>1 DEF Obeying
  <1>2. CASE job'[Service] # job[Service]
    BY <1>2, NobodyObeys DEF Obeying
  <1> QED  BY <1>1, <1>2

\* An actor goes to another place; the service's job stays.
LEMMA ActObeys ==
    ASSUME Obeying, Typed, job' = job, NEW s \in Sessions, NEW a \in Act,
           act' = [act EXCEPT ![s] = a],
           a.at \in {"retire", "void"} => a.end # "none",
           \/ a.end \notin {"cancel", "disconnect"} /\ up \subseteq up' \cup {s}
           \/ a.end = act[s].end /\ up \subseteq up'
    PROVE  Obeying'
  <1>1. act \in [Sessions -> Act]
    BY TypedParts DEF ActorsTyped
  <1>2. act'[s] = a /\ \A t \in Sessions : t # s => act'[t] = act[t]
    BY <1>1
  <1> QED  BY <1>2 DEF Obeying

LEMMA PlaceEnds ==
    /\ Ready.end = "none" /\ Ready.at = "ready"
    /\ \A p \in Plans : LET a == [Ready EXCEPT !.at = "plan", !.plan = p]
                        IN  a.at = "plan" /\ a.end = "none"
    /\ LET a == [Ready EXCEPT !.at = "over"] IN a.at = "over" /\ a.end = "none"
    /\ \A todo \in SUBSET Plans, end \in {"none", "cancel", "disconnect", "closed"} :
         LET a == [Ready EXCEPT !.at = "retire", !.todo = todo, !.end = end]
         IN  a.at = "retire" /\ a.end = end /\ a.todo = todo
  BY DEF Ready

LEMMA HeardObeys ==
    ASSUME Typed, Obeying, NEW s \in Sessions, NEW st, Heard(s, st)
    PROVE  Obeying'
  <1>1. job' = job /\ up' = up
    BY DEF Heard
  <1>2. CASE act' = act
    BY <1>1, <1>2, WorkObeys
  <1>3. CASE act' = [act EXCEPT ![s] = [Ready EXCEPT !.at = "over"]]
    <2> DEFINE a == [Ready EXCEPT !.at = "over"]
    <2>1. a \in Act /\ a.at = "over" /\ a.end = "none"
      BY PlaceTyped, PlaceEnds
    <2> HIDE DEF a
    <2> QED  BY <1>1, <1>3, <2>1, ActObeys DEF a
  <1> QED  BY <1>2, <1>3 DEF Heard

LEMMA ObeyObeys ==
    ASSUME Typed, Obeying, NEW s \in Sessions, Obey(s)
    PROVE  Obeying'
  <1>1. /\ job[Service].sess = s /\ job[Service].at = "ask" /\ s \in up /\ up' = up
        /\ job' = [job EXCEPT ![Service] = [job[Service] EXCEPT !.at = "await"]]
    BY DEF Obey, IsReady
  <1>2. job[Service] \in TypedJob /\ job \in [Workers -> TypedJob] /\ act \in [Sessions -> Act]
    BY TypedParts, SetsDiffer DEF JobsTyped, ActorsTyped
  <1>3. job[Service].op \in {"cancel", "close", "archive"}
    BY <1>1, <1>2, SetsDiffer DEF Obeying, TypedJob
  <1>4. /\ job'[Service].sess = s /\ job'[Service].at = "await"
        /\ job'[Service].op = job[Service].op
    <2>1. Step(Service, "await")
      BY DEF Obey, Step
    <2> QED  BY <1>1, <1>2, <2>1, StepTyped, SetsDiffer DEF Places
  <1> DEFINE end == IF job[Service].op = "cancel" THEN "cancel" ELSE "disconnect"
             open == PlansOf(s) \cap listed
             a == [Ready EXCEPT !.at = "retire", !.todo = open, !.end = end]
  <1>5. act' = [act EXCEPT ![s] = a]
    BY DEF Obey, Cancelling
  <1>6. open \in SUBSET Plans /\ end \in {"none", "cancel", "disconnect", "closed"}
    BY DEF PlansOf
  <1> HIDE DEF open
  <1>7. a.end = end
    BY <1>6, PlaceEnds
  <1> HIDE DEF a
  <1>8. \A t \in Sessions : t # s => act'[t] = act[t]
    BY <1>2, <1>5
  <1>9. act'[s].end = end
    BY <1>2, <1>5, <1>7
  <1>10. \A t \in Sessions : act[t].end \notin {"cancel", "disconnect"}
    BY <1>1, NobodyObeys
  <1> QED  BY <1>1, <1>3, <1>4, <1>8, <1>9, <1>10 DEF Obeying

LEMMA EndedObeys ==
    ASSUME Typed, Obeying, NEW s \in Sessions, Ended(s)
    PROVE  Obeying'
  <1>1. act' = [act EXCEPT ![s] = Ready] /\ up \subseteq up' \cup {s}
    BY DEF Ended
  <1>2. CASE act[s].end = "closed"
    <2>1. job' = job
      BY <1>2 DEF Ended
    <2> QED  BY <1>1, <2>1, ReadyTyped, PlaceEnds, ActObeys
  <1>3. CASE act[s].end # "closed"
    <2>1. act[s].end \in {"cancel", "disconnect"}
      BY <1>3, TypedParts DEF Ended, Obeying, ActorsTyped, Act
    <2>2. /\ job[Service].sess = s /\ job[Service].at = "await"
          /\ job[Service].op \in {"cancel", "close", "archive"}
      BY <2>1 DEF Obeying
    <2>3. Finish(Service) \/ Step(Service, "unmap") \/ Step(Service, "store")
      BY <1>3, <2>2, OnwardTyped DEF Ended
    <2>4. job'[Service].op \in {"idle", "cancel", "close", "archive"}
          /\ job'[Service].at # "ask"
      <3>1. job \in [Workers -> TypedJob] /\ Service \in Workers
        BY TypedParts, SetsDiffer DEF JobsTyped
      <3> QED  BY <2>2, <2>3, <3>1, StepTyped, FinishTyped, IdleTyped DEF Places
    <2>5. \A t \in Sessions : act'[t].end \notin {"cancel", "disconnect"}
      <3>1. act \in [Sessions -> Act]
        BY TypedParts DEF ActorsTyped
      <3>2. act'[s].end = "none" /\ \A t \in Sessions : t # s => act'[t] = act[t]
        BY <1>1, <3>1, PlaceEnds
      <3>3. \A t \in Sessions : act[t].end \in {"cancel", "disconnect"} => t = s
        BY <2>2 DEF Obeying
      <3> QED  BY <3>2, <3>3
    <2>6. \A t \in Sessions : act'[t].at \in {"retire", "void"} => act'[t].end # "none"
      BY <1>1, PlaceEnds, TypedParts DEF Obeying, ActorsTyped
    <2> QED  BY <2>4, <2>5, <2>6 DEF Obeying
  <1> QED  BY <1>2, <1>3

LEMMA ActorObeys ==
    ASSUME Typed, Obeying, ActorStep
    PROVE  Obeying'
  <1>0. act \in [Sessions -> Act]
    BY TypedParts DEF ActorsTyped
  <1>1. ASSUME NEW s \in Sessions, NEW p \in Plans, ReceivePlan(s, p) PROVE Obeying'
    <2>1. job' = job /\ up' = up
      BY <1>1 DEF ReceivePlan, otherVars
    <2>2. CASE act' = act
      BY <2>1, <2>2, WorkObeys
    <2>3. CASE act' = [act EXCEPT ![s] = [Ready EXCEPT !.at = "plan", !.plan = p]]
      <3> DEFINE a == [Ready EXCEPT !.at = "plan", !.plan = p]
      <3>1. a \in Act
        BY PlaceTyped
      <3>2. a.at = "plan" /\ a.end = "none"
        BY DEF Ready
      <3> HIDE DEF a
      <3> QED  BY <2>1, <2>3, <3>1, <3>2, ActObeys DEF a
    <2> QED  BY <1>1, <2>2, <2>3 DEF ReceivePlan
  <1>2. ASSUME NEW s \in Sessions, TurnStart(s) PROVE Obeying'
    BY <1>2, WorkObeys DEF TurnStart, actorVars
  <1>3. ASSUME NEW s \in Sessions, NEW st \in Rest, TurnOver(s, st) PROVE Obeying'
    BY <1>3, HeardObeys DEF TurnOver
  <1>4. ASSUME NEW s \in Sessions, WorkFails(s) PROVE Obeying'
    BY <1>4, HeardObeys DEF WorkFails
  <1>5. ASSUME NEW s \in Sessions, Notify(s) PROVE Obeying'
    <2> DEFINE a == IF act[s].at = "void" THEN [act[s] EXCEPT !.at = "retire", !.plan = None]
                    ELSE Ready
    <2>1. job' = job /\ up' = up /\ act' = [act EXCEPT ![s] = a]
      BY <1>5 DEF Notify
    <2>2. /\ a \in Act /\ a.at \in {"retire", "void"} => a.end # "none"
          /\ a.end = "none" \/ a.end = act[s].end
      <3>1. CASE act[s].at = "void"
        BY <1>0, <3>1 DEF Act, Obeying
      <3>2. CASE act[s].at # "void"
        BY <3>2, ReadyTyped, PlaceEnds
      <3> QED  BY <3>1, <3>2
    <2>3. a \in Act
      BY <1>0, ReadyTyped DEF Act
    <2> HIDE DEF a
    <2> QED  BY <2>1, <2>2, <2>3, ActObeys
  <1>6. ASSUME NEW s \in Sessions, ProviderCloses(s) PROVE Obeying'
    <2> DEFINE open == PlansOf(s) \cap listed
               a == [Ready EXCEPT !.at = "retire", !.todo = open, !.end = "closed"]
    <2>1. job' = job /\ up' = up /\ act' = [act EXCEPT ![s] = a]
      BY <1>6 DEF ProviderCloses, Cancelling
    <2>2. open \in SUBSET Plans
      BY DEF PlansOf
    <2> HIDE DEF open
    <2>3. a \in Act /\ a.at = "retire" /\ a.end = "closed"
      BY <2>2, PlaceTyped, PlaceEnds
    <2> HIDE DEF a
    <2> QED  BY <2>1, <2>3, ActObeys
  <1>7. ASSUME NEW s \in Sessions, Retire(s) PROVE Obeying'
    <2>1. PICK p \in act[s].todo :
            act' = [act EXCEPT ![s].todo = @ \ {p},
                              ![s].plan = IF Parent[s] = None THEN None ELSE p,
                              ![s].at = IF Parent[s] = None THEN "retire" ELSE "void"]
      BY <1>7 DEF Retire
    <2> DEFINE a == [[[act[s] EXCEPT !.todo = @ \ {p}]
                       EXCEPT !.plan = IF Parent[s] = None THEN None ELSE p]
                       EXCEPT !.at = IF Parent[s] = None THEN "retire" ELSE "void"]
    <2>2. p \in Plans
      BY <1>0 DEF Act
    <2>3. a \in Act /\ a.end = act[s].end
      BY <1>0, <2>2 DEF Act
    <2>4. act' = [act EXCEPT ![s] = a]
      BY <1>0, <2>1
    <2>5. job' = job /\ up' = up /\ act[s].end # "none"
      BY <1>7 DEF Retire, Obeying
    <2> HIDE DEF a
    <2> QED  BY <2>3, <2>4, <2>5, ActObeys
  <1>8. ASSUME NEW p \in Plans, Deliver(p) PROVE Obeying'
    BY <1>8, WorkObeys DEF Deliver, actorVars, otherVars
  <1> QED
    BY <1>1, <1>2, <1>3, <1>4, <1>5, <1>6, <1>7, <1>8, ObeyObeys, EndedObeys DEF ActorStep

\* A worker that goes on or is done, and no actor waits for it.
LEMMA MovesObeys ==
    ASSUME Typed, Obeying, NEW w \in Workers, UNCHANGED <<act, up>>,
           job[w].at # "await",
           Finish(w) \/ \E at \in Places \ {"ask"} : Step(w, at)
    PROVE  Obeying'
  <1>1. job \in [Workers -> TypedJob] /\ Service \in Workers
    BY TypedParts, SetsDiffer DEF JobsTyped
  <1>2. CASE w # Service
    <2>1. job'[Service] = job[Service]
      BY <1>1, <1>2, StepTyped, FinishTyped
    <2> QED  BY <2>1, WorkObeys
  <1>3. CASE w = Service
    <2>1. job'[w] = Idle \/ (job'[w].op = job[w].op /\ job'[w].at # "ask")
      <3>1. ASSUME Finish(w) PROVE job'[w] = Idle
        BY <1>1, <3>1, FinishTyped
      <3>2. ASSUME NEW at \in Places \ {"ask"}, Step(w, at)
            PROVE  job'[w].op = job[w].op /\ job'[w].at # "ask"
        BY <1>1, <3>2, StepTyped
      <3> QED  BY <3>1, <3>2
    <2>2. job'[Service].op \notin {"plan", "void", "over"} /\ job'[Service].at # "ask"
      BY <1>3, <2>1, IdleTyped DEF Obeying
    <2> QED  BY <1>3, <2>2, WorkObeys
  <1> QED  BY <1>2, <1>3

LEMMA WorkerObeys ==
    ASSUME Typed, Obeying, NEW w \in Workers, WorkerStep(w)
    PROVE  Obeying'
  <1>0. job \in [Workers -> TypedJob] /\ Service \in Workers
    BY TypedParts, SetsDiffer DEF JobsTyped
  <1>1. CASE Lock(w)
    <2>1. UNCHANGED <<act, up>> /\ job[w].at = "lock"
      BY <1>1 DEF Lock
    <2>2. CASE Step(w, "ask")
      <3>1. job[w].op = "archive"
        BY <1>1, <2>2, <1>0, StepTyped DEF Lock, Places
      <3>2. \/ job'[Service] = job[Service]
            \/ job'[Service].op = "archive" /\ job[Service].at # "await"
        BY <1>0, <2>1, <2>2, <3>1, StepTyped DEF Places
      <3> QED  BY <2>1, <3>2, WorkObeys
    <2>3. CASE Step(w, "store") \/ Step(w, "check")
      BY <2>1, <2>3, MovesObeys DEF Places
    <2> QED  BY <1>1, <2>2, <2>3 DEF Lock
  <1>2. CASE Check(w)
    BY <1>2, MovesObeys DEF Check, At, actorVars, Places
  <1>3. CASE Claim(w)
    <2>1. UNCHANGED <<act, up>> /\ job[w].at = "claim" /\ job[w].op = "answer"
      BY <1>3 DEF Claim, At, actorVars
    <2>2. CASE Finish(w)
      BY <2>1, <2>2, MovesObeys
    <2>3. CASE Step(w, "ask")
      <3>1. \/ job'[Service] = job[Service]
            \/ job'[Service].op = "answer" /\ job[Service].at # "await"
        BY <1>0, <2>1, <2>3, StepTyped DEF Places
      <3> QED  BY <2>1, <3>1, WorkObeys
    <2> QED  BY <1>3, <2>2, <2>3 DEF Claim
  <1>4. CASE Ask(w)
    BY <1>4, MovesObeys DEF Ask, Answered, actorVars, Places
  <1>5. CASE Store(w)
    BY <1>5, MovesObeys DEF Store, actorVars, Places
  <1>6. CASE WithdrawNotice(w)
    BY <1>6, MovesObeys DEF WithdrawNotice, At, actorVars, Places
  <1>7. CASE Sync(w)
    BY <1>7, MovesObeys DEF Sync, actorVars, Places
  <1> QED  BY <1>1, <1>2, <1>3, <1>4, <1>5, <1>6, <1>7 DEF WorkerStep, RecordStep

LEMMA GatewayObeys ==
    ASSUME Typed, Obeying, GatewayStep
    PROVE  Obeying'
  <1>1. UNCHANGED <<act, up>>
    BY DEF GatewayStep, Take, PlanChecked, PlanStored, Completion, actorVars
  <1>2. job'[Service] = job[Service]
    <2>1. \A v \in Workers : v # Gateway => job'[v] = job[v]
      <3>1. job \in [Workers -> TypedJob] /\ Gateway \in Workers
        BY TypedParts, SetsDiffer DEF JobsTyped
      <3>2. \/ \E j : job' = [job EXCEPT ![Gateway] = j]
            \/ Finish(Gateway) \/ \E at \in Places : Step(Gateway, at)
        BY DEF GatewayStep, Take, PlanChecked, PlanStored, Completion, Places
      <3> QED  BY <3>1, <3>2 DEF Finish, Step
    <2> QED  BY <2>1, SetsDiffer
  <1> QED  BY <1>1, <1>2, WorkObeys

LEMMA ServiceObeys ==
    ASSUME Typed, Obeying, ServiceStep
    PROVE  Obeying'
  <1>0. job \in [Workers -> TypedJob] /\ Service \in Workers
    BY TypedParts, SetsDiffer DEF JobsTyped
  <1>1. ASSUME NEW p \in Plans, NEW v \in Verdict, ServiceAnswers(p, v) PROVE Obeying'
    <2>1. UNCHANGED <<act, up>> /\ job[Service].at # "await"
      BY <1>1, IdleTyped DEF ServiceAnswers, actorVars
    <2>2. job'[Service].op \in {"plain", "answer"}
      BY <1>0, <1>1 DEF ServiceAnswers, Idle
    <2> QED  BY <2>1, <2>2, WorkObeys
  <1>2. ASSUME NEW s \in Sessions, NEW op \in {"cancel", "close", "archive"},
               ServiceStarts(s, op)
        PROVE  Obeying'
    <2>1. UNCHANGED <<act, up>> /\ job[Service].at # "await"
      BY <1>2, IdleTyped DEF ServiceStarts, actorVars
    <2>2. job'[Service].op = op
      BY <1>0, <1>2 DEF ServiceStarts, Idle
    <2> QED  BY <2>1, <2>2, WorkObeys
  <1>3. CASE ServiceMisses
    <2>1. UNCHANGED <<act, up>> /\ job[Service].sess \notin up
      BY <1>3 DEF ServiceMisses, actorVars
    <2>2. Finish(Service) \/ Step(Service, "unmap") \/ Step(Service, "store")
      BY <1>3, OnwardTyped DEF ServiceMisses
    <2>3. job'[Service].op \in {"idle", "cancel", "close", "archive"}
          /\ job'[Service].at # "ask"
      BY <1>0, <1>3, <2>2, StepTyped, FinishTyped, IdleTyped DEF ServiceMisses, Places
    <2>4. \A s \in Sessions : act[s].end \notin {"cancel", "disconnect"}
      BY <2>1 DEF Obeying
    <2> QED  BY <2>1, <2>3, <2>4 DEF Obeying
  <1>4. CASE Unmap
    BY <1>0, <1>4, MovesObeys DEF Unmap, At
  <1>5. CASE Archive
    BY <1>0, <1>5, MovesObeys DEF Archive, At, actorVars, Places
  <1>6. CASE RetireCoordination
    BY <1>0, <1>6, MovesObeys DEF RetireCoordination, At, actorVars
  <1> QED  BY <1>1, <1>2, <1>3, <1>4, <1>5, <1>6 DEF ServiceStep

LEMMA LifeObeys ==
    ASSUME Typed, Obeying, LifeStep
    PROVE  Obeying'
  <1>1. CASE Restart
    <2>1. job'[Service] = Idle /\ \A s \in Sessions : act'[s] = Ready
      BY <1>1, SetsDiffer DEF Restart
    <2> QED  BY <2>1, IdleTyped, PlaceEnds DEF Obeying
  <1>2. ASSUME NEW s \in Sessions, Restore(s) PROVE Obeying'
    <2>1. job' = job /\ act' = [act EXCEPT ![s] = Ready] /\ up \subseteq up'
      BY <1>2 DEF Restore
    <2> QED  BY <2>1, ReadyTyped, PlaceEnds, ActObeys
  <1>3. ASSUME NEW s \in Sessions, Install(s) PROVE Obeying'
    BY <1>3, WorkObeys DEF Install, otherVars
  <1> QED  BY <1>1, <1>2, <1>3 DEF LifeStep

LEMMA ObeyingKept ==
    ASSUME Typed, Obeying, [Next]_vars
    PROVE  Obeying'
  <1>1. CASE RuntimeStep
    <2>1. UNCHANGED <<act, up, job>>
      BY <1>1 DEF RuntimeStep, AskPlan, Abandon, AgentCalls, actorVars, otherVars
    <2> QED  BY <2>1, WorkObeys
  <1>2. CASE UNCHANGED vars
    BY <1>2, WorkObeys DEF vars, actorVars, otherVars
  <1> QED
    BY <1>1, <1>2, ActorObeys, GatewayObeys, ServiceObeys, LifeObeys, WorkerObeys DEF Next

\* THEOREM: every variable of Coordination keeps its type: in particular the
\* channel never holds more than its capacity, every event names a plan, a
\* session or a call as its kind says, and no worker's job outlives its fields.
THEOREM CoordinationTypeCorrect == Spec => []TypeOK
  <1>1. Init => Typed /\ Obeying
    BY TypedInit, ObeyingInit
  <1>2. Typed /\ Obeying /\ [Next]_vars => (Typed /\ Obeying)'
    BY TypedKept, ObeyingKept
  <1>3. Typed => TypeOK
    BY DEF Typed
  <1> QED  BY <1>1, <1>2, <1>3, PTL DEF Spec

-----------------------------------------------------------------------------
(* What holds of plans, workers and rows.                                  *)

\* Only a plan that somebody asked about is anywhere.
Known ==
    /\ \A p \in Plans : owner[p] = None =>
          answer[p] = "none" /\ p \notin arriving \cup pending \cup listed \cup shown
    /\ \A i \in 1..Len(channel) :
          channel[i].kind = "tool" => owner[About[channel[i].of]] \in Sessions

\* The row of the answer a worker is in the middle of.
Row(w) == [by |-> job[w].by, plan |-> job[w].plan, verdict |-> job[w].verdict,
           state |-> "submitting"]

\* The identity of an answer to p.
ByFor(by, p) == by \in Calls \/ by = <<"ui", p>>

Answering(w) ==
    job[w].op = "answer" =>
        /\ owner[job[w].plan] \in Sessions /\ ByFor(job[w].by, job[w].plan)
        /\ job[w].at # "lock" => lock = w
        /\ job[w].at \notin {"lock", "check"} =>
             CallerOf(job[w].by) \in Ancestors[owner[job[w].plan]]
        /\ job[w].at \in {"ask", "store", "fail"} => Row(w) \in responses
        /\ job[w].at = "store" => answer[job[w].plan] = job[w].verdict

\* The developer answers a session that nobody created; the lock is held while a
\* session is archived.
Serving(w) ==
    /\ job[w].op = "plain" => /\ owner[job[w].plan] \in Sessions
                              /\ Parent[owner[job[w].plan]] = None
    /\ job[w].op = "archive" /\ job[w].at # "lock" => lock = w

Doing(w) == Answering(w) /\ Serving(w)

UniqueIn(R) == \A r, q \in R : r.by = q.by \/ r.plan = q.plan => r = q

RowIs(r) ==
    /\ owner[r.plan] \in Sessions
    /\ r.by \in Calls \/ r.by[2] = r.plan
    /\ r.state = "submitted" => answer[r.plan] = r.verdict
    /\ r.verdict \in Verdict => CallerOf(r.by) \in Ancestors[owner[r.plan]]

\* A child that heard a verdict has a row that says so.
Backed ==
    \A p \in Plans : answer[p] \in Verdict /\ owner[p] # None /\ Parent[owner[p]] # None =>
        \E r \in responses : r.plan = p /\ r.verdict = answer[p]

Recorded == UniqueIn(responses) /\ (\A r \in responses : RowIs(r)) /\ Backed

Core == Known /\ (\A w \in Workers : Doing(w)) /\ Recorded

-----------------------------------------------------------------------------
(* How a step keeps them.                                                  *)

OwnerKept == \A p \in Plans : owner[p] # None => owner'[p] = owner[p]
HeardKept == \A p \in Plans : answer[p] # "none" => answer'[p] = answer[p]

LEMMA RowTyped ==
    ASSUME NEW r \in Response
    PROVE  /\ r.by \in By /\ r.plan \in Plans /\ r.verdict \in Verdict \cup {"cancel"}
           /\ r = [by |-> r.by, plan |-> r.plan, verdict |-> r.verdict, state |-> r.state]
  BY DEF Response

\* Who answered does not change, once the plan has an owner.
LEMMA CallerKept ==
    ASSUME NEW by, NEW p, by \in Calls \/ by[2] = p, owner'[p] = owner[p]
    PROVE  CallerOf(by)' = CallerOf(by)
  BY DEF CallerOf

LEMMA KnownFrom ==
    ASSUME Typed, Known,
           \A p \in Plans : owner'[p] = None =>
              /\ owner[p] = None
              /\ answer[p] = "none" => answer'[p] = "none"
              /\ p \in arriving' \cup pending' \cup listed' \cup shown' =>
                   p \in arriving \cup pending \cup listed \cup shown,
           channel' = channel, OwnerKept
    PROVE  Known'
  <1>1. \A p \in Plans : owner'[p] = None =>
           answer'[p] = "none" /\ p \notin arriving' \cup pending' \cup listed' \cup shown'
    BY DEF Known
  <1>2. ASSUME NEW i \in 1..Len(channel'), channel'[i].kind = "tool"
        PROVE  owner'[About[channel'[i].of]] \in Sessions
    <2>1. owner[About[channel[i].of]] \in Sessions
      BY <1>2 DEF Known
    <2>2. channel[i] \in TypedEvent
      BY <1>2, TypedParts DEF ChannelTyped
    <2>3. About[channel[i].of] \in Plans
      BY <1>2, <2>2, CoordinationAssumption DEF TypedEvent
    <2> QED  BY <2>1, <2>3, SetsDiffer DEF OwnerKept
  <1> QED  BY <1>1, <1>2 DEF Known

\* A worker that stays where it is.
LEMMA DoingKept ==
    ASSUME Typed, NEW w \in Workers, Doing(w), job'[w] = job[w], lock = w => lock' = w,
           OwnerKept, HeardKept,
           job[w].op = "answer" /\ job[w].at \in {"ask", "store", "fail"} /\ Row(w) \in responses
              => Row(w) \in responses'
    PROVE  Doing(w)'
  <1> DEFINE j == job[w]
  <1>0. j \in TypedJob
    BY TypedParts DEF JobsTyped
  <1>1. Serving(w)'
    <2>1. j.op = "plain" => owner'[j.plan] = owner[j.plan]
      BY <1>0, SetsDiffer DEF OwnerKept, TypedJob, Doing, Serving
    <2> QED  BY <2>1 DEF Doing, Serving
  <1>2. Answering(w)'
    <2>1. SUFFICES ASSUME j.op = "answer"
                   PROVE  Answering(w)'
      BY DEF Answering
    <2>2. j.plan \in Plans /\ j.verdict \in Verdict /\ Answering(w)
      BY <1>0, <2>1 DEF TypedJob, Doing
    <2>3. owner[j.plan] \in Sessions /\ ByFor(j.by, j.plan)
      BY <2>1, <2>2 DEF Answering
    <2>4. owner'[j.plan] = owner[j.plan]
      BY <2>2, <2>3, SetsDiffer DEF OwnerKept
    <2>5. CallerOf(j.by)' = CallerOf(j.by)
      <3>1. j.by \in Calls \/ j.by[2] = j.plan
        BY <2>3 DEF ByFor
      <3> QED  BY <2>4, <3>1, CallerKept
    <2>6. Row(w)' = Row(w)
      BY DEF Row
    <2>7. j.at = "store" => answer'[j.plan] = j.verdict
      BY <2>1, <2>2, SetsDiffer DEF Answering, HeardKept
    <2>8. j.at # "lock" => lock' = w
      BY <2>1, <2>2 DEF Answering
    <2>9. j.at \notin {"lock", "check"} => CallerOf(j.by)' \in Ancestors[owner'[j.plan]]
      BY <2>1, <2>2, <2>4, <2>5 DEF Answering
    <2>10. j.at \in {"ask", "store", "fail"} => Row(w)' \in responses'
      BY <2>1, <2>2, <2>6 DEF Answering
    <2> QED
      BY <2>3, <2>4, <2>7, <2>8, <2>9, <2>10 DEF Answering, ByFor
  <1> QED  BY <1>1, <1>2 DEF Doing

\* A row that stays as it is.
LEMMA RowKept ==
    ASSUME Typed, NEW r \in Response, RowIs(r), OwnerKept, HeardKept
    PROVE  RowIs(r)'
  <1>1. r.plan \in Plans /\ r.verdict \notin {"none"}
    BY RowTyped, SetsDiffer
  <1>2. owner'[r.plan] = owner[r.plan]
    BY <1>1, SetsDiffer DEF RowIs, OwnerKept
  <1>3. CallerOf(r.by)' = CallerOf(r.by)
    BY <1>2, CallerKept DEF RowIs
  <1>4. r.state = "submitted" => answer'[r.plan] = r.verdict
    BY <1>1 DEF RowIs, HeardKept
  <1> QED  BY <1>2, <1>3, <1>4 DEF RowIs

\* The rows stay, and nobody hears a verdict.
LEMMA RecordedKept ==
    ASSUME Typed, Known, Recorded, responses' = responses, OwnerKept, HeardKept,
           \A p \in Plans : answer'[p] = answer[p] \/ answer'[p] \in {"cancel", "lost"}
    PROVE  Recorded'
  <1>1. \A r \in responses : r \in Response
    BY TypedParts DEF DurableTyped
  <1>2. \A r \in responses' : RowIs(r)'
    BY <1>1, RowKept DEF Recorded
  <1>3. UniqueIn(responses')
    BY DEF Recorded
  <1>4. Backed'
    <2> SUFFICES ASSUME NEW p \in Plans, answer'[p] \in Verdict, owner'[p] # None,
                        Parent[owner'[p]] # None
                 PROVE  \E r \in responses' : r.plan = p /\ r.verdict = answer'[p]
      BY DEF Backed
    <2>1. answer'[p] = answer[p]
      BY SetsDiffer
    <2>2. owner[p] # None
      BY <2>1, SetsDiffer DEF Known
    <2> QED  BY <2>1, <2>2 DEF OwnerKept, Recorded, Backed
  <1> QED  BY <1>2, <1>3, <1>4 DEF Recorded

\* Rows of a set S get another state.
Restated(R, S, st) == {IF r \in S THEN [r EXCEPT !.state = st] ELSE r : r \in R}

LEMMA RestatedRows ==
    ASSUME NEW R \in SUBSET Response, UniqueIn(R), NEW S \in SUBSET R,
           NEW st \in {"submitting", "submitted", "failed"}
    PROVE  /\ UniqueIn(Restated(R, S, st))
           /\ \A q \in Restated(R, S, st) : \E r \in R :
                 /\ q.by = r.by /\ q.plan = r.plan /\ q.verdict = r.verdict
                 /\ IF r \in S THEN q.state = st ELSE q = r
           /\ \A r \in R : IF r \in S THEN [r EXCEPT !.state = st] \in Restated(R, S, st)
                           ELSE r \in Restated(R, S, st)
  <1> DEFINE F(r) == IF r \in S THEN [r EXCEPT !.state = st] ELSE r
  <1>1. \A r \in R : /\ F(r).by = r.by /\ F(r).plan = r.plan /\ F(r).verdict = r.verdict
                     /\ IF r \in S THEN F(r).state = st ELSE F(r) = r
    BY DEF Response
  <1>2. Restated(R, S, st) = {F(r) : r \in R}
    BY DEF Restated
  <1>3. \A r \in R : IF r \in S THEN F(r) = [r EXCEPT !.state = st] ELSE F(r) = r
    OBVIOUS
  <1> HIDE DEF F
  <1>4. \A q \in Restated(R, S, st) : \E r \in R : q = F(r)
    BY <1>2
  <1>5. UniqueIn(Restated(R, S, st))
    BY <1>1, <1>4 DEF UniqueIn
  <1>6. \A r \in R : F(r) \in Restated(R, S, st)
    BY <1>2
  <1> QED  BY <1>1, <1>3, <1>4, <1>5, <1>6

\* Nobody hears anything while rows get another state.
LEMMA RecordedRestated ==
    ASSUME Typed, Known, Recorded, NEW S \in SUBSET responses,
           NEW st \in {"submitted", "failed"}, responses' = Restated(responses, S, st),
           st = "submitted" => \A r \in S : answer[r.plan] = r.verdict,
           OwnerKept, HeardKept,
           \A p \in Plans : answer'[p] = answer[p] \/ answer'[p] \in {"cancel", "lost"}
    PROVE  Recorded'
  <1>0. responses \in SUBSET Response /\ UniqueIn(responses)
    BY TypedParts DEF DurableTyped, Recorded
  <1>1. /\ UniqueIn(responses')
        /\ \A q \in responses' : \E r \in responses :
              /\ q.by = r.by /\ q.plan = r.plan /\ q.verdict = r.verdict
              /\ IF r \in S THEN q.state = st ELSE q = r
        /\ \A r \in responses : IF r \in S THEN [r EXCEPT !.state = st] \in responses'
                                ELSE r \in responses'
    BY <1>0, RestatedRows
  <1>2. ASSUME NEW q \in responses' PROVE RowIs(q)'
    <2>1. PICK r \in responses :
              /\ q.by = r.by /\ q.plan = r.plan /\ q.verdict = r.verdict
              /\ IF r \in S THEN q.state = st ELSE q = r
      BY <1>1
    <2>2. r \in Response /\ RowIs(r) /\ RowIs(r)'
      BY <1>0, RowKept DEF Recorded
    <2>3. r.plan \in Plans /\ r.verdict # "none"
      BY <2>2, RowTyped, SetsDiffer
    <2>4. q.state = "submitted" => answer'[q.plan] = q.verdict
      <3>1. CASE r \in S
        BY <2>1, <2>3, <3>1 DEF HeardKept
      <3>2. CASE r \notin S
        BY <2>1, <2>2, <3>2 DEF RowIs
      <3> QED  BY <3>1, <3>2
    <2>5. /\ owner'[q.plan] \in Sessions
          /\ q.by \in Calls \/ q.by[2] = q.plan
          /\ q.verdict \in Verdict => CallerOf(q.by)' \in Ancestors[owner'[q.plan]]
      BY <2>1, <2>2 DEF RowIs
    <2> QED  BY <2>4, <2>5 DEF RowIs
  <1>3. Backed'
    <2> SUFFICES ASSUME NEW p \in Plans, answer'[p] \in Verdict, owner'[p] # None,
                        Parent[owner'[p]] # None
                 PROVE  \E r \in responses' : r.plan = p /\ r.verdict = answer'[p]
      BY DEF Backed
    <2>1. answer'[p] = answer[p]
      BY SetsDiffer
    <2>2. owner[p] # None
      BY <2>1, SetsDiffer DEF Known
    <2>3. PICK r \in responses : r.plan = p /\ r.verdict = answer[p]
      BY <2>1, <2>2 DEF OwnerKept, Recorded, Backed
    <2>4. [r EXCEPT !.state = st].plan = r.plan /\ [r EXCEPT !.state = st].verdict = r.verdict
      BY <1>0, RowTyped DEF Response
    <2> QED  BY <1>1, <2>1, <2>3, <2>4
  <1> QED  BY <1>1, <1>2, <1>3 DEF Recorded

LEMMA IdleDoes ==
    ASSUME NEW w \in Workers, job'[w] = Idle
    PROVE  Doing(w)'
  BY IdleTyped DEF Doing, Answering, Serving

\* A worker that goes on with its job.
LEMMA MovedDoes ==
    ASSUME Typed, NEW w \in Workers, Doing(w), NEW at \in Places, Step(w, at),
           OwnerKept,
           job[w].op = "answer" =>
              /\ lock' = w
              /\ at \notin {"lock", "check"} =>
                    CallerOf(job[w].by) \in Ancestors[owner[job[w].plan]]
              /\ at \in {"ask", "store", "fail"} => Row(w) \in responses'
              /\ at = "store" => answer'[job[w].plan] = job[w].verdict,
           job[w].op = "archive" => lock' = w
    PROVE  Doing(w)'
  <1> DEFINE j == job[w]
             k == job'[w]
  <1>0. j \in TypedJob /\ job \in [Workers -> TypedJob]
    BY TypedParts DEF JobsTyped
  <1>1. /\ k.at = at /\ k.op = j.op /\ k.plan = j.plan /\ k.by = j.by
        /\ k.verdict = j.verdict
    BY <1>0, StepTyped
  <1>2. Serving(w)'
    <2>1. j.op = "plain" => owner'[j.plan] = owner[j.plan]
      BY <1>0, SetsDiffer DEF OwnerKept, TypedJob, Doing, Serving
    <2> QED  BY <1>1, <2>1 DEF Doing, Serving
  <1>3. Answering(w)'
    <2>1. SUFFICES ASSUME j.op = "answer"
                   PROVE  Answering(w)'
      BY <1>1 DEF Answering
    <2>2. j.plan \in Plans /\ Answering(w)
      BY <1>0, <2>1 DEF TypedJob, Doing
    <2>3. owner[j.plan] \in Sessions /\ ByFor(j.by, j.plan)
      BY <2>1, <2>2 DEF Answering
    <2>4. owner'[j.plan] = owner[j.plan]
      BY <2>2, <2>3, SetsDiffer DEF OwnerKept
    <2>6. j.by \in Calls \/ j.by[2] = j.plan
      BY <2>3 DEF ByFor
    <2>7. Row(w)' = Row(w)
      BY <1>1 DEF Row
    <2>8. at \notin {"lock", "check"} => (CallerOf(job[w].by) \in Ancestors[owner[job[w].plan]])'
      <3>1. CallerOf(job[w].by)' = CallerOf(j.by)
        <4> SUFFICES CallerOf(job[w].by)' = CallerOf(job'[w].by)
          BY <1>1
        <4> QED  BY <1>1, <2>4, <2>6 DEF CallerOf
      <3> QED  BY <1>1, <2>1, <2>4, <3>1
    <2> QED
      BY <1>1, <2>1, <2>3, <2>4, <2>7, <2>8 DEF Answering, ByFor
  <1> QED  BY <1>2, <1>3 DEF Doing

\* The rows stay, and every worker but w.
LEMMA CoreFrom ==
    ASSUME Typed, Core, responses' = responses, OwnerKept, HeardKept,
           \A p \in Plans : answer'[p] = answer[p] \/ answer'[p] \in {"cancel", "lost"},
           Known', NEW w \in Workers,
           \A v \in Workers : v # w => job'[v] = job[v] /\ (lock = v => lock' = v),
           Doing(w)'
    PROVE  Core'
  <1>1. \A v \in Workers : v # w => Doing(v)'
    BY DoingKept DEF Core
  <1>2. Recorded'
    BY RecordedKept DEF Core
  <1> QED  BY <1>1, <1>2 DEF Core

\* The same, with every worker where it was.
LEMMA CoreStays ==
    ASSUME Typed, Core, UNCHANGED <<responses, job, lock>>, OwnerKept, HeardKept,
           \A p \in Plans : answer'[p] = answer[p] \/ answer'[p] \in {"cancel", "lost"},
           Known'
    PROVE  Core'
  <1>1. \A w \in Workers : Doing(w)'
    BY DoingKept DEF Core
  <1>2. Recorded'
    BY RecordedKept DEF Core
  <1> QED  BY <1>1, <1>2 DEF Core

LEMMA KnownAppend ==
    ASSUME Typed, Known, NEW e \in TypedEvent,
           e.kind = "tool" => owner[About[e.of]] \in Sessions,
           channel' = Append(channel, e),
           UNCHANGED <<owner, answer, arriving, pending, listed, shown>>
    PROVE  Known'
  <1>1. channel \in Seq(TypedEvent)
    BY TypedParts DEF ChannelTyped
  <1>2. ASSUME NEW i \in 1..Len(channel'), channel'[i].kind = "tool"
        PROVE  owner'[About[channel'[i].of]] \in Sessions
    <2> HIDE DEF TypedEvent
    <2>1. Len(channel') = Len(channel) + 1
          /\ \A k \in 1..Len(channel) : channel'[k] = channel[k]
          /\ channel'[Len(channel) + 1] = e
      BY <1>1
    <2>2. Len(channel) \in Nat
      BY <1>1
    <2>3. i \in 1..Len(channel) \/ i = Len(channel) + 1
      BY <2>1, <2>2
    <2> QED  BY <1>2, <2>1, <2>3 DEF Known
  <1> QED  BY <1>2 DEF Known

LEMMA RuntimeCore ==
    ASSUME Typed, Core, RuntimeStep
    PROVE  Core'
  <1>1. ASSUME NEW s \in Sessions, NEW p \in Plans, AskPlan(s, p) PROVE Core'
    <2>1. /\ UNCHANGED <<responses, answer, pending, listed, shown, channel, job, lock>>
          /\ owner[p] = None /\ owner' = [owner EXCEPT ![p] = s]
          /\ arriving' = arriving \cup {p}
      BY <1>1 DEF AskPlan, durableVars, otherVars
    <2>2. owner \in [Plans -> Sessions \cup {None}]
      BY TypedParts DEF PlansTyped
    <2>3. OwnerKept /\ HeardKept
      BY <2>1, <2>2 DEF OwnerKept, HeardKept
    <2>4. Known'
      BY <2>1, <2>2, <2>3, KnownFrom, SetsDiffer DEF Core
    <2> QED  BY <2>1, <2>3, <2>4, CoreStays
  <1>2. ASSUME NEW p \in Plans, Abandon(p) PROVE Core'
    <2>1. /\ UNCHANGED <<responses, owner, arriving, pending, listed, shown, channel, job, lock>>
          /\ owner[p] # None /\ answer[p] = "none" /\ answer' = [answer EXCEPT ![p] = "lost"]
      BY <1>2 DEF Abandon, durableVars
    <2>2. answer \in [Plans -> Verdict \cup Unheard]
      BY TypedParts DEF PlansTyped
    <2>3. /\ OwnerKept /\ HeardKept
          /\ \A q \in Plans : answer'[q] = answer[q] \/ answer'[q] \in {"cancel", "lost"}
      BY <2>1, <2>2 DEF OwnerKept, HeardKept
    <2>4. Known'
      BY <2>1, <2>2, <2>3, KnownFrom DEF Core
    <2> QED  BY <2>1, <2>3, <2>4, CoreStays
  <1>3. ASSUME NEW k \in Calls, AgentCalls(k) PROVE Core'
    <2> DEFINE e == [kind |-> "tool", of |-> k, status |-> "none"]
    <2>1. /\ UNCHANGED <<responses, owner, answer, arriving, pending, listed, shown, job, lock>>
          /\ owner[About[k]] # None /\ channel' = Append(channel, e)
      BY <1>3 DEF AgentCalls, durableVars, planVars
    <2>2. About[k] \in Plans /\ owner[About[k]] \in Sessions
      BY <2>1, TypedParts, CoordinationAssumption DEF PlansTyped
    <2>3. e \in TypedEvent /\ e.of = k
      BY DEF TypedEvent, Event
    <2> HIDE DEF e
    <2>4. Known'
      BY <2>1, <2>2, <2>3, KnownAppend DEF Core
    <2>5. OwnerKept /\ HeardKept
      BY <2>1 DEF OwnerKept, HeardKept
    <2> QED  BY <2>1, <2>4, <2>5, CoreStays
  <1> QED  BY <1>1, <1>2, <1>3 DEF RuntimeStep

\* Steps that leave plans, rows, workers and the channel alone.
LEMMA AsideCore ==
    ASSUME Typed, Core, UNCHANGED <<responses, owner, answer, job, lock, channel>>,
           \A p \in Plans : p \in arriving' \cup pending' \cup listed' \cup shown' =>
                p \in arriving \cup pending \cup listed \cup shown
    PROVE  Core'
  <1>1. OwnerKept /\ HeardKept
    BY DEF OwnerKept, HeardKept
  <1>2. Known'
    BY <1>1, KnownFrom DEF Core
  <1> QED  BY <1>1, <1>2, CoreStays

\* An event that is no call of a tool is sent.
LEMMA SendsCore ==
    ASSUME Typed, Core, UNCHANGED <<responses, planVars, job, lock>>,
           NEW e \in TypedEvent, e.kind # "tool", channel' = Append(channel, e)
    PROVE  Core'
  <1>1. Known'
    BY KnownAppend DEF Core, planVars
  <1>2. OwnerKept /\ HeardKept
    BY DEF OwnerKept, HeardKept, planVars
  <1> QED  BY <1>1, <1>2, CoreStays DEF planVars

LEMMA EventIs ==
    ASSUME Typed, NEW s \in Sessions, act[s].at \in {"plan", "void", "over"}
    PROVE  EventOf(s) \in TypedEvent /\ EventOf(s).kind # "tool"
  <1>1. act \in [Sessions -> Act] /\ status \in [Sessions -> Status]
        /\ (act[s].at \in {"plan", "void"} => act[s].plan \in Plans)
        /\ (act[s].at = "over" => status[s] \in Rest)
    BY TypedParts DEF ActorsTyped
  <1>2. CASE act[s].at = "plan"
    <2>1. EventOf(s) = [kind |-> "plan", of |-> act[s].plan, status |-> "none"]
      BY <1>2 DEF EventOf
    <2> QED  BY <1>1, <1>2, <2>1 DEF TypedEvent, Event
  <1>3. CASE act[s].at = "void"
    <2>1. EventOf(s) = [kind |-> "void", of |-> act[s].plan, status |-> "none"]
      BY <1>3 DEF EventOf
    <2> QED  BY <1>1, <1>3, <2>1 DEF TypedEvent, Event
  <1>4. CASE act[s].at = "over"
    <2>1. EventOf(s) = [kind |-> "over", of |-> s, status |-> status[s]]
      BY <1>4 DEF EventOf
    <2> QED  BY <1>1, <1>4, <2>1 DEF TypedEvent, Event
  <1> QED  BY <1>2, <1>3, <1>4

\* The rows that say that nobody answers p any more.
Invalid(p) == [by |-> <<"invalidation", p>>, plan |-> p, verdict |-> "cancel", state |-> "failed"]

LEMMA InvalidTyped ==
    ASSUME NEW p \in Plans
    PROVE  /\ Invalid(p) \in Response /\ Invalid(p).by = <<"invalidation", p>>
           /\ Invalid(p).by[2] = p /\ Invalid(p).plan = p
           /\ Invalid(p).verdict = "cancel" /\ Invalid(p).state = "failed"
  BY DEF Invalid, Response, By

\* What cancel_pending_interactions does to the plans of a session.
LEMMA CancelledIs ==
    ASSUME Typed, NEW s \in Sessions, NEW end, Cancelling(s, end)
    PROVE  /\ \E C \in SUBSET PlansOf(s) :
                 /\ \A p \in C : ~Claimed(<<"invalidation", p>>, p)
                 /\ responses' = responses \cup {Invalid(p) : p \in C}
           /\ \A p \in Plans : \/ answer'[p] = answer[p]
                               \/ owner[p] = s /\ answer[p] = "none" /\ answer'[p] = "cancel"
           /\ pending' \subseteq pending /\ listed' \subseteq listed
  <1> DEFINE open == PlansOf(s) \cap listed
             told == PlansOf(s) \cap pending
  <1>1. PICK lost \in SUBSET open :
          responses' = responses \cup
               {[by |-> <<"invalidation", p>>, plan |-> p, verdict |-> "cancel",
                 state |-> "failed"] :
                   p \in {q \in open \ lost : ~Claimed(<<"invalidation", q>>, q)}}
    BY DEF Cancelling
  <1> DEFINE C == {q \in open \ lost : ~Claimed(<<"invalidation", q>>, q)}
  <1>2. C \in SUBSET PlansOf(s) /\ \A p \in C : ~Claimed(<<"invalidation", p>>, p)
    OBVIOUS
  <1>3. responses' = responses \cup {Invalid(p) : p \in C}
    BY <1>1, Zenon DEF Invalid
  <1>4. \A p \in Plans : \/ answer'[p] = answer[p]
                         \/ owner[p] = s /\ answer[p] = "none" /\ answer'[p] = "cancel"
    <2>1. answer' = [p \in Plans |-> IF p \in told /\ answer[p] = "none"
                                     THEN "cancel" ELSE answer[p]]
      BY DEF Cancelling
    <2>2. \A p \in told : owner[p] = s
      BY DEF PlansOf
    <2> HIDE DEF told
    <2> QED  BY <2>1, <2>2
  <1>5. pending' \subseteq pending /\ listed' \subseteq listed
    BY DEF Cancelling
  <1> HIDE DEF C
  <1> QED  BY <1>2, <1>3, <1>4, <1>5

LEMMA CancellingCore ==
    ASSUME Typed, Core, NEW s \in Sessions, Obey(s) \/ ProviderCloses(s)
    PROVE  Core'
  <1>1. UNCHANGED <<owner, arriving, shown, channel, lock>>
    BY DEF Obey, ProviderCloses
  <1>2. PICK end : Cancelling(s, end)
    BY DEF Obey, ProviderCloses
  <1>3. PICK C \in SUBSET PlansOf(s) :
          /\ \A p \in C : ~Claimed(<<"invalidation", p>>, p)
          /\ responses' = responses \cup {Invalid(p) : p \in C}
    BY <1>2, CancelledIs
  <1>4. /\ \A p \in Plans : \/ answer'[p] = answer[p]
                            \/ owner[p] = s /\ answer[p] = "none" /\ answer'[p] = "cancel"
        /\ pending' \subseteq pending /\ listed' \subseteq listed
    BY <1>2, CancelledIs
  <1>5. OwnerKept /\ HeardKept
    BY <1>1, <1>4 DEF OwnerKept, HeardKept
  <1>6. Known'
    BY <1>1, <1>4, <1>5, KnownFrom, SetsDiffer DEF Core
  <1>7. responses \subseteq Response /\ C \subseteq Plans /\ \A p \in C : owner[p] = s
    BY TypedParts DEF DurableTyped, PlansOf
  <1>8. ASSUME NEW r \in responses' PROVE RowIs(r)'
    <2>1. CASE r \in responses
      BY <1>5, <1>7, <2>1, RowKept DEF Core, Recorded
    <2>2. CASE r \notin responses
      <3>1. PICK p \in C : r = Invalid(p)
        BY <1>3, <2>2
      <3> QED
        BY <1>1, <1>7, <3>1, InvalidTyped, SetsDiffer DEF RowIs
    <2> QED  BY <2>1, <2>2
  <1>9. UniqueIn(responses')
    <2> SUFFICES ASSUME NEW r \in responses', NEW q \in responses', r.by = q.by \/ r.plan = q.plan
                 PROVE  r = q
      BY DEF UniqueIn
    <2>1. \A x \in responses' : x \in responses \/ \E p \in C : x = Invalid(p)
      BY <1>3
    <2>2. \A x \in responses, p \in C : x.by # Invalid(p).by /\ x.plan # Invalid(p).plan
      BY <1>3, <1>7, InvalidTyped DEF Claimed
    <2>3. \A p, u \in C : Invalid(p).by = Invalid(u).by \/ Invalid(p).plan = Invalid(u).plan => p = u
      BY <1>7, InvalidTyped
    <2>4. UniqueIn(responses)
      BY DEF Core, Recorded
    <2>5. CASE r \in responses /\ q \in responses
      BY <2>4, <2>5 DEF UniqueIn
    <2>6. CASE r \notin responses /\ q \notin responses
      BY <2>1, <2>3, <2>6
    <2>7. CASE r \in responses /\ q \notin responses
      BY <2>1, <2>2, <2>7
    <2>8. CASE r \notin responses /\ q \in responses
      BY <2>1, <2>2, <2>8
    <2> QED  BY <2>5, <2>6, <2>7, <2>8
  <1>10. Backed'
    <2> SUFFICES ASSUME NEW p \in Plans, answer'[p] \in Verdict, owner'[p] # None,
                        Parent[owner'[p]] # None
                 PROVE  \E r \in responses' : r.plan = p /\ r.verdict = answer'[p]
      BY DEF Backed
    <2>1. answer'[p] = answer[p]
      BY <1>4, SetsDiffer
    <2> QED  BY <1>1, <1>3, <2>1 DEF Core, Recorded, Backed
  <1>11. Recorded'
    BY <1>8, <1>9, <1>10 DEF Recorded
  <1>12. ASSUME NEW w \in Workers PROVE Doing(w)'
    <2>0. job \in [Workers -> TypedJob] /\ Service \in Workers /\ Doing(w)
      BY TypedParts, SetsDiffer DEF JobsTyped, Core
    <2>1. Row(w) \in responses => Row(w) \in responses'
      BY <1>3
    <2>2. CASE job'[w] = job[w]
      BY <1>1, <1>5, <2>0, <2>1, <2>2, DoingKept
    <2>3. CASE job'[w] # job[w]
      <3>1. Step(Service, "await") /\ job[Service].sess = s
        BY <2>3 DEF Obey, ProviderCloses, Step
      <3>2. w = Service
        BY <2>0, <2>3, <3>1, StepTyped DEF Places
      <3>3. job[w].op # "answer"
        BY <2>0, <3>1, <3>2, SetsDiffer DEF TypedJob
      <3>4. job[w].op = "archive" => lock' = w
        <4>1. job[w].at = "ask"
          BY <2>3, <3>2 DEF Obey, ProviderCloses
        <4> QED  BY <1>1, <2>0, <4>1 DEF Doing, Serving
      <3> QED  BY <1>5, <2>0, <3>1, <3>2, <3>3, <3>4, MovedDoes DEF Places
    <2> QED  BY <2>2, <2>3
  <1> QED  BY <1>6, <1>11, <1>12 DEF Core

\* What a worker does when it goes on, or is done.
LEMMA MovesAlone ==
    ASSUME Typed, NEW w \in Workers,
           Finish(w) \/ \E at \in Places : Step(w, at),
           UNCHANGED lock \/ Release(w) \/ lock = None
    PROVE  \A v \in Workers : v # w => job'[v] = job[v] /\ (lock = v => lock' = v)
  <1>1. job \in [Workers -> TypedJob] /\ lock \in Workers \cup {None}
    BY TypedParts DEF JobsTyped
  <1>2. \A v \in Workers : v # w => job'[v] = job[v]
    BY <1>1, StepTyped, FinishTyped
  <1>3. \A v \in Workers : v # w /\ lock = v => lock' = v
    BY <1>1, ReleaseTyped, SetsDiffer
  <1> QED  BY <1>2, <1>3

\* A worker is done; everything but its job and the lock stays.
LEMMA FinishCore ==
    ASSUME Typed, Core, UNCHANGED <<responses, planVars, channel>>, NEW w \in Workers,
           Finish(w), UNCHANGED lock \/ Release(w)
    PROVE  Core'
  <1>1. OwnerKept /\ HeardKept
    BY DEF OwnerKept, HeardKept, planVars
  <1>2. Known'
    BY <1>1, KnownFrom DEF Core, planVars
  <1>3. job'[w] = Idle
    BY TypedParts, FinishTyped DEF JobsTyped
  <1> QED  BY <1>1, <1>2, <1>3, IdleDoes, MovesAlone, CoreFrom DEF planVars

\* A worker goes on; everything but its place and the lock stays.
LEMMA StepCore ==
    ASSUME Typed, Core, UNCHANGED <<responses, planVars, channel>>, NEW w \in Workers,
           NEW at \in Places, Step(w, at), UNCHANGED lock \/ (lock = None /\ lock' = w),
           job[w].op = "answer" =>
              /\ lock' = w
              /\ at \notin {"lock", "check"} =>
                    CallerOf(job[w].by) \in Ancestors[owner[job[w].plan]]
              /\ at \notin {"ask", "store", "fail"},
           job[w].op = "archive" => lock' = w
    PROVE  Core'
  <1>1. OwnerKept /\ HeardKept
    BY DEF OwnerKept, HeardKept, planVars
  <1>2. Known'
    BY <1>1, KnownFrom DEF Core, planVars
  <1>3. Doing(w)'
    BY <1>1, MovedDoes DEF Core
  <1> QED  BY <1>1, <1>2, <1>3, MovesAlone, CoreFrom DEF planVars

LEMMA EndedCore ==
    ASSUME Typed, Obeying, Core, NEW s \in Sessions, Ended(s)
    PROVE  Core'
  <1>0. job \in [Workers -> TypedJob] /\ Service \in Workers
    BY TypedParts, SetsDiffer DEF JobsTyped
  <1>1. /\ UNCHANGED <<responses, owner, pending, listed, channel, lock>>
        /\ shown' \subseteq shown \cup listed
    BY DEF Ended, durableVars
  <1>2. /\ \A p \in Plans : \/ answer'[p] = answer[p]
                            \/ owner[p] = s /\ answer[p] = "none" /\ answer'[p] = "lost"
        /\ arriving' \subseteq arriving
    BY DEF Ended, LostWith
  <1>3. OwnerKept /\ HeardKept
    BY <1>1, <1>2 DEF OwnerKept, HeardKept
  <1>4. Known'
    BY <1>1, <1>2, <1>3, KnownFrom, SetsDiffer DEF Core
  <1>5. CASE job' = job
    BY <1>1, <1>2, <1>3, <1>4, <1>5, CoreStays
  <1>6. CASE job' # job
    <2>1. act[s].end \in {"cancel", "disconnect"}
      BY <1>6, TypedParts DEF Ended, Obeying, ActorsTyped, Act
    <2>2. /\ job[Service].at = "await"
          /\ job[Service].op \in {"cancel", "close", "archive"}
      BY <2>1 DEF Obeying
    <2>3. Finish(Service) \/ Step(Service, "unmap") \/ Step(Service, "store")
      BY <1>6, <2>2, OnwardTyped DEF Ended
    <2>4. Doing(Service)'
      <3>1. CASE Finish(Service)
        BY <1>0, <3>1, FinishTyped, IdleDoes
      <3>2. CASE ~Finish(Service)
        <4>1. Step(Service, "unmap") \/ Step(Service, "store")
          BY <2>3, <3>2
        <4>2. Doing(Service) /\ (job[Service].op = "archive" => lock' = Service)
          BY <1>0, <1>1, <2>2 DEF Core, Doing, Serving
        <4> QED  BY <1>0, <1>3, <2>2, <4>1, <4>2, MovedDoes DEF Places
      <3> QED  BY <3>1, <3>2
    <2>5. \A v \in Workers : v # Service => job'[v] = job[v] /\ (lock = v => lock' = v)
      BY <1>0, <1>1, <2>3, MovesAlone DEF Places
    <2> QED  BY <1>0, <1>1, <1>2, <1>3, <1>4, <2>4, <2>5, CoreFrom
  <1> QED  BY <1>5, <1>6

LEMMA ActorCore ==
    ASSUME Typed, Obeying, Core, ActorStep
    PROVE  Core'
  <1>1. ASSUME NEW s \in Sessions, NEW p \in Plans, ReceivePlan(s, p) PROVE Core'
    BY <1>1, AsideCore DEF ReceivePlan, durableVars, otherVars
  <1>2. ASSUME NEW s \in Sessions, TurnStart(s) PROVE Core'
    BY <1>2, AsideCore DEF TurnStart
  <1>3. ASSUME NEW s \in Sessions, NEW st, Heard(s, st) PROVE Core'
    BY <1>3, AsideCore DEF Heard
  <1>4. ASSUME NEW s \in Sessions, Notify(s) PROVE Core'
    <2>1. UNCHANGED <<responses, planVars, job, lock>> /\ channel' = Append(channel, EventOf(s))
          /\ act[s].at \in {"plan", "void", "over"}
      BY <1>4 DEF Notify, Notifying, durableVars
    <2> QED  BY <2>1, EventIs, SendsCore
  <1>5. ASSUME NEW s \in Sessions, Retire(s) PROVE Core'
    BY <1>5, AsideCore DEF Retire, planVars
  <1>6. ASSUME NEW p \in Plans, Deliver(p) PROVE Core'
    BY <1>6, AsideCore DEF Deliver, planVars, otherVars
  <1> QED
    BY <1>1, <1>2, <1>3, <1>4, <1>5, <1>6, CancellingCore, EndedCore
    DEF ActorStep, TurnOver, WorkFails

LEMMA JobIs ==
    ASSUME Typed, Core, NEW w \in Workers, job[w].op = "answer"
    PROVE  /\ job[w] \in TypedJob /\ job[w].plan \in Plans /\ job[w].verdict \in Verdict
           /\ owner[job[w].plan] \in Sessions /\ ByFor(job[w].by, job[w].plan)
           /\ job[w].at # "lock" => lock = w
           /\ job[w].at \notin {"lock", "check"} =>
                 CallerOf(job[w].by) \in Ancestors[owner[job[w].plan]]
           /\ job[w].at \in {"ask", "store", "fail"} => Row(w) \in responses
           /\ job[w].at = "store" => answer[job[w].plan] = job[w].verdict
  <1>1. job[w] \in TypedJob
    BY TypedParts DEF JobsTyped
  <1>2. Answering(w)
    BY DEF Core, Doing
  <1> QED  BY <1>1, <1>2 DEF TypedJob, Answering

\* Nothing changes for plans, rows and the channel when the parts a lemma names stay.
LEMMA LockCore ==
    ASSUME Typed, Core, NEW w \in Workers, Lock(w)
    PROVE  Core'
  <1>1. UNCHANGED <<responses, planVars, channel>> /\ lock = None /\ lock' = w
        /\ job[w].at = "lock"
    BY DEF Lock, durableVars
  <1>2. CASE job[w].op = "archive"
    <2>1. Step(w, "ask") \/ Step(w, "store")
      BY <1>2 DEF Lock
    <2> QED  BY <1>1, <1>2, <2>1, StepCore DEF Places
  <1>3. CASE job[w].op # "archive"
    <2>1. Step(w, "check")
      BY <1>3 DEF Lock
    <2> QED  BY <1>1, <1>3, <2>1, StepCore DEF Places
  <1> QED  BY <1>2, <1>3

LEMMA CheckCore ==
    ASSUME Typed, Core, NEW w \in Workers, Check(w)
    PROVE  Core'
  <1>1. /\ UNCHANGED <<responses, planVars, channel>>
        /\ job[w].op = "answer" /\ job[w].at = "check"
    BY DEF Check, At, durableVars
  <1>2. \/ /\ Step(w, "claim") /\ UNCHANGED lock
           /\ CallerOf(job[w].by) \in Ancestors[owner[job[w].plan]]
        \/ Finish(w) /\ Release(w)
    BY DEF Check, MayAnswer
  <1>3. lock = w
    BY <1>1, JobIs
  <1>4. CASE Finish(w) /\ Release(w)
    BY <1>1, <1>4, FinishCore
  <1>5. CASE /\ Step(w, "claim") /\ UNCHANGED lock
             /\ CallerOf(job[w].by) \in Ancestors[owner[job[w].plan]]
    BY <1>1, <1>3, <1>5, StepCore DEF Places
  <1> QED  BY <1>2, <1>4, <1>5

LEMMA WithdrawNoticeCore ==
    ASSUME Typed, Core, NEW w \in Workers, WithdrawNotice(w)
    PROVE  Core'
  <1>1. /\ UNCHANGED <<responses, planVars, channel>>
        /\ job[w].op = "answer" /\ job[w].at = "retire"
    BY DEF WithdrawNotice, At
  <1>2. (Step(w, "sync") /\ UNCHANGED lock) \/ (Finish(w) /\ Release(w))
    BY DEF WithdrawNotice
  <1>3. CASE Finish(w) /\ Release(w)
    BY <1>1, <1>3, FinishCore
  <1>4. CASE Step(w, "sync") /\ UNCHANGED lock
    <2>1. lock = w /\ CallerOf(job[w].by) \in Ancestors[owner[job[w].plan]]
      BY <1>1, JobIs
    <2> QED  BY <1>1, <1>4, <2>1, StepCore DEF Places
  <1> QED  BY <1>2, <1>3, <1>4

LEMMA SyncCore ==
    ASSUME Typed, Core, NEW w \in Workers, Sync(w)
    PROVE  Core'
  BY FinishCore DEF Sync, durableVars

\* create_plan_response.
LEMMA ClaimCore ==
    ASSUME Typed, Core, NEW w \in Workers, Claim(w)
    PROVE  Core'
  <1>1. /\ UNCHANGED <<planVars, channel>>
        /\ job[w].op = "answer" /\ job[w].at = "claim"
    BY DEF Claim, At
  <1>2. CASE Claimed(job[w].by, job[w].plan)
    <2>1. Finish(w) /\ Release(w) /\ UNCHANGED responses
      BY <1>2 DEF Claim
    <2> QED  BY <1>1, <2>1, FinishCore
  <1>3. CASE ~Claimed(job[w].by, job[w].plan)
    <2>1. /\ responses' = responses \cup {Row(w)}
          /\ Step(w, "ask") /\ UNCHANGED lock
      BY <1>3 DEF Claim, Row
    <2>2. /\ job[w] \in TypedJob /\ job[w].plan \in Plans /\ job[w].verdict \in Verdict
          /\ owner[job[w].plan] \in Sessions /\ ByFor(job[w].by, job[w].plan)
          /\ lock = w /\ CallerOf(job[w].by) \in Ancestors[owner[job[w].plan]]
      BY <1>1, JobIs
    <2>3. OwnerKept /\ HeardKept
      BY <1>1 DEF OwnerKept, HeardKept, planVars
    <2>4. Known'
      BY <1>1, <2>3, KnownFrom DEF Core, planVars
    <2>5. responses \subseteq Response
      BY TypedParts DEF DurableTyped
    <2>6. PICK r \in Response : r = Row(w)
      <3>1. job[w].by \in By
        BY <1>1, <2>2 DEF TypedJob
      <3>2. Row(w) \in Response
        BY <2>2, <3>1 DEF Row, Response
      <3> QED  BY <3>2
    <2>7. /\ r.by = job[w].by /\ r.plan = job[w].plan
          /\ r.verdict = job[w].verdict /\ r.state = "submitting"
      BY <2>6 DEF Row
    <2>8. RowIs(r) /\ RowIs(r)'
      <3>1. RowIs(r)
        BY <2>2, <2>7 DEF RowIs, ByFor
      <3> QED  BY <2>3, <3>1, RowKept
    <2>9. responses' = responses \cup {r}
      BY <2>1, <2>6
    <2>10. \A q \in responses' : RowIs(q)'
      BY <2>3, <2>5, <2>8, <2>9, RowKept DEF Core, Recorded
    <2>11. UniqueIn(responses')
      BY <1>3, <2>7, <2>9 DEF UniqueIn, Claimed, Core, Recorded
    <2>12. Backed'
      BY <1>1, <2>9 DEF Backed, Core, Recorded, planVars
    <2>13. Recorded'
      BY <2>10, <2>11, <2>12 DEF Recorded
    <2>14. Doing(w)'
      <3>1. Row(w) \in responses'
        BY <2>6, <2>9
      <3> QED  BY <1>1, <2>1, <2>2, <2>3, <3>1, MovedDoes DEF Core, Places
    <2>15. \A v \in Workers : v # w => Doing(v)'
      <3>1. \A v \in Workers : v # w => job'[v] = job[v] /\ (lock = v => lock' = v)
        BY <2>1, MovesAlone DEF Places
      <3>2. \A v \in Workers : Row(v) \in responses => Row(v) \in responses'
        BY <2>9
      <3> QED  BY <2>3, <3>1, <3>2, DoingKept DEF Core
    <2> QED  BY <2>4, <2>13, <2>14, <2>15 DEF Core
  <1> QED  BY <1>2, <1>3

\* The callback is answered, or it was no longer open.
LEMMA AskIs ==
    ASSUME Typed, Core, NEW w \in Workers, Ask(w)
    PROVE  /\ UNCHANGED <<responses, owner, arriving, channel, lock>>
           /\ job[w].at = "ask" /\ job[w].op \in {"answer", "plain"}
           /\ job[w].plan \in Plans /\ job[w].verdict \in Verdict
           /\ owner[job[w].plan] \in Sessions
           /\ pending' \subseteq pending /\ listed' \subseteq listed /\ shown' \subseteq shown
           /\ \/ /\ answer[job[w].plan] = "none"
                 /\ answer' = [answer EXCEPT ![job[w].plan] = job[w].verdict]
                 /\ job[w].op = "answer" => Step(w, "store")
              \/ /\ answer' = answer
                 /\ job[w].op = "answer" => Step(w, "fail")
           /\ job[w].op = "plain" => Finish(w)
  <1>1. /\ UNCHANGED <<responses, owner, arriving, channel, lock>>
        /\ job[w].at = "ask" /\ job[w].op \in {"answer", "plain"}
    BY DEF Ask, durableVars
  <1>2. job[w] \in TypedJob /\ Doing(w)
    BY TypedParts DEF JobsTyped, Core
  <1>3. /\ job[w].plan \in Plans /\ job[w].verdict \in Verdict
        /\ owner[job[w].plan] \in Sessions
    BY <1>1, <1>2 DEF TypedJob, Doing, Answering, Serving
  <1>4. /\ pending' \subseteq pending /\ listed' \subseteq listed /\ shown' \subseteq shown
        /\ \/ /\ answer[job[w].plan] = "none"
              /\ answer' = [answer EXCEPT ![job[w].plan] = job[w].verdict]
              /\ job[w].op = "answer" => Step(w, "store")
           \/ /\ answer' = answer
              /\ job[w].op = "answer" => Step(w, "fail")
        /\ job[w].op = "plain" => Finish(w)
    BY DEF Ask, Answered
  <1> QED  BY <1>1, <1>3, <1>4

LEMMA AskCore ==
    ASSUME Typed, Core, NEW w \in Workers, Ask(w)
    PROVE  Core'
  <1> DEFINE p == job[w].plan
             v == job[w].verdict
  <1>1. /\ UNCHANGED <<responses, owner, arriving, channel, lock>>
        /\ job[w].at = "ask" /\ job[w].op \in {"answer", "plain"}
        /\ p \in Plans /\ v \in Verdict /\ owner[p] \in Sessions
        /\ pending' \subseteq pending /\ listed' \subseteq listed /\ shown' \subseteq shown
        /\ job[w].op = "plain" => Finish(w)
        /\ job[w].op = "answer" => Step(w, "store") \/ Step(w, "fail")
    BY AskIs
  <1>2. \/ /\ answer[p] = "none" /\ answer' = [answer EXCEPT ![p] = v]
           /\ job[w].op = "answer" => Step(w, "store")
        \/ answer' = answer /\ (job[w].op = "answer" => Step(w, "fail"))
    BY AskIs
  <1>3. answer \in [Plans -> Verdict \cup Unheard] /\ responses \subseteq Response
    BY TypedParts DEF PlansTyped, DurableTyped
  <1>4. \A q \in Plans : answer'[q] = answer[q] \/ (q = p /\ answer[q] = "none" /\ answer'[q] = v)
    BY <1>1, <1>2, <1>3
  <1>5. OwnerKept /\ HeardKept
    BY <1>1, <1>4 DEF OwnerKept, HeardKept
  <1>6. Known'
    BY <1>1, <1>4, <1>5, KnownFrom, SetsDiffer DEF Core
  <1>7. job[w].op = "answer" => Row(w) \in responses /\ lock = w
           /\ CallerOf(job[w].by) \in Ancestors[owner[p]]
    BY <1>1, JobIs
  <1>8. Recorded'
    <2>1. \A r \in responses' : RowIs(r)'
      BY <1>1, <1>3, <1>5, RowKept DEF Core, Recorded
    <2>2. UniqueIn(responses')
      BY <1>1 DEF Core, Recorded
    <2>3. Backed'
      <3> SUFFICES ASSUME NEW q \in Plans, answer'[q] \in Verdict, owner'[q] # None,
                          Parent[owner'[q]] # None
                   PROVE  \E r \in responses' : r.plan = q /\ r.verdict = answer'[q]
        BY DEF Backed
      <3>1. CASE answer'[q] = answer[q]
        BY <1>1, <3>1 DEF Core, Recorded, Backed
      <3>2. CASE answer'[q] # answer[q]
        <4>1. q = p /\ answer'[q] = v
          BY <1>4, <3>2
        <4>2. job[w].op = "answer"
          BY <1>1, <4>1 DEF Core, Doing, Serving
        <4>3. Row(w).plan = p /\ Row(w).verdict = v
          BY DEF Row
        <4> QED  BY <1>1, <1>7, <4>1, <4>2, <4>3
      <3> QED  BY <3>1, <3>2
    <2> QED  BY <2>1, <2>2, <2>3 DEF Recorded
  <1>9. Doing(w)'
    <2>1. CASE job[w].op = "plain"
      <3>1. job'[w] = Idle
        BY <1>1, <2>1, TypedParts, FinishTyped DEF JobsTyped
      <3> QED  BY <3>1, IdleDoes
    <2>2. CASE job[w].op = "answer"
      <3>1. Doing(w) /\ lock' = w /\ Row(w) \in responses'
        BY <1>1, <1>7, <2>2 DEF Core
      <3>2. CASE Step(w, "store") /\ answer'[p] = v
        BY <1>5, <1>7, <2>2, <3>1, <3>2, MovedDoes DEF Places
      <3>3. CASE Step(w, "fail")
        BY <1>5, <1>7, <2>2, <3>1, <3>3, MovedDoes DEF Places
      <3>4. answer' = [answer EXCEPT ![p] = v] => answer'[p] = v
        BY <1>1, <1>3
      <3> QED  BY <1>2, <2>2, <3>2, <3>3, <3>4
    <2> QED  BY <1>1, <2>1, <2>2
  <1>10. \A u \in Workers : u # w => Doing(u)'
    <2>1. \A u \in Workers : u # w => job'[u] = job[u] /\ (lock = u => lock' = u)
      BY <1>1, MovesAlone DEF Places
    <2> QED  BY <1>1, <1>5, <2>1, DoingKept DEF Core
  <1> QED  BY <1>6, <1>8, <1>9, <1>10 DEF Core

\* The worker's own row is the only one with its identity.
LEMMA OwnRow ==
    ASSUME Typed, Core, NEW w \in Workers, job[w].op = "answer",
           job[w].at \in {"ask", "store", "fail"}
    PROVE  {r \in responses : r.by = job[w].by} = {Row(w)}
  <1>1. Row(w) \in responses
    BY JobIs
  <1>2. Row(w).by = job[w].by
    BY DEF Row
  <1> QED  BY <1>1, <1>2 DEF Core, Recorded, UniqueIn

\* The outcome is recorded, of that row alone.
LEMMA StoreIs ==
    ASSUME Typed, Core, NEW w \in Workers, Store(w)
    PROVE  /\ UNCHANGED <<planVars, channel>> /\ lock = w
           /\ job[w].op = "answer" /\ job[w].at \in {"store", "fail"}
           /\ CallerOf(job[w].by) \in Ancestors[owner[job[w].plan]]
           /\ (Step(w, "retire") /\ UNCHANGED lock) \/ (Finish(w) /\ Release(w))
           /\ \/ responses' = responses
              \/ \E st \in {"submitted", "failed"} :
                   /\ responses' = Restated(responses, {Row(w)}, st)
                   /\ st = "submitted" => job[w].at = "store"
  <1>1. /\ UNCHANGED <<planVars, channel>>
        /\ job[w].op = "answer" /\ job[w].at \in {"store", "fail"}
    BY DEF Store
  <1>2. PICK ok \in BOOLEAN :
        /\ Record(w, ok)
        /\ IF ok /\ job[w].at = "store" THEN Step(w, "retire") /\ UNCHANGED lock
           ELSE Finish(w) /\ Release(w)
    BY DEF Store
  <1>3. \/ responses' = responses
        \/ \E st \in {"submitted", "failed"} :
             /\ responses' = Restated(responses, {Row(w)}, st)
             /\ st = "submitted" => job[w].at = "store"
    <2>1. CASE ~ok
      BY <1>2, <2>1 DEF Record
    <2>2. CASE ok
      <3> DEFINE by == job[w].by
                 st == IF job[w].at = "store" THEN "submitted" ELSE "failed"
      <3>1. responses' = {IF r.by = by THEN [r EXCEPT !.state = st] ELSE r : r \in responses}
        BY <1>2, <2>2 DEF Record, SetResponse
      <3>2. \A r \in responses : r.by = by <=> r \in {Row(w)}
        BY <1>1, OwnRow
      <3> HIDE DEF by, st
      <3>3. responses' = Restated(responses, {Row(w)}, st)
        BY <3>1, <3>2 DEF Restated
      <3> QED  BY <3>3 DEF st
    <2> QED  BY <2>1, <2>2
  <1> QED  BY <1>1, <1>2, <1>3, JobIs

LEMMA StoreCore ==
    ASSUME Typed, Core, NEW w \in Workers, Store(w)
    PROVE  Core'
  <1>1. /\ UNCHANGED <<planVars, channel>> /\ lock = w
        /\ job[w].op = "answer" /\ job[w].at \in {"store", "fail"}
        /\ CallerOf(job[w].by) \in Ancestors[owner[job[w].plan]]
        /\ (Step(w, "retire") /\ UNCHANGED lock) \/ (Finish(w) /\ Release(w))
        /\ \/ responses' = responses
           \/ \E st \in {"submitted", "failed"} :
                /\ responses' = Restated(responses, {Row(w)}, st)
                /\ st = "submitted" => job[w].at = "store"
    BY StoreIs
  <1>2. OwnerKept /\ HeardKept
    BY <1>1 DEF OwnerKept, HeardKept, planVars
  <1>3. Known'
    BY <1>1, <1>2, KnownFrom DEF Core, planVars
  <1>4. Recorded'
    <2>1. CASE responses' = responses
      BY <1>1, <1>2, <2>1, RecordedKept DEF Core, planVars
    <2>2. ASSUME NEW st \in {"submitted", "failed"},
                 responses' = Restated(responses, {Row(w)}, st),
                 st = "submitted" => job[w].at = "store"
          PROVE  Recorded'
      <3>1. Row(w) \in responses /\ Row(w).plan = job[w].plan /\ Row(w).verdict = job[w].verdict
        BY <1>1, JobIs DEF Row
      <3>2. job[w].at = "store" => answer[job[w].plan] = job[w].verdict
        BY <1>1, JobIs
      <3>3. {Row(w)} \in SUBSET responses
            /\ (st = "submitted" => \A r \in {Row(w)} : answer[r.plan] = r.verdict)
        BY <2>2, <3>1, <3>2
      <3>4. \A q \in Plans : answer'[q] = answer[q]
        BY <1>1 DEF planVars
      <3> QED  BY <1>2, <2>2, <3>3, <3>4, RecordedRestated DEF Core
    <2> QED  BY <1>1, <2>1, <2>2
  <1>5. Doing(w)'
    <2>1. CASE Finish(w)
      <3>1. job'[w] = Idle
        BY <2>1, TypedParts, FinishTyped DEF JobsTyped
      <3> QED  BY <3>1, IdleDoes
    <2>2. CASE Step(w, "retire") /\ UNCHANGED lock
      BY <1>1, <1>2, <2>2, MovedDoes DEF Core, Places
    <2> QED  BY <1>1, <2>1, <2>2
  <1>6. \A u \in Workers : u # w => Doing(u)'
    <2>1. \A u \in Workers : u # w => job'[u] = job[u] /\ (lock = u => lock' = u)
      BY <1>1, MovesAlone DEF Places
    <2>2. \A u \in Workers : u # w =>
            ~(job[u].op = "answer" /\ job[u].at \in {"ask", "store", "fail"})
      BY <1>1, JobIs
    <2> QED  BY <1>2, <2>1, <2>2, DoingKept DEF Core
  <1> QED  BY <1>3, <1>4, <1>5, <1>6 DEF Core

LEMMA WorkerCore ==
    ASSUME Typed, Core, NEW w \in Workers, WorkerStep(w)
    PROVE  Core'
  BY LockCore, CheckCore, ClaimCore, AskCore, StoreCore, WithdrawNoticeCore, SyncCore
  DEF WorkerStep, RecordStep

\* What an event becomes.
LEMMA JobOfIs ==
    ASSUME NEW e \in TypedEvent
    PROVE  \/ /\ e.kind = "tool" /\ JobOf(e).op = "answer" /\ JobOf(e).at = "lock"
              /\ JobOf(e).by = e.of /\ JobOf(e).plan = About[e.of] /\ e.of \in Calls
           \/ JobOf(e).op \in {"plan", "void", "over"}
  <1>1. e \in Event
    BY DEF TypedEvent
  <1>2. CASE e.kind = "tool"
    BY <1>2 DEF JobOf, Idle, TypedEvent
  <1>3. CASE e.kind = "plan"
    BY <1>3 DEF JobOf, Idle
  <1>4. CASE e.kind = "void"
    BY <1>4 DEF JobOf, Idle
  <1>5. CASE e.kind = "over"
    BY <1>5 DEF JobOf, Idle
  <1> QED  BY <1>1, <1>2, <1>3, <1>4, <1>5 DEF Event

LEMMA TakeCore ==
    ASSUME Typed, Core, Take
    PROVE  Core'
  <1>1. /\ UNCHANGED <<responses, planVars, lock>>
        /\ channel # <<>> /\ channel' = Tail(channel)
        /\ job' = [job EXCEPT ![Gateway] = JobOf(Head(channel))]
    BY DEF Take, durableVars
  <1>2. channel \in Seq(TypedEvent) /\ job \in [Workers -> TypedJob] /\ Gateway \in Workers
    BY TypedParts, SetsDiffer DEF ChannelTyped, JobsTyped
  <1>3. /\ Len(channel) \in Nat /\ Len(channel) > 0 /\ Head(channel) = channel[1]
        /\ Head(channel) \in TypedEvent /\ Len(Tail(channel)) = Len(channel) - 1
        /\ \A i \in 1..Len(Tail(channel)) : Tail(channel)[i] = channel[i + 1]
    <2> HIDE DEF TypedEvent
    <2> QED  BY <1>1, <1>2
  <1>4. OwnerKept /\ HeardKept
    BY <1>1 DEF OwnerKept, HeardKept, planVars
  <1>5. Known'
    <2>1. ASSUME NEW i \in 1..Len(channel'), channel'[i].kind = "tool"
          PROVE  owner'[About[channel'[i].of]] \in Sessions
      <3>1. i + 1 \in 1..Len(channel) /\ channel'[i] = channel[i + 1]
        BY <1>1, <1>3
      <3> QED  BY <1>1, <2>1, <3>1 DEF Core, Known, planVars
    <2> QED  BY <1>1, <2>1 DEF Core, Known, planVars
  <1>6. Doing(Gateway)'
    <2> DEFINE e == Head(channel)
    <2>1. job'[Gateway] = JobOf(e)
      BY <1>1, <1>2
    <2>2. e.kind = "tool" => owner[About[e.of]] \in Sessions
      BY <1>3 DEF Core, Known
    <2>3. CASE job'[Gateway].op \in {"plan", "void", "over"}
      BY <2>3 DEF Doing, Answering, Serving
    <2>4. CASE /\ e.kind = "tool" /\ job'[Gateway].op = "answer" /\ job'[Gateway].at = "lock"
               /\ job'[Gateway].by = e.of /\ job'[Gateway].plan = About[e.of] /\ e.of \in Calls
      BY <1>1, <2>2, <2>4 DEF Doing, Answering, Serving, ByFor, planVars
    <2> QED  BY <1>3, <2>1, <2>3, <2>4, JobOfIs
  <1>7. \A v \in Workers : v # Gateway => job'[v] = job[v] /\ (lock = v => lock' = v)
    BY <1>1, <1>2
  <1> QED  BY <1>1, <1>2, <1>4, <1>5, <1>6, <1>7, CoreFrom DEF planVars

LEMMA GatewayCore ==
    ASSUME Typed, Core, GatewayStep
    PROVE  Core'
  <1>0. Gateway \in Workers
    BY SetsDiffer
  <1>1. CASE PlanChecked
    <2>1. UNCHANGED <<responses, planVars, channel, lock>> /\ job[Gateway].op = "plan"
      BY <1>1 DEF PlanChecked, At, durableVars
    <2>2. Finish(Gateway) \/ Step(Gateway, "store")
      BY <1>1 DEF PlanChecked
    <2> QED  BY <1>0, <2>1, <2>2, FinishCore, StepCore DEF Places
  <1>2. CASE PlanStored
    <2>1. UNCHANGED <<responses, planVars, channel, lock>> /\ job[Gateway].op = "plan"
      BY <1>2 DEF PlanStored, At
    <2>2. Finish(Gateway) \/ Step(Gateway, "sync")
      BY <1>2 DEF PlanStored
    <2> QED  BY <1>0, <2>1, <2>2, FinishCore, StepCore DEF Places
  <1>3. CASE Completion
    <2>1. UNCHANGED <<responses, planVars, channel, lock>> /\ job[Gateway].op = "over"
      BY <1>3 DEF Completion, At
    <2>2. Finish(Gateway) \/ Step(Gateway, "sync")
      BY <1>3 DEF Completion
    <2> QED  BY <1>0, <2>1, <2>2, FinishCore, StepCore DEF Places
  <1> QED  BY <1>1, <1>2, <1>3, TakeCore DEF GatewayStep

\* The service begins with something.
LEMMA BeginsCore ==
    ASSUME Typed, Core, UNCHANGED <<responses, planVars, channel, lock>>,
           NEW j \in TypedJob, job' = [job EXCEPT ![Service] = j],
           \/ j.op \in {"cancel", "close"}
           \/ j.op = "archive" /\ j.at = "lock"
           \/ j.op = "plain" /\ owner[j.plan] \in Sessions /\ Parent[owner[j.plan]] = None
           \/ j.op = "answer" /\ j.at = "lock" /\ owner[j.plan] \in Sessions
              /\ j.by = <<"ui", j.plan>>
    PROVE  Core'
  <1>1. job \in [Workers -> TypedJob] /\ Service \in Workers
    BY TypedParts, SetsDiffer DEF JobsTyped
  <1>2. job'[Service] = j /\ \A v \in Workers : v # Service => job'[v] = job[v]
    BY <1>1
  <1>3. OwnerKept /\ HeardKept
    BY DEF OwnerKept, HeardKept, planVars
  <1>4. Known'
    BY <1>3, KnownFrom DEF Core, planVars
  <1>5. Doing(Service)'
    BY <1>2 DEF Doing, Answering, Serving, ByFor, planVars
  <1> QED  BY <1>1, <1>2, <1>3, <1>4, <1>5, CoreFrom DEF planVars

LEMMA ServiceAnswersCore ==
    ASSUME Typed, Core, NEW p \in Plans, NEW v \in Verdict, ServiceAnswers(p, v)
    PROVE  Core'
  <1>1. UNCHANGED <<responses, planVars, channel, lock>> /\ p \in shown
    BY DEF ServiceAnswers, durableVars
  <1>2. owner[p] \in Sessions
    BY <1>1, TypedParts DEF PlansTyped, Core, Known
  <1> DEFINE a == [Idle EXCEPT !.op = "plain", !.at = "ask", !.plan = p, !.verdict = v]
             b == [Idle EXCEPT !.op = "answer", !.at = "lock", !.plan = p,
                               !.verdict = v, !.by = <<"ui", p>>]
  <1>3. \/ job' = [job EXCEPT ![Service] = a] /\ Parent[owner[p]] = None
        \/ job' = [job EXCEPT ![Service] = b]
    BY DEF ServiceAnswers
  <1>4. /\ a.op = "plain" /\ a.plan = p
        /\ b.op = "answer" /\ b.at = "lock" /\ b.plan = p /\ b.by = <<"ui", p>>
    BY DEF Idle
  <1>5. a \in TypedJob /\ b \in TypedJob
    BY AnswersTyped
  <1> HIDE DEF a, b
  <1> QED  BY <1>1, <1>2, <1>3, <1>4, <1>5, BeginsCore

LEMMA ServiceStartsCore ==
    ASSUME Typed, Core, NEW s \in Sessions, NEW op \in {"cancel", "close", "archive"},
           ServiceStarts(s, op)
    PROVE  Core'
  <1> DEFINE at == IF op = "archive" THEN "lock" ELSE "ask"
             a == [Idle EXCEPT !.op = op, !.sess = s, !.at = at]
  <1>1. UNCHANGED <<responses, planVars, channel, lock>> /\ job' = [job EXCEPT ![Service] = a]
    BY DEF ServiceStarts, durableVars
  <1>2. a \in TypedJob
    BY StartsTyped
  <1>3. a.op = op /\ a.at = at
    BY DEF Idle
  <1>4. op = "archive" => at = "lock"
    OBVIOUS
  <1> HIDE DEF a, at
  <1> QED  BY <1>1, <1>2, <1>3, <1>4, BeginsCore

LEMMA RetireCoordinationIs ==
    ASSUME Typed, Core, RetireCoordination
    PROVE  /\ UNCHANGED <<planVars, channel>> /\ lock = Service
           /\ Finish(Service) /\ Release(Service)
           /\ \E S \in SUBSET {r \in responses : r.state = "submitting"} :
                responses' = Restated(responses, S, "failed")
  <1>1. /\ UNCHANGED <<planVars, channel>> /\ Finish(Service) /\ Release(Service)
        /\ job[Service].op = "archive" /\ job[Service].at = "retire"
    BY DEF RetireCoordination, At
  <1>2. lock = Service
    BY <1>1, SetsDiffer DEF Core, Doing, Serving
  <1>3. \E S \in SUBSET {r \in responses : r.state = "submitting"} :
          responses' = Restated(responses, S, "failed")
    <2> DEFINE s == job[Service].sess
    <2>1. \/ responses' = {IF r.state = "submitting" /\ s \in {owner[r.plan], CallerOf(r.by)}
                           THEN [r EXCEPT !.state = "failed"] ELSE r : r \in responses}
          \/ responses' = responses
      BY DEF RetireCoordination
    <2> HIDE DEF s
    <2>2. CASE responses' = responses
      <3>1. responses' = Restated(responses, {}, "failed")
        BY <2>2 DEF Restated
      <3> QED  BY <3>1
    <2>3. CASE responses' = {IF r.state = "submitting" /\ s \in {owner[r.plan], CallerOf(r.by)}
                             THEN [r EXCEPT !.state = "failed"] ELSE r : r \in responses}
      <3> DEFINE S == {r \in responses : /\ r.state = "submitting"
                                         /\ s \in {owner[r.plan], CallerOf(r.by)}}
      <3>1. \A r \in responses : r \in S <=>
              r.state = "submitting" /\ s \in {owner[r.plan], CallerOf(r.by)}
        OBVIOUS
      <3>2. S \in SUBSET {r \in responses : r.state = "submitting"}
        OBVIOUS
      <3> HIDE DEF S
      <3>3. responses' = Restated(responses, S, "failed")
        BY <2>3, <3>1 DEF Restated
      <3> QED  BY <3>2, <3>3
    <2> QED  BY <2>1, <2>2, <2>3
  <1> QED  BY <1>1, <1>2, <1>3

LEMMA RetireCoordinationCore ==
    ASSUME Typed, Core, RetireCoordination
    PROVE  Core'
  <1>1. /\ UNCHANGED <<planVars, channel>> /\ lock = Service
        /\ Finish(Service) /\ Release(Service) /\ Service \in Workers
    BY RetireCoordinationIs, SetsDiffer
  <1>2. PICK S \in SUBSET {r \in responses : r.state = "submitting"} :
          responses' = Restated(responses, S, "failed")
    BY RetireCoordinationIs
  <1>3. OwnerKept /\ HeardKept
    BY <1>1 DEF OwnerKept, HeardKept, planVars
  <1>4. Known'
    BY <1>1, <1>3, KnownFrom DEF Core, planVars
  <1>5. Recorded'
    <2>1. S \in SUBSET responses /\ \A q \in Plans : answer'[q] = answer[q]
      BY <1>1 DEF planVars
    <2> QED  BY <1>2, <1>3, <2>1, RecordedRestated DEF Core
  <1>6. Doing(Service)'
    <2>1. job'[Service] = Idle
      BY <1>1, TypedParts, FinishTyped DEF JobsTyped
    <2> QED  BY <1>1, <2>1, IdleDoes
  <1>7. \A u \in Workers : u # Service => Doing(u)'
    <2>1. \A u \in Workers : u # Service => job'[u] = job[u] /\ (lock = u => lock' = u)
      BY <1>1, MovesAlone DEF Places
    <2>2. \A u \in Workers : u # Service =>
            ~(job[u].op = "answer" /\ job[u].at \in {"ask", "store", "fail"})
      BY <1>1, JobIs
    <2> QED  BY <1>3, <2>1, <2>2, DoingKept DEF Core
  <1> QED  BY <1>4, <1>5, <1>6, <1>7 DEF Core

LEMMA ServiceCore ==
    ASSUME Typed, Core, ServiceStep
    PROVE  Core'
  <1>0. Service \in Workers /\ Doing(Service)
    BY SetsDiffer DEF Core
  <1>1. CASE ServiceMisses
    <2>1. UNCHANGED <<responses, planVars, channel, lock>>
          /\ job[Service].op \in {"cancel", "close", "archive"} /\ job[Service].at # "lock"
      BY <1>1 DEF ServiceMisses, durableVars
    <2>2. Finish(Service) \/ Step(Service, "unmap") \/ Step(Service, "store")
      BY <1>1, OnwardTyped DEF ServiceMisses
    <2>3. job[Service].op = "archive" => lock' = Service
      BY <1>0, <2>1 DEF Doing, Serving
    <2> QED  BY <1>0, <2>1, <2>2, <2>3, FinishCore, StepCore DEF Places
  <1>2. CASE Unmap
    BY <1>0, <1>2, FinishCore DEF Unmap, durableVars
  <1>3. CASE Archive
    <2>1. UNCHANGED <<responses, planVars, channel, lock>> /\ Step(Service, "retire")
          /\ job[Service].op = "archive" /\ job[Service].at = "store"
      BY <1>3 DEF Archive, At
    <2>2. lock' = Service
      BY <1>0, <2>1 DEF Doing, Serving
    <2> QED  BY <1>0, <2>1, <2>2, StepCore DEF Places
  <1> QED
    BY <1>1, <1>2, <1>3, ServiceAnswersCore, ServiceStartsCore, RetireCoordinationCore
    DEF ServiceStep

\* The process dies.
LEMMA RestartIs ==
    ASSUME Typed, Core, Restart
    PROVE  /\ owner' = owner /\ answer' = LostWith(Sessions)
           /\ \E S \in SUBSET {r \in responses : r.state = "submitting"} :
                responses' = Restated(responses, S, "failed")
  <1>1. owner' = owner /\ answer' = LostWith(Sessions)
        /\ responses' = {Interrupted(r) : r \in responses}
    BY DEF Restart
  <1> DEFINE S == {r \in responses : r.state = "submitting"}
  <1>2. \A r \in responses : r \in S <=> r.state = "submitting"
    OBVIOUS
  <1> HIDE DEF S
  <1>3. responses' = Restated(responses, S, "failed")
    BY <1>1, <1>2 DEF Restated, Interrupted
  <1>4. S \in SUBSET {r \in responses : r.state = "submitting"}
    BY DEF S
  <1> QED  BY <1>1, <1>3, <1>4

LEMMA RestartCore ==
    ASSUME Typed, Core, Restart
    PROVE  Core'
  <1>1. owner' = owner /\ answer' = LostWith(Sessions)
    BY RestartIs
  <1>2. PICK S \in SUBSET {r \in responses : r.state = "submitting"} :
          responses' = Restated(responses, S, "failed")
    BY RestartIs
  <1>3. \A p \in Plans : \/ answer'[p] = answer[p]
                         \/ owner[p] \in Sessions /\ answer[p] = "none" /\ answer'[p] = "lost"
    BY <1>1 DEF LostWith
  <1>4. OwnerKept /\ HeardKept
    BY <1>1, <1>3 DEF OwnerKept, HeardKept
  <1>5. Known'
    BY <1>1, <1>3, SetsDiffer DEF Restart, Core, Known
  <1>6. Recorded'
    BY <1>2, <1>3, <1>4, RecordedRestated DEF Core
  <1>7. \A w \in Workers : job'[w] = Idle
    BY DEF Restart
  <1> QED  BY <1>5, <1>6, <1>7, IdleDoes DEF Core

LEMMA LifeCore ==
    ASSUME Typed, Core, LifeStep
    PROVE  Core'
  <1>1. ASSUME NEW s \in Sessions, Restore(s) PROVE Core'
    <2>1. UNCHANGED <<responses, planVars, job, lock>>
      BY <1>1 DEF Restore
    <2>2. PICK st \in Rest : channel' = IF Owed(s)
                   THEN Append(channel, [kind |-> "over", of |-> s, status |-> st])
                   ELSE channel
      BY <1>1 DEF Restore, Rest
    <2> DEFINE e == [kind |-> "over", of |-> s, status |-> st]
    <2>3. e \in TypedEvent /\ e.kind # "tool"
      BY DEF TypedEvent, Event
    <2>4. channel' = Append(channel, e) \/ channel' = channel
      BY <2>2
    <2> HIDE DEF e
    <2> QED  BY <2>1, <2>3, <2>4, SendsCore, AsideCore DEF planVars
  <1>2. ASSUME NEW s \in Sessions, Install(s) PROVE Core'
    BY <1>2, AsideCore DEF Install, durableVars, planVars, otherVars
  <1> QED  BY <1>1, <1>2, RestartCore DEF LifeStep

LEMMA CoreInit == Init => Core
  <1> SUFFICES ASSUME Init PROVE Core
    OBVIOUS
  <1>1. Known
    BY DEF Init, Known
  <1>2. \A w \in Workers : Doing(w)
    BY IdleTyped DEF Init, Doing, Answering, Serving
  <1>3. Recorded
    BY DEF Init, Recorded, UniqueIn, Backed
  <1> QED  BY <1>1, <1>2, <1>3 DEF Core

LEMMA CoreKept ==
    ASSUME Typed, Obeying, Core, [Next]_vars
    PROVE  Core'
  <1>1. CASE UNCHANGED vars
    BY <1>1, AsideCore DEF vars, durableVars, planVars, otherVars
  <1> QED
    BY <1>1, RuntimeCore, ActorCore, GatewayCore, ServiceCore, LifeCore, WorkerCore DEF Next

\* The inductive invariant.
CoordinationInv == Typed /\ Obeying /\ Core

LEMMA CoordinationInvariant == Spec => []CoordinationInv
  <1>1. Init => CoordinationInv
    BY TypedInit, ObeyingInit, CoreInit DEF CoordinationInv
  <1>2. CoordinationInv /\ [Next]_vars => CoordinationInv'
    BY TypedKept, ObeyingKept, CoreKept DEF CoordinationInv
  <1> QED  BY <1>1, <1>2, PTL DEF Spec

\* THEOREM: what the runtime of a child heard is what the one row of its plan
\* says, and an answer recorded as submitted was heard, whoever answered, was
\* late, retried or crashed (create_plan_response, set_plan_response_state,
\* SessionActor::respond).
THEOREM PlansAnsweredAsRecorded == Spec => []HeardAsRecorded
  <1>1. CoordinationInv => HeardAsRecorded
    <2> SUFFICES ASSUME CoordinationInv PROVE HeardAsRecorded
      OBVIOUS
    <2>1. \A r, q \in responses : r.plan = q.plan => r = q
      BY DEF CoordinationInv, Core, Recorded, UniqueIn
    <2>2. \A r \in responses : r.state = "submitted" => answer[r.plan] = r.verdict
      BY DEF CoordinationInv, Core, Recorded, RowIs
    <2>3. \A p \in Plans : answer[p] \in Verdict => owner[p] # None
      BY SetsDiffer DEF CoordinationInv, Core, Known
    <2> QED
      BY <2>1, <2>2, <2>3 DEF HeardAsRecorded, CoordinationInv, Core, Recorded, Backed
  <1> QED  BY <1>1, CoordinationInvariant, PTL

\* THEOREM: a verdict that the runtime of a child heard from a row came from an
\* ancestor of the child, the developer standing for its parent
\* (authorize_plan_response), also when sessions are archived, calls retried and
\* answers raced.
THEOREM AncestorsAnswer == Spec => []OnlyAncestorsAnswer
  <1>1. CoordinationInv => OnlyAncestorsAnswer
    BY DEF CoordinationInv, Core, Recorded, RowIs, OnlyAncestorsAnswer
  <1> QED  BY <1>1, CoordinationInvariant, PTL

-----------------------------------------------------------------------------
(* The protocol implements PlanApproval.                                   *)

\* ClaimOf, of any set of rows.
ClaimIn(R, p) ==
    IF \E r \in R : r.plan = p
    THEN LET r == CHOOSE r \in R : r.plan = p
         IN  [by |-> r.by, verdict |-> r.verdict, state |-> r.state]
    ELSE None

LEMMA ClaimOfIn == \A p : ClaimOf(p) = ClaimIn(responses, p) /\ ClaimOf(p)' = ClaimIn(responses', p)
  BY DEF ClaimOf, ClaimIn

LEMMA ClaimInIs ==
    ASSUME NEW R, UniqueIn(R), NEW r \in R
    PROVE  ClaimIn(R, r.plan) = [by |-> r.by, verdict |-> r.verdict, state |-> r.state]
  <1> DEFINE q == CHOOSE q \in R : q.plan = r.plan
  <1>1. q \in R /\ q.plan = r.plan
    OBVIOUS
  <1>2. q = r
    BY <1>1 DEF UniqueIn
  <1>3. ClaimIn(R, r.plan) = [by |-> q.by, verdict |-> q.verdict, state |-> q.state]
    BY Zenon DEF ClaimIn
  <1> QED  BY <1>2, <1>3

LEMMA ClaimInNone ==
    ASSUME NEW R, NEW p, \A r \in R : r.plan # p
    PROVE  ClaimIn(R, p) = None
  BY DEF ClaimIn

LEMMA ClaimInTyped ==
    ASSUME NEW R \in SUBSET Response, UniqueIn(R), NEW p
    PROVE  /\ ClaimIn(R, p) \in Approval!Answer \cup {None}
           /\ ClaimIn(R, p) = None <=> \A r \in R : r.plan # p
  <1>1. CASE \A r \in R : r.plan # p
    BY <1>1, ClaimInNone
  <1>2. CASE ~\A r \in R : r.plan # p
    <2>1. PICK r \in R : r.plan = p
      BY <1>2
    <2>2. ClaimIn(R, p) = [by |-> r.by, verdict |-> r.verdict, state |-> r.state]
      BY <2>1, ClaimInIs
    <2>3. [by |-> r.by, verdict |-> r.verdict, state |-> r.state] \in
            [by : By, verdict : Verdict \cup {"cancel"}, state : {"submitting", "submitted", "failed"}]
      BY DEF Response
    <2>4. ClaimIn(R, p) # None
      BY <2>2, <2>3, NoneIsNoClaim
    <2> QED  BY <1>2, <2>2, <2>3, <2>4 DEF Approval!Answer
  <1> QED  BY <1>1, <1>2

\* What a step may do to a claim, and to what a session heard.
ClaimMoves(p) ==
    \/ ClaimOf(p)' = ClaimOf(p)
    \/ /\ ClaimOf(p) = None /\ ClaimOf(p)' # None
       /\ ClaimOf(p)'.state = IF ClaimOf(p)'.verdict = "cancel" THEN "failed" ELSE "submitting"
    \/ /\ ClaimOf(p) # None /\ ClaimOf(p).state = "submitting"
       /\ \E st \in {"submitted", "failed"} :
            /\ ClaimOf(p)' = [ClaimOf(p) EXCEPT !.state = st]
            /\ st = "submitted" => HeardOf(p) = ClaimOf(p).verdict

HeardMoves(p) ==
    \/ HeardOf(p)' = HeardOf(p)
    \/ /\ HeardOf(p) = "none"
       /\ \/ HeardOf(p)' \in {"cancel", "lost"}
          \/ /\ ClaimOf(p) # None /\ ClaimOf(p).state = "submitting"
             /\ HeardOf(p)' = ClaimOf(p).verdict

LEMMA HeardTyping ==
    ASSUME Typed, NEW p \in Plans
    PROVE  HeardOf(p) \in Verdict \cup {"none", "cancel", "lost"}
  BY TypedParts DEF HeardOf, PlansTyped, Unheard

LEMMA HeardTypingNext ==
    ASSUME Typed', NEW p \in Plans
    PROVE  HeardOf(p)' \in Verdict \cup {"none", "cancel", "lost"}
  <1>1. answer' \in [Plans -> Verdict \cup Unheard]
    BY DEF Typed, TypeOK
  <1> QED  BY <1>1 DEF HeardOf, Unheard

LEMMA MovesImplement ==
    ASSUME CoordinationInv', \A p \in Plans : ClaimMoves(p) /\ HeardMoves(p)
    PROVE  Approval!Next
  <1> DEFINE c == [p \in Plans |-> ClaimOf(p)]
             h == [p \in Plans |-> HeardOf(p)]
  <1>1. /\ \A p \in Plans : c[p] = ClaimOf(p) /\ c'[p] = ClaimOf(p)'
        /\ \A p \in Plans : h[p] = HeardOf(p) /\ h'[p] = HeardOf(p)'
    OBVIOUS
  <1>2. \A p \in Plans : ClaimOf(p)' \in Approval!Answer \cup {None}
    <2>1. responses' \in SUBSET Response /\ UniqueIn(responses')
      BY DEF CoordinationInv, Typed, TypeOK, Core, Recorded
    <2> QED  BY <2>1, ClaimOfIn, ClaimInTyped
  <1>3. \A p \in Plans : HeardOf(p)' \in Verdict \cup Approval!GivenUp \cup {"none"}
    BY HeardTypingNext DEF CoordinationInv, Approval!GivenUp
  <1>4. c' \in [Plans -> Approval!Answer \cup {None}]
    BY <1>2
  <1>5. h' \in [Plans -> Verdict \cup Approval!GivenUp \cup {"none"}]
    BY <1>3
  <1>6. ASSUME NEW p \in Plans
        PROVE  c'[p] = c[p] \/ Approval!Claims(p) \/ Approval!Records(p)
    <2>1. CASE ClaimOf(p)' = ClaimOf(p)
      BY <1>1, <2>1
    <2>2. CASE /\ ClaimOf(p) = None /\ ClaimOf(p)' # None
               /\ ClaimOf(p)'.state = IF ClaimOf(p)'.verdict = "cancel" THEN "failed" ELSE "submitting"
      BY <1>2, <2>2 DEF Approval!Claims
    <2>3. CASE /\ ClaimOf(p) # None /\ ClaimOf(p).state = "submitting"
               /\ \E st \in {"submitted", "failed"} :
                    /\ ClaimOf(p)' = [ClaimOf(p) EXCEPT !.state = st]
                    /\ st = "submitted" => HeardOf(p) = ClaimOf(p).verdict
      BY <2>3 DEF Approval!Records
    <2> QED  BY <2>1, <2>2, <2>3 DEF ClaimMoves
  <1>7. ASSUME NEW p \in Plans
        PROVE  h'[p] = h[p] \/ Approval!Hears(p)
    BY <1>1 DEF HeardMoves, Approval!Hears, Approval!GivenUp
  <1> QED  BY <1>4, <1>5, <1>6, <1>7 DEF Approval!Next

LEMMA QuietHears ==
    ASSUME Typed, Core, OwnerKept, HeardKept,
           \A p \in Plans : answer'[p] = answer[p] \/ answer'[p] \in {"cancel", "lost"}
    PROVE  \A p \in Plans : HeardMoves(p)
  <1> SUFFICES ASSUME NEW p \in Plans PROVE HeardMoves(p)
    OBVIOUS
  <1>1. HeardOf(p)' \in {"none", answer'[p]}
    BY DEF HeardOf
  <1>2. CASE owner[p] = None
    <2>1. answer[p] = "none" /\ HeardOf(p) = "none"
      BY <1>2 DEF Core, Known, HeardOf
    <2> QED  BY <1>1, <2>1 DEF HeardMoves
  <1>3. CASE owner[p] # None
    <2>1. owner'[p] = owner[p]
      BY <1>3 DEF OwnerKept
    <2>2. CASE answer'[p] = answer[p]
      BY <2>1, <2>2 DEF HeardOf, HeardMoves
    <2>3. CASE answer'[p] # answer[p]
      <3>1. answer[p] = "none" /\ answer'[p] \in {"cancel", "lost"}
        BY <2>3 DEF HeardKept
      <3>2. HeardOf(p) = "none"
        BY <3>1 DEF HeardOf
      <3> QED  BY <1>1, <3>1, <3>2 DEF HeardMoves
    <2> QED  BY <2>2, <2>3
  <1> QED  BY <1>2, <1>3

LEMMA QuietClaims ==
    ASSUME responses' = responses
    PROVE  \A p \in Plans : ClaimMoves(p)
  BY ClaimOfIn DEF ClaimMoves

\* Rows that get another state are records of their claims.
LEMMA RestatedClaims ==
    ASSUME Typed, Core, NEW S \in SUBSET {r \in responses : r.state = "submitting"},
           NEW st \in {"submitted", "failed"}, responses' = Restated(responses, S, st),
           st = "submitted" => \A r \in S : HeardOf(r.plan) = r.verdict
    PROVE  \A p \in Plans : ClaimMoves(p)
  <1>0. responses \in SUBSET Response /\ UniqueIn(responses) /\ S \in SUBSET responses
    BY TypedParts DEF DurableTyped, Core, Recorded
  <1>1. /\ UniqueIn(responses')
        /\ \A q \in responses' : \E r \in responses :
              /\ q.by = r.by /\ q.plan = r.plan /\ q.verdict = r.verdict
              /\ IF r \in S THEN q.state = st ELSE q = r
        /\ \A r \in responses : IF r \in S THEN [r EXCEPT !.state = st] \in responses'
                                ELSE r \in responses'
    BY <1>0, RestatedRows
  <1> SUFFICES ASSUME NEW p \in Plans PROVE ClaimMoves(p)
    OBVIOUS
  <1>2. CASE \A r \in responses : r.plan # p
    <2>1. \A q \in responses' : q.plan # p
      BY <1>1, <1>2
    <2>2. ClaimIn(responses, p) = None /\ ClaimIn(responses', p) = None
      BY <1>2, <2>1, ClaimInNone
    <2> QED  BY <2>2, ClaimOfIn DEF ClaimMoves
  <1>3. CASE \E r \in responses : r.plan = p
    <2>1. PICK r \in responses : r.plan = p
      BY <1>3
    <2>2. ClaimOf(p) = [by |-> r.by, verdict |-> r.verdict, state |-> r.state]
      BY <1>0, <2>1, ClaimInIs, ClaimOfIn
    <2>3. CASE r \notin S
      <3>1. r \in responses'
        BY <1>1, <2>3
      <3>2. ClaimOf(p)' = [by |-> r.by, verdict |-> r.verdict, state |-> r.state]
        BY <1>1, <2>1, <3>1, ClaimInIs, ClaimOfIn
      <3> QED  BY <2>2, <3>2 DEF ClaimMoves
    <2>4. CASE r \in S
      <3> DEFINE q == [r EXCEPT !.state = st]
      <3>1. q \in responses' /\ q.plan = p /\ q.by = r.by /\ q.verdict = r.verdict
            /\ q.state = st
        BY <1>0, <1>1, <2>1, <2>4 DEF Response
      <3> HIDE DEF q
      <3>2. ClaimOf(p)' = [by |-> q.by, verdict |-> q.verdict, state |-> q.state]
        BY <1>1, <3>1, ClaimInIs, ClaimOfIn
      <3>3. ClaimOf(p)' = [by |-> r.by, verdict |-> r.verdict, state |-> st]
        BY <3>1, <3>2
      <3>4. ClaimOf(p)' = [ClaimOf(p) EXCEPT !.state = st]
        BY <2>2, <3>3
      <3>5. ClaimOf(p) # None
        BY <1>0, <2>1, ClaimInTyped, ClaimOfIn
      <3>6. ClaimOf(p).state = "submitting" /\ ClaimOf(p).verdict = r.verdict
        BY <2>2, <2>4
      <3>7. st = "submitted" => HeardOf(p) = ClaimOf(p).verdict
        BY <2>1, <2>4, <3>6
      <3> QED  BY <3>4, <3>5, <3>6, <3>7 DEF ClaimMoves
    <2> QED  BY <2>3, <2>4
  <1> QED  BY <1>2, <1>3

\* Rows that are added are claims.
LEMMA AddedClaims ==
    ASSUME Typed, Core, Core', NEW A \in SUBSET Response, responses' = responses \cup A,
           \A r \in A : /\ \A q \in responses : q.plan # r.plan
                        /\ r.state = IF r.verdict = "cancel" THEN "failed" ELSE "submitting"
    PROVE  \A p \in Plans : ClaimMoves(p)
  <1>0. /\ responses \in SUBSET Response /\ UniqueIn(responses) /\ UniqueIn(responses')
        /\ responses' \in SUBSET Response
    BY TypedParts DEF DurableTyped, Core, Recorded
  <1> SUFFICES ASSUME NEW p \in Plans PROVE ClaimMoves(p)
    OBVIOUS
  <1>1. CASE \E r \in A : r.plan = p
    <2>1. PICK r \in A : r.plan = p
      BY <1>1
    <2>2. ClaimOf(p) = None
      BY <2>1, ClaimInNone, ClaimOfIn
    <2>3. r \in responses' /\ ClaimOf(p)' = [by |-> r.by, verdict |-> r.verdict, state |-> r.state]
      BY <1>0, <2>1, ClaimInIs, ClaimOfIn
    <2>4. ClaimOf(p)' # None
      BY <1>0, <2>1, <2>3, ClaimInTyped, ClaimOfIn
    <2>5. ClaimOf(p)'.state = r.state /\ ClaimOf(p)'.verdict = r.verdict
      BY <2>3
    <2> QED  BY <2>2, <2>4, <2>5 DEF ClaimMoves
  <1>2. CASE \A r \in A : r.plan # p
    <2>1. CASE \E r \in responses : r.plan = p
      <3>1. PICK r \in responses : r.plan = p
        BY <2>1
      <3>2. ClaimIn(responses, p) = [by |-> r.by, verdict |-> r.verdict, state |-> r.state]
        BY <1>0, <3>1, ClaimInIs
      <3>3. ClaimIn(responses', p) = [by |-> r.by, verdict |-> r.verdict, state |-> r.state]
        BY <1>0, <3>1, ClaimInIs
      <3> QED  BY <3>2, <3>3, ClaimOfIn DEF ClaimMoves
    <2>2. CASE \A r \in responses : r.plan # p
      <3>1. \A r \in responses' : r.plan # p
        BY <1>2, <2>2
      <3>2. ClaimIn(responses, p) = None /\ ClaimIn(responses', p) = None
        BY <2>2, <3>1, ClaimInNone
      <3> QED  BY <3>2, ClaimOfIn DEF ClaimMoves
    <2> QED  BY <2>1, <2>2
  <1> QED  BY <1>1, <1>2

\* Which steps change rows.
LEMMA RowsStay ==
    ASSUME [Next]_vars
    PROVE  \/ responses' = responses
           \/ \E s \in Sessions : Obey(s) \/ ProviderCloses(s)
           \/ \E w \in Workers : Claim(w) \/ Store(w)
           \/ RetireCoordination \/ Restart
  <1>1. CASE UNCHANGED vars
    BY <1>1 DEF vars, durableVars
  <1>2. CASE RuntimeStep
    BY <1>2 DEF RuntimeStep, AskPlan, Abandon, AgentCalls, durableVars
  <1>3. CASE ActorStep
    BY <1>3 DEF ActorStep, ReceivePlan, TurnStart, TurnOver, WorkFails, Heard, Notify, Retire,
                Ended, Deliver, durableVars
  <1>4. CASE GatewayStep
    BY <1>4 DEF GatewayStep, Take, PlanChecked, PlanStored, Completion, durableVars
  <1>5. CASE ServiceStep
    BY <1>5 DEF ServiceStep, ServiceAnswers, ServiceStarts, ServiceMisses, Unmap, Archive,
                durableVars
  <1>6. CASE LifeStep
    BY <1>6 DEF LifeStep, Restore, Install, durableVars
  <1>7. CASE \E w \in Workers : WorkerStep(w)
    BY <1>7 DEF WorkerStep, RecordStep, Lock, Check, Ask, WithdrawNotice, Sync, durableVars
  <1> QED  BY <1>1, <1>2, <1>3, <1>4, <1>5, <1>6, <1>7 DEF Next

LEMMA AllClaims ==
    ASSUME Typed, Core, Core', Typed', [Next]_vars
    PROVE  \A p \in Plans : ClaimMoves(p)
  <1>1. CASE responses' = responses
    BY <1>1, QuietClaims
  <1>2. ASSUME NEW s \in Sessions, Obey(s) \/ ProviderCloses(s)
        PROVE  \A p \in Plans : ClaimMoves(p)
    <2>1. PICK end : Cancelling(s, end)
      BY <1>2 DEF Obey, ProviderCloses
    <2>2. PICK C \in SUBSET PlansOf(s) :
            /\ \A p \in C : ~Claimed(<<"invalidation", p>>, p)
            /\ responses' = responses \cup {Invalid(p) : p \in C}
      BY <2>1, CancelledIs
    <2> DEFINE A == {Invalid(p) : p \in C}
    <2>3. C \subseteq Plans
      BY DEF PlansOf
    <2>4. \A r \in A : \E p \in C : r = Invalid(p)
      OBVIOUS
    <2> HIDE DEF A
    <2>5. \A r \in A : /\ r \in Response /\ \A q \in responses : q.plan # r.plan
                       /\ r.state = "failed" /\ r.verdict = "cancel"
      BY <2>2, <2>3, <2>4, InvalidTyped DEF Claimed
    <2>6. A \in SUBSET Response
      BY <2>5
    <2>7. responses' = responses \cup A
      BY <2>2 DEF A
    <2> QED  BY <2>5, <2>6, <2>7, AddedClaims
  <1>3. ASSUME NEW w \in Workers, Claim(w), responses' # responses
        PROVE  \A p \in Plans : ClaimMoves(p)
    <2>1. /\ ~Claimed(job[w].by, job[w].plan) /\ responses' = responses \cup {Row(w)}
          /\ job[w].op = "answer"
      BY <1>3 DEF Claim, At, Row
    <2>2. job[w].verdict \in Verdict
      BY <2>1, JobIs
    <2>3. Row(w) \in Response
      BY <2>1, TypedParts DEF Typed, TypeOK
    <2>4. /\ Row(w).plan = job[w].plan /\ Row(w).state = "submitting"
          /\ Row(w).verdict # "cancel"
      BY <2>2, SetsDiffer DEF Row
    <2>5. \A q \in responses : q.plan # Row(w).plan
      BY <2>1, <2>4 DEF Claimed
    <2>6. {Row(w)} \in SUBSET Response
      BY <2>3
    <2> QED  BY <2>1, <2>4, <2>5, <2>6, AddedClaims
  <1>4. ASSUME NEW w \in Workers, Store(w), responses' # responses
        PROVE  \A p \in Plans : ClaimMoves(p)
    <2>1. PICK st \in {"submitted", "failed"} :
            /\ responses' = Restated(responses, {Row(w)}, st)
            /\ st = "submitted" => job[w].at = "store"
      BY <1>4, StoreIs
    <2>2. job[w].op = "answer" /\ job[w].at \in {"store", "fail"}
          /\ CallerOf(job[w].by) \in Ancestors[owner[job[w].plan]]
      BY <1>4, StoreIs
    <2>3. /\ Row(w) \in responses /\ owner[job[w].plan] \in Sessions
          /\ job[w].at = "store" => answer[job[w].plan] = job[w].verdict
      BY <2>2, JobIs
    <2>4. Row(w).plan = job[w].plan /\ Row(w).verdict = job[w].verdict
          /\ Row(w).state = "submitting"
      BY DEF Row
    <2>5. HeardOf(job[w].plan) = answer[job[w].plan]
      <3>1. Parent[owner[job[w].plan]] # None
        BY <2>2, <2>3, CoordinationAssumption
      <3> QED  BY <2>3, <3>1, SetsDiffer DEF HeardOf
    <2>6. {Row(w)} \in SUBSET {r \in responses : r.state = "submitting"}
      BY <2>3, <2>4
    <2>7. st = "submitted" => \A r \in {Row(w)} : HeardOf(r.plan) = r.verdict
      BY <2>1, <2>3, <2>4, <2>5
    <2> QED  BY <2>1, <2>6, <2>7, RestatedClaims
  <1>5. CASE RetireCoordination
    <2>1. PICK S \in SUBSET {r \in responses : r.state = "submitting"} :
            responses' = Restated(responses, S, "failed")
      BY <1>5, RetireCoordinationIs
    <2> QED  BY <2>1, RestatedClaims
  <1>6. CASE Restart
    <2>1. PICK S \in SUBSET {r \in responses : r.state = "submitting"} :
            responses' = Restated(responses, S, "failed")
      BY <1>6, RestartIs
    <2> QED  BY <2>1, RestatedClaims
  <1> QED  BY <1>1, <1>2, <1>3, <1>4, <1>5, <1>6, RowsStay

\* Which steps change what a session heard, or who owns a plan.
LEMMA HearersStay ==
    ASSUME Typed, Core, [Next]_vars
    PROVE  \/ \E w \in Workers : Ask(w)
           \/ /\ OwnerKept /\ HeardKept
              /\ \A p \in Plans : answer'[p] = answer[p] \/ answer'[p] \in {"cancel", "lost"}
  <1> DEFINE Still == /\ OwnerKept /\ HeardKept
                      /\ \A p \in Plans : answer'[p] = answer[p] \/ answer'[p] \in {"cancel", "lost"}
  <1>0. ASSUME UNCHANGED <<owner, answer>> PROVE Still
    BY <1>0 DEF OwnerKept, HeardKept
  <1>00. ASSUME owner' = owner,
                \A p \in Plans : \/ answer'[p] = answer[p]
                                 \/ answer[p] = "none" /\ answer'[p] \in {"cancel", "lost"}
         PROVE  Still
    BY <1>00 DEF OwnerKept, HeardKept
  <1>1. CASE UNCHANGED vars
    BY <1>0, <1>1 DEF vars, planVars
  <1>2. CASE RuntimeStep
    <2>1. ASSUME NEW s \in Sessions, NEW p \in Plans, AskPlan(s, p) PROVE Still
      <3>1. owner \in [Plans -> Sessions \cup {None}]
        BY TypedParts DEF PlansTyped
      <3> QED  BY <2>1, <3>1 DEF AskPlan, OwnerKept, HeardKept
    <2>2. ASSUME NEW p \in Plans, Abandon(p) PROVE Still
      <3>1. answer \in [Plans -> Verdict \cup Unheard]
        BY TypedParts DEF PlansTyped
      <3>2. owner' = owner /\ answer[p] = "none" /\ answer' = [answer EXCEPT ![p] = "lost"]
        BY <2>2 DEF Abandon
      <3> QED  BY <1>00, <3>1, <3>2
    <2>3. ASSUME NEW k \in Calls, AgentCalls(k) PROVE Still
      BY <1>0, <2>3 DEF AgentCalls, planVars
    <2> QED  BY <1>2, <2>1, <2>2, <2>3 DEF RuntimeStep
  <1>3. CASE ActorStep
    <2>1. ASSUME NEW s \in Sessions, Obey(s) \/ ProviderCloses(s) PROVE Still
      <3>1. owner' = owner /\ \E end : Cancelling(s, end)
        BY <2>1 DEF Obey, ProviderCloses
      <3> QED  BY <1>00, <3>1, CancelledIs
    <2>2. ASSUME NEW s \in Sessions, Ended(s) PROVE Still
      <3>1. owner' = owner /\ (answer' = answer \/ answer' = LostWith({s}))
        BY <2>2 DEF Ended
      <3> QED  BY <1>00, <3>1 DEF LostWith
    <2>3. ASSUME ~\E s \in Sessions : Obey(s) \/ ProviderCloses(s) \/ Ended(s) PROVE Still
      BY <1>0, <1>3, <2>3 DEF ActorStep, ReceivePlan, TurnStart, TurnOver, WorkFails, Heard,
                              Notify, Retire, Deliver, planVars
    <2> QED  BY <2>1, <2>2, <2>3
  <1>4. CASE GatewayStep
    BY <1>0, <1>4 DEF GatewayStep, Take, PlanChecked, PlanStored, Completion, planVars
  <1>5. CASE ServiceStep
    BY <1>0, <1>5 DEF ServiceStep, ServiceAnswers, ServiceStarts, ServiceMisses, Unmap,
                      Archive, RetireCoordination, planVars
  <1>6. CASE LifeStep
    <2>1. CASE Restart
      <3>1. owner' = owner /\ answer' = LostWith(Sessions)
        BY <2>1 DEF Restart
      <3> QED  BY <1>00, <3>1 DEF LostWith
    <2>2. CASE ~Restart
      BY <1>0, <1>6, <2>2 DEF LifeStep, Restore, Install, planVars
    <2> QED  BY <2>1, <2>2
  <1>7. CASE \E w \in Workers : WorkerStep(w)
    BY <1>0, <1>7 DEF WorkerStep, RecordStep, Lock, Check, Claim, Store, WithdrawNotice, Sync,
                      planVars
  <1> QED  BY <1>1, <1>2, <1>3, <1>4, <1>5, <1>6, <1>7 DEF Next

LEMMA AskHears ==
    ASSUME Typed, Core, NEW w \in Workers, Ask(w)
    PROVE  \A p \in Plans : HeardMoves(p)
  <1> DEFINE p == job[w].plan
             v == job[w].verdict
  <1>1. /\ UNCHANGED <<responses, owner>> /\ p \in Plans
        /\ job[w].at = "ask" /\ job[w].op \in {"answer", "plain"}
        /\ \/ answer[p] = "none" /\ answer' = [answer EXCEPT ![p] = v]
           \/ answer' = answer
    BY AskIs
  <1>2. answer \in [Plans -> Verdict \cup Unheard]
    BY TypedParts DEF PlansTyped
  <1>3. ASSUME NEW q \in Plans PROVE HeardMoves(q)
    <2>1. CASE answer'[q] = answer[q]
      BY <1>1, <2>1 DEF HeardOf, HeardMoves
    <2>2. CASE answer'[q] # answer[q]
      <3>1. q = p /\ answer[p] = "none" /\ answer'[p] = v
        BY <1>1, <1>2, <2>2
      <3>2. CASE job[w].op = "plain"
        <4>1. Parent[owner[p]] = None
          BY <3>2 DEF Core, Doing, Serving
        <4> QED  BY <1>1, <3>1, <4>1 DEF HeardOf, HeardMoves
      <3>3. CASE job[w].op = "answer"
        <4>1. Row(w) \in responses
          BY <1>1, <3>3, JobIs
        <4>2. Row(w).plan = p /\ Row(w).verdict = v /\ Row(w).state = "submitting"
          BY DEF Row
        <4>3. ClaimOf(q) = [by |-> Row(w).by, verdict |-> Row(w).verdict, state |-> Row(w).state]
          BY <3>1, <4>1, <4>2, ClaimInIs, ClaimOfIn DEF Core, Recorded
        <4>4. ClaimOf(q) # None
          <5>1. responses \in SUBSET Response /\ UniqueIn(responses)
            BY TypedParts DEF DurableTyped, Core, Recorded
          <5> QED  BY <3>1, <4>1, <4>2, <5>1, ClaimInTyped, ClaimOfIn
        <4>5. ClaimOf(q).state = "submitting" /\ ClaimOf(q).verdict = v
          BY <4>2, <4>3
        <4>6. HeardOf(q) = "none" /\ HeardOf(q)' \in {"none", v}
          BY <3>1 DEF HeardOf
        <4> QED  BY <4>4, <4>5, <4>6 DEF HeardMoves
      <3> QED  BY <1>1, <3>2, <3>3
    <2> QED  BY <2>1, <2>2
  <1> QED  BY <1>3

\* THEOREM: the whole protocol, with its actors, channel, lock, workers and
\* crashes, implements PlanApproval: a plan is claimed at most once, its session
\* hears at most once and only the claimed verdict, and a claim is recorded as
\* submitted only when it was heard.
THEOREM PlansAnsweredOnce == Spec => AnsweredOnce
  <1>1. Init => Approval!Init
    <2>1. Init => \A p \in Plans : ClaimOf(p) = None /\ HeardOf(p) = "none"
      BY DEF Init, ClaimOf, HeardOf
    <2> QED  BY <2>1 DEF Approval!Init
  <1>2. CoordinationInv /\ CoordinationInv' /\ [Next]_vars => [Approval!Next]_Approval!vars
    <2> SUFFICES ASSUME CoordinationInv, CoordinationInv', [Next]_vars
                 PROVE  Approval!Next
      OBVIOUS
    <2>1. \A p \in Plans : ClaimMoves(p)
      BY AllClaims DEF CoordinationInv
    <2>2. \A p \in Plans : HeardMoves(p)
      BY HearersStay, QuietHears, AskHears DEF CoordinationInv
    <2> QED  BY <2>1, <2>2, MovesImplement
  <1> QED  BY <1>1, <1>2, CoordinationInvariant, PTL DEF Spec, AnsweredOnce, Approval!Spec

-----------------------------------------------------------------------------
(* A parent is told that its child came to rest.  The report that a child  *)
(* owes is with its actor, in the channel or with the gateway, until its   *)
(* row is there (Told); a child whose actor is gone reports when it is     *)
(* restored, for it is no longer fresh (Begun).                            *)

\* An event of this kind is on its way to the gateway.
Sent(kind, of) == \E i \in 1..Len(channel) : channel[i].kind = kind /\ channel[i].of = of

Reporting(s) == job[Gateway].op = "over" /\ job[Gateway].at = "check" /\ job[Gateway].sess = s
Telling(s)   == s \notin up \/ act[s].at = "over" \/ Sent("over", s) \/ Reporting(s)

Begun == \A s \in working : status[s] # "fresh"

Told ==
    faults = 0 /\ hidden = {} =>
        \A s \in Sessions : Parent[s] # None /\ status[s] \in Rest =>
            completion[s] # "none" \/ Telling(s)

LEMMA SentAppend ==
    ASSUME channel \in Seq(TypedEvent), NEW e \in TypedEvent, channel' = Append(channel, e),
           NEW kind, NEW of
    PROVE  Sent(kind, of)' <=> Sent(kind, of) \/ (e.kind = kind /\ e.of = of)
  <1> HIDE DEF TypedEvent
  <1>1. /\ Len(channel) \in Nat /\ Len(channel') = Len(channel) + 1
        /\ channel'[Len(channel) + 1] = e
        /\ \A i \in 1..Len(channel) : channel'[i] = channel[i]
    OBVIOUS
  <1>2. ASSUME Sent(kind, of)'
        PROVE  Sent(kind, of) \/ (e.kind = kind /\ e.of = of)
    <2>1. PICK i \in 1..Len(channel') : channel'[i].kind = kind /\ channel'[i].of = of
      BY <1>2 DEF Sent
    <2>2. i \in 1..Len(channel) \/ i = Len(channel) + 1
      BY <1>1
    <2> QED
      BY <1>1, <2>1, <2>2 DEF Sent
  <1>3. ASSUME Sent(kind, of)
        PROVE  Sent(kind, of)'
    <2>1. PICK i \in 1..Len(channel) : channel[i].kind = kind /\ channel[i].of = of
      BY <1>3 DEF Sent
    <2>2. i \in 1..Len(channel')
      BY <1>1
    <2> QED
      BY <1>1, <2>1, <2>2 DEF Sent
  <1>4. ASSUME e.kind = kind, e.of = of
        PROVE  Sent(kind, of)'
    <2>1. Len(channel) + 1 \in 1..Len(channel')
      BY <1>1
    <2> QED
      BY <1>1, <1>4, <2>1 DEF Sent
  <1> QED
    BY <1>2, <1>3, <1>4

LEMMA SentTail ==
    ASSUME channel \in Seq(TypedEvent), channel # <<>>, channel' = Tail(channel), NEW kind, NEW of
    PROVE  /\ Sent(kind, of) => Sent(kind, of)' \/ (Head(channel).kind = kind /\ Head(channel).of = of)
           /\ Sent(kind, of)' => Sent(kind, of)
           /\ Head(channel).kind = kind /\ Head(channel).of = of => Sent(kind, of)
  <1> HIDE DEF TypedEvent
  <1>1. /\ Len(channel) \in Nat \ {0} /\ Len(channel') = Len(channel) - 1
        /\ Head(channel) = channel[1]
        /\ \A i \in 1..Len(channel') : channel'[i] = channel[i + 1]
    OBVIOUS
  <1>2. ASSUME Sent(kind, of)
        PROVE  Sent(kind, of)' \/ (Head(channel).kind = kind /\ Head(channel).of = of)
    <2>1. PICK i \in 1..Len(channel) : channel[i].kind = kind /\ channel[i].of = of
      BY <1>2 DEF Sent
    <2>2. CASE i = 1
      BY <1>1, <2>1, <2>2
    <2>3. CASE i # 1
      <3>1. i - 1 \in 1..Len(channel') /\ (i - 1) + 1 = i
        BY <1>1, <2>3
      <3>2. channel'[i - 1] = channel[i]
        BY <1>1, <3>1
      <3> QED
        BY <2>1, <3>1, <3>2 DEF Sent
    <2> QED
      BY <2>2, <2>3
  <1>3. ASSUME Sent(kind, of)'
        PROVE  Sent(kind, of)
    <2>1. PICK i \in 1..Len(channel') : channel'[i].kind = kind /\ channel'[i].of = of
      BY <1>3 DEF Sent
    <2>2. i + 1 \in 1..Len(channel)
      BY <1>1
    <2> QED
      BY <1>1, <2>1, <2>2 DEF Sent
  <1>4. ASSUME Head(channel).kind = kind, Head(channel).of = of
        PROVE  Sent(kind, of)
    <2>1. 1 \in 1..Len(channel)
      BY <1>1
    <2> QED
      BY <1>1, <1>4, <2>1 DEF Sent
  <1> QED
    BY <1>2, <1>3, <1>4

\* Failed calls are counted.
LEMMA FaultsCounted ==
    ASSUME Typed, [Next]_vars
    PROVE  faults' = 0 => faults = 0
  <1>0. faults \in Nat /\ faults + 1 # 0
    BY TypedParts DEF BoundsTyped
  <1> DEFINE Grows == faults' = faults \/ faults' = faults + 1
  <1>1. \A ok \in BOOLEAN : Works(ok) => Grows
    BY DEF Works
  <1>2. CASE UNCHANGED vars
    BY <1>2 DEF vars, otherVars, bounds
  <1>3. CASE RuntimeStep
    BY <1>3 DEF RuntimeStep, AskPlan, Abandon, AgentCalls, otherVars, bounds
  <1>4. CASE ActorStep
    <2>1. ASSUME NEW s \in Sessions, Obey(s) \/ ProviderCloses(s) PROVE Grows
      BY <2>1 DEF Obey, ProviderCloses, Cancelling
    <2>2. ASSUME NEW s \in Sessions, Retire(s) PROVE Grows
      BY <1>1, <2>2 DEF Retire
    <2>3. CASE ~\E s \in Sessions : Obey(s) \/ ProviderCloses(s) \/ Retire(s)
      BY <1>4, <2>3 DEF ActorStep, ReceivePlan, TurnStart, TurnOver, WorkFails, Heard, Notify,
                        Ended, Deliver, otherVars, bounds
    <2> QED
      BY <1>0, <2>1, <2>2, <2>3
  <1>5. CASE GatewayStep
    <2>1. Grows
      BY <1>1, <1>5 DEF GatewayStep, Take, PlanChecked, PlanStored, Completion, bounds
    <2> QED
      BY <1>0, <2>1
  <1>6. CASE ServiceStep
    <2>1. Grows
      BY <1>1, <1>6 DEF ServiceStep, ServiceAnswers, ServiceStarts, ServiceMisses, Unmap, Archive,
                        RetireCoordination, bounds
    <2> QED
      BY <1>0, <2>1
  <1>7. CASE LifeStep
    BY <1>7 DEF LifeStep, Restart, Restore, Install, otherVars, bounds
  <1>8. CASE \E w \in Workers : WorkerStep(w)
    <2>1. Grows
      BY <1>1, <1>8 DEF WorkerStep, RecordStep, Lock, Check, Claim, Store, WithdrawNotice, Ask,
                        Sync, bounds
    <2> QED
      BY <1>0, <2>1
  <1> QED
    BY <1>2, <1>3, <1>4, <1>5, <1>6, <1>7, <1>8 DEF Next

\* A child that came to rest before goes on telling.
LEMMA ToldFrom ==
    ASSUME Typed, Told, faults' = 0 => faults = 0, hidden \subseteq hidden',
           \A s \in Sessions : completion[s] # "none" => completion'[s] # "none",
           \A s \in Sessions : faults' = 0 /\ hidden' = {} /\ Parent[s] # None /\ status'[s] \in Rest =>
              \/ Telling(s)' \/ completion'[s] # "none"
              \/ status[s] \in Rest /\ ~Telling(s)
    PROVE  Told'
  <1> SUFFICES ASSUME faults' = 0, hidden' = {}, NEW s \in Sessions, Parent[s] # None,
                      status'[s] \in Rest
               PROVE  completion'[s] # "none" \/ Telling(s)'
    BY DEF Told
  <1>1. faults = 0 /\ hidden = {}
    OBVIOUS
  <1>2. CASE status[s] \in Rest /\ ~Telling(s)
    BY <1>1, <1>2 DEF Told
  <1> QED
    BY <1>2

\* A step aside: of the actors, the channel and the gateway's reports nothing changes.
LEMMA AsideTold ==
    ASSUME Typed, Told, faults' = 0 => faults = 0, hidden \subseteq hidden',
           UNCHANGED <<act, channel, status, completion, up>>,
           \A s \in Sessions : Reporting(s) => Reporting(s)'
    PROVE  Told'
  <1>1. \A s \in Sessions : Telling(s) => Telling(s)'
    BY DEF Telling, Sent
  <1> QED
    BY <1>1, ToldFrom

\* Only the gateway's own steps change its job, and a crash.
LEMMA GatewayAlone ==
    ASSUME Typed, [Next]_vars, ~GatewayStep, ~WorkerStep(Gateway), ~Restart
    PROVE  job'[Gateway] = job[Gateway]
  <1>0. job \in [Workers -> TypedJob] /\ Gateway \in Workers /\ Service \in Workers /\ Gateway # Service
    BY TypedParts, SetsDiffer DEF JobsTyped
  <1>1. CASE UNCHANGED vars
    BY <1>1 DEF vars, otherVars
  <1>2. CASE RuntimeStep
    BY <1>2 DEF RuntimeStep, AskPlan, Abandon, AgentCalls, otherVars
  <1>3. CASE ActorStep
    <2> DEFINE Served == job' = job \/ \E j : job' = [job EXCEPT ![Service] = j]
    <2>1. ASSUME NEW t \in Sessions, Obey(t) \/ Ended(t)
          PROVE  Served
      BY <2>1 DEF Obey, Ended
    <2>2. CASE ~\E t \in Sessions : Obey(t) \/ Ended(t)
      BY <1>3, <2>2 DEF ActorStep, ReceivePlan, TurnStart, TurnOver, WorkFails, Heard, Notify,
                        ProviderCloses, Retire, Deliver, otherVars
    <2>3. Served => job'[Gateway] = job[Gateway]
      BY <1>0
    <2> HIDE DEF Served
    <2> QED
      BY <2>1, <2>2, <2>3
  <1>4. CASE ServiceStep
    <2>1. \E j : job' = [job EXCEPT ![Service] = j]
      BY <1>4 DEF ServiceStep, ServiceAnswers, ServiceStarts, ServiceMisses, Unmap, Archive,
                  RetireCoordination, Step, Finish
    <2> QED
      BY <1>0, <2>1
  <1>5. CASE LifeStep
    BY <1>5 DEF LifeStep, Restore, Install, otherVars
  <1>6. CASE WorkerStep(Service)
    <2>1. \E j : job' = [job EXCEPT ![Service] = j]
      BY <1>6 DEF WorkerStep, RecordStep, Lock, Check, Claim, Store, WithdrawNotice, Ask, Answered,
                  Sync, Step, Finish
    <2> QED
      BY <1>0, <2>1
  <1> QED
    BY <1>1, <1>2, <1>3, <1>4, <1>5, <1>6 DEF Next, Workers

\* The report that the gateway is about to store stays with it.
LEMMA ReportKept ==
    ASSUME Typed, [Next]_vars, ~Completion, ~Restart, NEW s \in Sessions, Reporting(s)
    PROVE  Reporting(s)'
  <1>1. ~GatewayStep /\ ~WorkerStep(Gateway)
    BY IdleTyped DEF Reporting, GatewayStep, Take, PlanChecked, PlanStored, WorkerStep, RecordStep,
                     Lock, Check, Claim, Store, WithdrawNotice, Ask, Sync, At
  <1> QED
    BY <1>1, GatewayAlone DEF Reporting

\* An actor goes on; it was not about to report.
LEMMA ActTold ==
    ASSUME Typed, Told, NEW s \in Sessions, \A t \in Sessions \ {s} : act'[t] = act[t],
           act[s].at = "over" => act'[s].at = "over",
           up' \subseteq up, UNCHANGED <<channel, status, completion>>,
           faults' = 0 => faults = 0, hidden \subseteq hidden',
           \A t \in Sessions : Reporting(t) => Reporting(t)'
    PROVE  Told'
  <1>1. \A t \in Sessions : Telling(t) => Telling(t)'
    BY DEF Telling, Sent
  <1> QED
    BY <1>1, ToldFrom

\* A child's status changes: a busy one reports.
LEMMA HeardTold ==
    ASSUME Typed, Told, NEW s \in Sessions, NEW st \in Rest, IsReady(s), s \in working, Begun,
           Heard(s, st)
    PROVE  Told'
  <1>1. /\ status' = [status EXCEPT ![s] = st] /\ UNCHANGED <<completion, hidden, up, channel, job, faults>>
        /\ act' = IF Parent[s] = None \/ status[s] # "busy" THEN act
                  ELSE [act EXCEPT ![s] = [Ready EXCEPT !.at = "over"]]
    BY DEF Heard
  <1>2. act \in [Sessions -> Act] /\ status \in [Sessions -> Status] /\ act[s].at = "ready"
    BY TypedParts DEF ActorsTyped, IsReady
  <1>3. [Ready EXCEPT !.at = "over"].at = "over"
    BY PlaceEnds
  <1>4. \A t \in Sessions : t # s => act'[t] = act[t] /\ status'[t] = status[t]
    BY <1>1, <1>2
  <1>5. \A t \in Sessions : Telling(t) => Telling(t)'
    BY <1>1, <1>2, <1>4 DEF Telling, Sent, Reporting
  <1>6. status[s] \in Rest \/ status[s] = "busy"
    BY <1>2 DEF Begun, Status
  <1>7. status[s] = "busy" /\ Parent[s] # None => Telling(s)'
    BY <1>1, <1>2, <1>3 DEF Telling
  <1> QED
    BY <1>1, <1>4, <1>5, <1>6, <1>7, ToldFrom

LEMMA NotifyTold ==
    ASSUME Typed, Told, NEW s \in Sessions, Notify(s)
    PROVE  Told'
  <1>1. /\ UNCHANGED <<completion, status, hidden, up, job, faults>>
        /\ act[s].at \in {"plan", "void", "over"} /\ channel' = Append(channel, EventOf(s))
    BY DEF Notify, Notifying, durableVars, bounds
  <1>2. act \in [Sessions -> Act] /\ channel \in Seq(TypedEvent)
    BY TypedParts DEF ActorsTyped, ChannelTyped
  <1>3. \A t \in Sessions : t # s => act'[t] = act[t]
    BY <1>2 DEF Notify
  <1>4. EventOf(s) \in TypedEvent
    BY <1>1, EventIs
  <1>5. act[s].at = "over" => EventOf(s).kind = "over" /\ EventOf(s).of = s
    BY DEF EventOf
  <1>6. \A t \in Sessions : Sent("over", t)' <=> Sent("over", t) \/ (EventOf(s).kind = "over" /\ EventOf(s).of = t)
    BY <1>1, <1>2, <1>4, SentAppend
  <1>7. \A t \in Sessions : Telling(t) => Telling(t)'
    BY <1>1, <1>3, <1>5, <1>6 DEF Telling, Reporting
  <1> QED
    BY <1>1, <1>7, ToldFrom

LEMMA TakeTold ==
    ASSUME Typed, Told, Take
    PROVE  Told'
  <1>1. /\ UNCHANGED <<completion, status, hidden, act, up, faults>>
        /\ job[Gateway] = Idle /\ channel # <<>> /\ channel' = Tail(channel)
        /\ job' = [job EXCEPT ![Gateway] = JobOf(Head(channel))]
    BY DEF Take, durableVars, actorVars, bounds
  <1>2. /\ job \in [Workers -> TypedJob] /\ channel \in Seq(TypedEvent) /\ Gateway \in Workers
    BY TypedParts, SetsDiffer DEF JobsTyped, ChannelTyped
  <1>3. job'[Gateway] = JobOf(Head(channel))
    BY <1>1, <1>2
  <1>4. ASSUME NEW t \in Sessions, Telling(t)
        PROVE  Telling(t)'
    <2>1. ~Reporting(t)
      BY <1>1, IdleTyped DEF Reporting
    <2>2. CASE t \notin up \/ act[t].at = "over"
      BY <1>1, <2>2 DEF Telling
    <2>3. CASE Sent("over", t)
      <3>1. CASE Sent("over", t)'
        BY <3>1 DEF Telling
      <3>2. CASE Head(channel).kind = "over" /\ Head(channel).of = t
        <4>1. JobOf(Head(channel)) = [Idle EXCEPT !.op = "over", !.at = "check",
                                          !.sess = Head(channel).of, !.verdict = Head(channel).status]
          BY <3>2 DEF JobOf
        <4>2. Reporting(t)'
          BY <1>3, <3>2, <4>1 DEF Reporting, Idle
        <4> QED
          BY <4>2 DEF Telling
      <3> QED
        BY <1>1, <1>2, <2>3, <3>1, <3>2, SentTail
    <2> QED
      BY <1>4, <2>1, <2>2, <2>3 DEF Telling
  <1> QED
    BY <1>1, <1>4, ToldFrom

\* The gateway stores the report, unless the database fails or somebody is hidden.
LEMMA CompletionTold ==
    ASSUME Typed, Told, Completion
    PROVE  Told'
  <1> DEFINE s == job[Gateway].sess
  <1>1. /\ UNCHANGED <<status, hidden, act, up, channel>>
        /\ job[Gateway].op = "over" /\ job[Gateway].at = "check"
    BY DEF Completion, At, actorVars
  <1>2. /\ job[Gateway] \in TypedJob /\ completion \in [Sessions -> Rest \cup {"none"}]
        /\ faults \in Nat /\ faults + 1 # 0
    BY TypedParts, SetsDiffer DEF JobsTyped, DurableTyped, BoundsTyped
  <1>3. s \in Sessions /\ job[Gateway].verdict \in Rest
    BY <1>1, <1>2 DEF TypedJob
  <1>4. PICK ok \in BOOLEAN :
          /\ Works(ok)
          /\ IF ok /\ Visible(s) /\ Visible(Parent[s])
             THEN completion' = Completed(s, job[Gateway].verdict)
             ELSE UNCHANGED completion
    BY DEF Completion
  <1>5. faults' = 0 => faults = 0 /\ ok
    BY <1>2, <1>4 DEF Works
  <1>6. /\ \A t \in Sessions : completion[t] # "none" => completion'[t] # "none"
        /\ ok /\ Visible(s) /\ Visible(Parent[s]) => completion'[s] # "none"
    BY <1>2, <1>3, <1>4 DEF Completed, Rest
  <1>7. faults' = 0 /\ hidden' = {} => completion'[s] # "none"
    BY <1>1, <1>5, <1>6 DEF Visible
  <1>8. \A t \in Sessions : Telling(t) /\ t # s => Telling(t)'
    BY <1>1 DEF Telling, Sent, Reporting
  <1> QED
    BY <1>1, <1>5, <1>6, <1>7, <1>8, ToldFrom

LEMMA RestoreTold ==
    ASSUME Typed, Told, NEW s \in Sessions, Restore(s)
    PROVE  Told'
  <1>1. /\ UNCHANGED <<completion, hidden, job, faults>>
        /\ s \notin up /\ up' = up \cup {s} /\ act' = [act EXCEPT ![s] = Ready]
        /\ status' = [status EXCEPT ![s] = IF @ = "fresh" THEN @ ELSE "idle"]
    BY DEF Restore, bounds
  <1>2. PICK st \in Rest : channel' = IF Owed(s)
                 THEN Append(channel, [kind |-> "over", of |-> s, status |-> st])
                 ELSE channel
    BY DEF Restore, Rest
  <1> DEFINE e == [kind |-> "over", of |-> s, status |-> st]
  <1>3. e \in TypedEvent /\ e.kind = "over" /\ e.of = s
    BY DEF TypedEvent, Event
  <1>4. /\ act \in [Sessions -> Act] /\ status \in [Sessions -> Status]
        /\ channel \in Seq(TypedEvent)
    BY TypedParts DEF ActorsTyped, ChannelTyped
  <1>5. \A t \in Sessions : t # s => act'[t] = act[t] /\ status'[t] = status[t]
    BY <1>1, <1>4
  <1>6. channel' = Append(channel, e) \/ (channel' = channel /\ ~Owed(s))
    BY <1>2
  <1> HIDE DEF e
  <1>7. \A t \in Sessions : Sent("over", t) => Sent("over", t)'
    <2>1. CASE channel' = channel
      BY <2>1 DEF Sent
    <2>2. CASE channel' = Append(channel, e)
      BY <1>3, <1>4, <2>2, SentAppend
    <2> QED
      BY <1>6, <2>1, <2>2
  <1>8. \A t \in Sessions : t # s /\ Telling(t) => Telling(t)'
    BY <1>1, <1>5, <1>7 DEF Telling, Reporting
  <1>9. Parent[s] # None /\ status'[s] \in Rest => Telling(s)'
    <2> SUFFICES ASSUME Parent[s] # None, status'[s] \in Rest
                 PROVE  Sent("over", s)'
      BY DEF Telling
    <2>1. status[s] # "fresh"
      BY <1>1, <1>4 DEF Rest
    <2>2. channel' = Append(channel, e)
      BY <1>6, <2>1 DEF Owed
    <2> QED
      BY <1>3, <1>4, <2>2, SentAppend
  <1> QED
    BY <1>1, <1>5, <1>8, <1>9, ToldFrom

LEMMA ActorTold ==
    ASSUME Typed, Begun, Told, [Next]_vars, ActorStep
    PROVE  Told'
  <1>0. act \in [Sessions -> Act] /\ status \in [Sessions -> Status]
    BY TypedParts DEF ActorsTyped
  <1>1. /\ faults' = 0 => faults = 0
        /\ ~Completion /\ ~Restart => \A t \in Sessions : Reporting(t) => Reporting(t)'
    BY FaultsCounted, ReportKept
  <1>2. ASSUME NEW s \in Sessions, NEW p \in Plans, ReceivePlan(s, p) PROVE Told'
    <2>1. /\ UNCHANGED <<status, completion, hidden, up, channel, job>> /\ act[s].at = "ready"
          /\ \A t \in Sessions \ {s} : act'[t] = act[t]
      BY <1>0, <1>2 DEF ReceivePlan, IsReady, durableVars, otherVars
    <2> QED
      BY <1>1, <2>1, ActTold DEF Reporting
  <1>3. ASSUME NEW s \in Sessions, TurnStart(s) PROVE Told'
    <2>1. /\ UNCHANGED <<act, up, completion, hidden, channel, job>>
          /\ status' = [status EXCEPT ![s] = "busy"]
      BY <1>3 DEF TurnStart, actorVars
    <2>2. \A t \in Sessions : status'[t] \in Rest => status'[t] = status[t]
      BY <1>0, <2>1 DEF Rest
    <2>3. \A t \in Sessions : Telling(t) => Telling(t)'
      BY <2>1 DEF Telling, Sent, Reporting
    <2> QED
      BY <1>1, <2>1, <2>2, <2>3, ToldFrom
  <1>4. ASSUME NEW s \in Sessions, NEW st \in Rest, TurnOver(s, st) PROVE Told'
    BY <1>4, HeardTold DEF TurnOver
  <1>5. ASSUME NEW s \in Sessions, WorkFails(s) PROVE Told'
    BY <1>5, HeardTold DEF WorkFails, Rest
  <1>6. ASSUME NEW s \in Sessions, Obey(s) \/ ProviderCloses(s) PROVE Told'
    <2>1. /\ UNCHANGED <<status, completion, hidden, up, channel>> /\ act[s].at = "ready"
          /\ \A t \in Sessions \ {s} : act'[t] = act[t]
          /\ job' = job \/ job' = [job EXCEPT ![Service].at = "await"]
      BY <1>0, <1>6 DEF Obey, ProviderCloses, Cancelling, IsReady
    <2>2. \A t \in Sessions : Reporting(t) => Reporting(t)'
      BY <2>1, SetsDiffer, TypedParts DEF Reporting, JobsTyped
    <2> QED
      BY <1>1, <2>1, <2>2, ActTold
  <1>7. ASSUME NEW s \in Sessions, Retire(s) PROVE Told'
    <2>1. /\ UNCHANGED <<status, completion, hidden, up, channel, job>> /\ act[s].at = "retire"
          /\ \A t \in Sessions \ {s} : act'[t] = act[t]
      BY <1>0, <1>7 DEF Retire
    <2> QED
      BY <1>1, <2>1, ActTold DEF Reporting
  <1>8. ASSUME NEW s \in Sessions, Ended(s) PROVE Told'
    <2>1. /\ UNCHANGED <<status, completion, hidden, channel>> /\ act[s].at = "retire"
          /\ \A t \in Sessions \ {s} : act'[t] = act[t]
          /\ up' \subseteq up
          /\ job' = job \/ \E j : job' = [job EXCEPT ![Service] = j]
      BY <1>0, <1>8 DEF Ended, durableVars
    <2>2. \A t \in Sessions : Reporting(t) => Reporting(t)'
      BY <2>1, SetsDiffer, TypedParts DEF Reporting, JobsTyped
    <2> QED
      BY <1>1, <2>1, <2>2, ActTold
  <1>9. ASSUME NEW p \in Plans, Deliver(p) PROVE Told'
    BY <1>9, <1>1, AsideTold DEF Deliver, actorVars, otherVars, Reporting
  <1> QED
    BY <1>2, <1>3, <1>4, <1>5, <1>6, <1>7, <1>8, <1>9, NotifyTold DEF ActorStep

LEMMA ToldKept ==
    ASSUME Typed, Begun, Told, [Next]_vars
    PROVE  Told'
  <1>1. /\ faults' = 0 => faults = 0
        /\ ~Completion /\ ~Restart => \A t \in Sessions : Reporting(t) => Reporting(t)'
    BY FaultsCounted, ReportKept
  <1> DEFINE Aside == /\ UNCHANGED <<act, channel, status, completion, up>>
                      /\ hidden \subseteq hidden'
  <1>2. Aside /\ ~Completion /\ ~Restart => Told'
    BY <1>1, AsideTold
  <1>3. CASE UNCHANGED vars
    <2>1. Aside /\ job' = job
      BY <1>3 DEF vars, durableVars, actorVars, otherVars
    <2> QED
      BY <1>1, <2>1, AsideTold DEF Reporting
  <1>4. CASE RuntimeStep
    <2>1. ASSUME NEW k \in Calls, AgentCalls(k)
          PROVE  Told'
      <3> DEFINE e == [kind |-> "tool", of |-> k, status |-> "none"]
      <3>1. UNCHANGED <<act, status, completion, hidden, up, job>> /\ channel' = Append(channel, e)
        BY <2>1 DEF AgentCalls, durableVars, actorVars
      <3>2. e \in TypedEvent /\ e.kind = "tool"
        BY DEF TypedEvent, Event
      <3>3. channel \in Seq(TypedEvent)
        BY TypedParts DEF ChannelTyped
      <3> HIDE DEF e
      <3>4. \A t \in Sessions : Sent("over", t) => Sent("over", t)'
        BY <3>1, <3>2, <3>3, SentAppend
      <3>5. \A t \in Sessions : Telling(t) => Telling(t)'
        BY <3>1, <3>4 DEF Telling, Reporting
      <3> QED
        BY <1>1, <3>1, <3>5, ToldFrom
    <2>2. CASE ~\E k \in Calls : AgentCalls(k)
      <3>1. Aside /\ job' = job
        BY <1>4, <2>2 DEF RuntimeStep, AskPlan, Abandon, durableVars, actorVars, otherVars
      <3> QED
        BY <1>1, <3>1, AsideTold DEF Reporting
    <2> QED
      BY <2>1, <2>2
  <1>5. CASE GatewayStep
    <2>1. PlanChecked \/ PlanStored => Aside /\ ~Completion
      BY DEF PlanChecked, PlanStored, Completion, At, durableVars, actorVars
    <2>2. CASE ~Restart
      BY <1>2, <1>5, <2>1, <2>2, TakeTold, CompletionTold DEF GatewayStep
    <2>3. CASE Restart
      BY <2>3 DEF Restart, Told, Telling
    <2> QED
      BY <2>2, <2>3
  <1>6. CASE ServiceStep
    <2>1. Aside
      BY <1>6 DEF ServiceStep, ServiceAnswers, ServiceStarts, ServiceMisses, Unmap, Archive,
                  RetireCoordination, durableVars, actorVars
    <2>2. \E j : job' = [job EXCEPT ![Service] = j]
      BY <1>6 DEF ServiceStep, ServiceAnswers, ServiceStarts, ServiceMisses, Unmap, Archive,
                  RetireCoordination, Step, Finish
    <2>3. \A t \in Sessions : Reporting(t) => Reporting(t)'
      BY <2>2, SetsDiffer, TypedParts DEF Reporting, JobsTyped
    <2> QED
      BY <1>1, <2>1, <2>3, AsideTold
  <1>7. CASE LifeStep
    <2>1. CASE Restart
      BY <2>1 DEF Restart, Told, Telling
    <2>2. ASSUME NEW s \in Sessions, Install(s)
          PROVE  Told'
      <3>1. Aside /\ job' = job
        BY <2>2 DEF Install, durableVars, otherVars
      <3> QED
        BY <1>1, <3>1, AsideTold DEF Reporting
    <2> QED
      BY <1>7, <2>1, <2>2, RestoreTold DEF LifeStep
  <1>8. ASSUME NEW w \in Workers, WorkerStep(w)
        PROVE  Told'
    <2>1. Aside
      BY <1>8 DEF WorkerStep, RecordStep, Lock, Check, Claim, Store, WithdrawNotice, Ask, Sync,
                  durableVars, actorVars
    <2>2. /\ job \in [Workers -> TypedJob] /\ Gateway \in Workers
          /\ job[w].op # "over" \/ job[w].at # "check"
      BY <1>8, TypedParts, SetsDiffer
      DEF JobsTyped, WorkerStep, RecordStep, Lock, Check, Claim, Store, WithdrawNotice, Ask, Sync, At
    <2>3. \E j : job' = [job EXCEPT ![w] = j]
      BY <1>8 DEF WorkerStep, RecordStep, Lock, Check, Claim, Store, WithdrawNotice, Ask, Answered,
                  Sync, Step, Finish
    <2>4. \A t \in Sessions : Reporting(t) => Reporting(t)'
      BY <2>2, <2>3 DEF Reporting
    <2> QED
      BY <1>1, <2>1, <2>4, AsideTold
  <1> QED
    BY <1>3, <1>4, <1>5, <1>6, <1>7, <1>8, ActorTold DEF Next

LEMMA BegunKept ==
    ASSUME Typed, Begun, [Next]_vars
    PROVE  Begun'
  <1>0. status \in [Sessions -> Status] /\ working \subseteq Sessions
    BY TypedParts DEF ActorsTyped, PlansTyped
  <1>1. CASE UNCHANGED <<working, status>>
    BY <1>1 DEF Begun
  <1>2. ASSUME NEW s \in Sessions, TurnStart(s)
        PROVE  Begun'
    BY <1>0, <1>2 DEF TurnStart, Begun
  <1>3. ASSUME NEW s \in Sessions, NEW st \in Rest, Heard(s, st), working' \subseteq working
        PROVE  Begun'
    <2>1. status' = [status EXCEPT ![s] = st] /\ st # "fresh"
      BY <1>3 DEF Heard, Rest
    <2> QED
      BY <1>0, <1>3, <2>1 DEF Begun
  <1>4. ASSUME NEW s \in Sessions, Restore(s)
        PROVE  Begun'
    <2>1. working' = working /\ status' = [status EXCEPT ![s] = IF @ = "fresh" THEN @ ELSE "idle"]
      BY <1>4 DEF Restore, planVars
    <2> QED
      BY <1>0, <2>1 DEF Begun
  <1>5. CASE UNCHANGED vars \/ RuntimeStep \/ GatewayStep \/ ServiceStep
    <2>1. UNCHANGED <<working, status>>
      BY <1>5 DEF vars, RuntimeStep, AskPlan, Abandon, AgentCalls, GatewayStep, Take, PlanChecked,
                  PlanStored, Completion, ServiceStep, ServiceAnswers, ServiceStarts, ServiceMisses,
                  Unmap, Archive, RetireCoordination, durableVars, planVars
    <2> QED
      BY <1>1, <2>1
  <1>6. CASE ActorStep
    <2>1. ASSUME NEW s \in Sessions, NEW st \in Rest, TurnOver(s, st)
          PROVE  Begun'
      BY <1>3, <2>1 DEF TurnOver
    <2>2. ASSUME NEW s \in Sessions, WorkFails(s)
          PROVE  Begun'
      BY <1>3, <2>2 DEF WorkFails, Rest
    <2>3. CASE ~\E s \in Sessions : TurnStart(s) \/ WorkFails(s) \/ \E st \in Rest : TurnOver(s, st)
      <3>1. UNCHANGED <<working, status>>
        BY <1>6, <2>3 DEF ActorStep, ReceivePlan, Notify, Obey, ProviderCloses, Retire, Ended,
                          Deliver, durableVars, planVars
      <3> QED
        BY <1>1, <3>1
    <2> QED
      BY <1>2, <2>1, <2>2, <2>3
  <1>7. CASE LifeStep
    <2>1. Restart \/ (\E s \in Sessions : Install(s)) => UNCHANGED <<working, status>>
      BY DEF Restart, Install, durableVars, planVars
    <2> QED
      BY <1>1, <1>4, <1>7, <2>1 DEF LifeStep
  <1>8. CASE \E w \in Workers : WorkerStep(w)
    <2>1. UNCHANGED <<working, status>>
      BY <1>8 DEF WorkerStep, RecordStep, Lock, Check, Claim, Store, WithdrawNotice, Ask, Sync,
                  durableVars, planVars
    <2> QED
      BY <1>1, <2>1
  <1> QED
    BY <1>5, <1>6, <1>7, <1>8 DEF Next

LEMMA ToldInit == Init => Begun /\ Told
  BY DEF Init, Begun, Told, Rest

\* THEOREM: once a child came to rest and nothing is on its way, its parent was
\* told, whatever was restored or crashed in between, unless the database failed
\* or somebody was archived (apply_raw, handle_child_lifecycle,
\* restored_child_lifecycle).
THEOREM ParentsTold == Spec => []CompletionNotLost
  <1>1. CoordinationInv /\ Begun /\ Told /\ [Next]_vars => (Begun /\ Told)'
    BY ToldKept, BegunKept DEF CoordinationInv
  <1>2. Told => CompletionNotLost
    <2> SUFFICES ASSUME Told, faults = 0, hidden = {}, NEW s \in Sessions, Parent[s] # None,
                        status[s] \in Rest, Quiet(s)
                 PROVE  completion[s] # "none"
      BY DEF CompletionNotLost
    <2>1. s \in up /\ act[s].at = "ready" /\ channel = <<>> /\ job[Gateway].op = "idle"
      BY IdleTyped DEF Quiet, IsReady
    <2>2. Len(channel) = 0
      BY <2>1
    <2>3. ~Telling(s)
      BY <2>1, <2>2 DEF Telling, Sent, Reporting
    <2> QED
      BY <2>3 DEF Told
  <1> QED
    BY <1>1, <1>2, ToldInit, CoordinationInvariant, PTL DEF Spec

-----------------------------------------------------------------------------
(* A parent is shown a waiting plan only while its child still waits.  A   *)
(* plan that is announced, or whose notice is unread, is open at an actor  *)
(* that runs, unless a row says that somebody dealt with it (Spoken): then *)
(* it will not be announced, and who dealt with it has yet to withdraw its *)
(* notice (Closing).  Clearing says of an actor that gives up its plans    *)
(* that none of them is open any more.                                     *)

\* A plan on its way to become a notice.
AtGateway(p) ==
    job[Gateway].op = "plan" /\ job[Gateway].at \in {"check", "store"} /\ job[Gateway].plan = p
Announced(p) ==
    \/ \E s \in Sessions : act[s].at = "plan" /\ act[s].plan = p
    \/ Sent("plan", p)
    \/ AtGateway(p)

Open(p)      == p \in listed /\ owner[p] \in up
Spoken(p)    == \E r \in responses : r.plan = p
Closes(w, p) == job[w].op = "answer" /\ job[w].at \in {"store", "retire"} /\ job[w].plan = p
Closing(p)   == (\E w \in Workers : Closes(w, p)) \/ \E s \in Sessions : p \in act[s].todo

OfChild(p)  == owner[p] # None /\ Parent[owner[p]] # None
OfChildren == \A p \in Plans : Announced(p) \/ p \in unread => OfChild(p)

Clears(s) ==
    /\ s \notin up => act[s].at = "ready"
    /\ act[s].at \notin {"retire", "void"} => act[s].todo = {}
    /\ act[s].at \in {"retire", "void"} => PlansOf(s) \cap listed = {}

Clearing == \A s \in Sessions : Clears(s)

Waits(p) ==
    faults = 0 => /\ Announced(p) => Open(p) \/ Spoken(p)
                  /\ p \in unread => Open(p) \/ Closing(p)

\* The job of an announcement never waits for the lock.
Placing == job[Gateway].op = "plan" => job[Gateway].at \in {"check", "store", "sync"}

NoticeInv == OfChildren /\ Clearing /\ \A p \in Plans : Waits(p)

-----------------------------------------------------------------------------

\* A plan keeps its owner.
LEMMA OwnerStays ==
    ASSUME Typed, Core, [Next]_vars
    PROVE  OwnerKept
  <1>1. ASSUME NEW w \in Workers, Ask(w)
        PROVE  OwnerKept
    <2>1. owner' = owner
      BY <1>1, AskIs
    <2> QED
      BY <2>1 DEF OwnerKept
  <1> QED
    BY <1>1, HearersStay

\* A row of a plan stays.
LEMMA SpokenStays ==
    ASSUME Typed, Core, Typed', Core', [Next]_vars, NEW p \in Plans, Spoken(p)
    PROVE  Spoken(p)'
  <1>1. /\ responses \in SUBSET Response /\ UniqueIn(responses)
        /\ responses' \in SUBSET Response /\ UniqueIn(responses')
    BY DEF Typed, TypeOK, Core, Recorded
  <1>2. ClaimOf(p) # None
    BY <1>1, ClaimInTyped, ClaimOfIn DEF Spoken
  <1>3. ClaimMoves(p)
    BY AllClaims
  <1>4. ClaimOf(p)' # None
    <2>1. CASE \E st \in {"submitted", "failed"} : ClaimOf(p)' = [ClaimOf(p) EXCEPT !.state = st]
      <3>1. ClaimOf(p) \in Approval!Answer
        BY <1>1, <1>2, ClaimInTyped, ClaimOfIn
      <3>2. \A c \in Approval!Answer, st \in {"submitted", "failed"} :
              [c EXCEPT !.state = st] \in
                [by : By, verdict : Verdict \cup {"cancel"}, state : {"submitting", "submitted", "failed"}]
        BY DEF Approval!Answer
      <3> QED
        BY <2>1, <3>1, <3>2, NoneIsNoClaim
    <2> QED
      BY <1>2, <1>3, <2>1 DEF ClaimMoves
  <1> QED
    BY <1>1, <1>4, ClaimInTyped, ClaimOfIn DEF Spoken

\* How a step keeps OfChildren and Waits: what is newly announced or unread is
\* open, and what is no longer open was given up.
LEMMA NoticeFrom ==
    ASSUME Typed, NoticeInv, OwnerKept, faults' = 0 => faults = 0,
           \A p \in Plans : Spoken(p) => Spoken(p)',
           \A p \in Plans : Announced(p)' => Announced(p) \/ (OfChild(p)' /\ Open(p)'),
           \A p \in Plans : p \in unread' /\ p \notin unread =>
              OfChild(p)' /\ (faults' = 0 => Open(p)'),
           faults' = 0 => \A p \in Plans : Open(p) /\ OfChild(p) =>
              Open(p)' \/ (Spoken(p)' /\ Closing(p)'),
           faults' = 0 => \A p \in Plans : Closing(p) /\ p \in unread' => Closing(p)',
           Clearing'
    PROVE  NoticeInv'
  <1>1. \A p \in Plans : OfChild(p) => OfChild(p)'
    BY DEF OfChild, OwnerKept
  <1>2. OfChildren'
    BY <1>1 DEF NoticeInv, OfChildren
  <1>3. ASSUME NEW p \in Plans
        PROVE  Waits(p)'
    <2> SUFFICES ASSUME faults' = 0
                 PROVE  /\ Announced(p)' => Open(p)' \/ Spoken(p)'
                        /\ p \in unread' => Open(p)' \/ Closing(p)'
      BY DEF Waits
    <2>1. faults = 0 /\ Waits(p) /\ (Announced(p) \/ p \in unread => OfChild(p))
      BY DEF NoticeInv, OfChildren
    <2>2. ASSUME Announced(p)'
          PROVE  Open(p)' \/ Spoken(p)'
      BY <2>1, <2>2 DEF Waits
    <2>3. ASSUME p \in unread'
          PROVE  Open(p)' \/ Closing(p)'
      BY <2>1, <2>3 DEF Waits
    <2> QED
      BY <2>2, <2>3
  <1> QED
    BY <1>2, <1>3 DEF NoticeInv


\* A step that leaves actors, what they list and the channel alone.
LEMMA WorkNotice ==
    ASSUME Typed, Typed', Core, Core', NoticeInv, [Next]_vars,
           UNCHANGED <<act, listed, up, channel, owner>>, unread' \subseteq unread,
           \A p \in Plans : AtGateway(p)' => AtGateway(p),
           faults' = 0 => \A p \in Plans, w \in Workers :
              Closes(w, p) /\ p \in unread' => Closes(w, p)'
    PROVE  NoticeInv'
  <1>1. OwnerKept /\ (faults' = 0 => faults = 0) /\ \A p \in Plans : Spoken(p) => Spoken(p)'
    BY OwnerStays, FaultsCounted, SpokenStays
  <1>2. /\ \A p \in Plans : Announced(p)' => Announced(p)
        /\ \A p \in Plans : Open(p)' <=> Open(p)
    BY DEF Announced, Open, Sent
  <1>3. faults' = 0 => \A p \in Plans : Closing(p) /\ p \in unread' => Closing(p)'
    BY DEF Closing
  <1>4. Clearing'
    BY DEF NoticeInv, Clearing, Clears, PlansOf
  <1> QED
    BY <1>1, <1>2, <1>3, <1>4, NoticeFrom

\* What a worker that goes on, or is done, changes of the jobs.
LEMMA JobMoves ==
    ASSUME Typed, NEW w \in Workers, Finish(w) \/ \E at \in Places : Step(w, at)
    PROVE  /\ \A v \in Workers : v # w => job'[v] = job[v]
           /\ \/ job'[w].op = "idle"
              \/ \E at \in Places : /\ Step(w, at) /\ job'[w].at = at /\ job'[w].op = job[w].op
                                    /\ job'[w].plan = job[w].plan
  BY TypedParts, StepTyped, FinishTyped, IdleTyped DEF JobsTyped

LEMMA WorkerNotice ==
    ASSUME Typed, Typed', Core, Core', NoticeInv, Placing, [Next]_vars, NEW w \in Workers,
           Lock(w) \/ Check(w) \/ Claim(w) \/ Store(w) \/ WithdrawNotice(w) \/ Sync(w)
    PROVE  NoticeInv'
  <1>1. UNCHANGED <<act, listed, up, channel, owner>>
    BY DEF Lock, Check, Claim, Store, WithdrawNotice, Sync, durableVars, planVars, actorVars
  <1>2. unread' \subseteq unread
    BY DEF Lock, Check, Claim, Store, WithdrawNotice, Sync, durableVars, Withdrawn
  <1>3. Finish(w) \/ \E at \in Places : Step(w, at)
    BY DEF Lock, Check, Claim, Store, WithdrawNotice, Sync, Places
  <1>4. /\ \A v \in Workers : v # w => job'[v] = job[v]
        /\ \/ job'[w].op = "idle"
           \/ job'[w].op = job[w].op /\ job'[w].plan = job[w].plan
    BY <1>3, JobMoves
  <1>5. \A p \in Plans : AtGateway(p)' => AtGateway(p)
    <2> SUFFICES ASSUME NEW p \in Plans, AtGateway(p)', w = Gateway
                 PROVE  FALSE
      BY <1>4, SetsDiffer DEF AtGateway
    <2>1. job[w].op = "plan"
      BY <1>4 DEF AtGateway
    <2>2. Lock(w) \/ Sync(w)
      BY <2>1 DEF Check, Claim, Store, WithdrawNotice, At
    <2>3. CASE Lock(w)
      BY <2>1, <2>3 DEF Lock, Placing
    <2>4. CASE Sync(w)
      <3>1. job'[w] = Idle
        BY <2>4, TypedParts, FinishTyped DEF Sync, JobsTyped
      <3> QED
        BY <3>1, IdleTyped DEF AtGateway
    <2> QED
      BY <2>2, <2>3, <2>4
  <1>6. ASSUME faults' = 0, NEW p \in Plans, NEW v \in Workers, Closes(v, p), p \in unread'
        PROVE  Closes(v, p)'
    <2> SUFFICES ASSUME v = w
                 PROVE  Closes(v, p)'
      BY <1>4, <1>6 DEF Closes
    <2>1. job[w].op = "answer" /\ job[w].at \in {"store", "retire"} /\ job[w].plan = p
      BY <1>6 DEF Closes
    <2>2. faults \in Nat /\ faults + 1 # 0
      BY TypedParts DEF BoundsTyped
    <2>3. Store(w) \/ WithdrawNotice(w)
      BY <2>1 DEF Lock, Check, Claim, Sync, At
    <2>4. CASE Store(w)
      <3>1. job[w].at = "store"
        BY <2>1, <2>4 DEF Store
      <3>2. Step(w, "retire")
        BY <1>6, <2>2, <2>4, <3>1 DEF Store, Works
      <3> QED
        BY <2>1, <3>2, StepTyped, TypedParts DEF Closes, JobsTyped, Places
    <2>5. CASE WithdrawNotice(w)
      <3>1. PICK ok \in BOOLEAN : /\ Works(ok)
                                  /\ IF ok THEN Withdrawn(job[w].plan) ELSE UNCHANGED <<notice, unread>>
        BY <2>5 DEF WithdrawNotice
      <3>2. ok
        BY <1>6, <2>2, <3>1 DEF Works
      <3> QED
        BY <1>6, <2>1, <3>1, <3>2 DEF Withdrawn
    <2> QED
      BY <2>3, <2>4, <2>5
  <1> QED
    BY <1>1, <1>2, <1>5, <1>6, WorkNotice

LEMMA ReadyActs ==
    ASSUME Typed, NoticeInv, NEW s \in Sessions
    PROVE  /\ act \in [Sessions -> Act]
           /\ act[s].at \notin {"retire", "void"} => act[s].todo = {}
           /\ s \notin up => act[s].todo = {} /\ act[s].at = "ready"
  BY TypedParts DEF ActorsTyped, NoticeInv, Clearing, Clears

\* Of the actors only one does anything.
LEMMA ClearingAt ==
    ASSUME NoticeInv, NEW s \in Sessions, \A t \in Sessions : t # s => act'[t] = act[t],
           \A t \in Sessions : t # s => (t \in up' <=> t \in up),
           \A p \in Plans : p \in listed' => p \in listed \/ owner'[p] = s,
           \A p \in Plans : p \in listed => owner'[p] = owner[p],
           Clears(s)'
    PROVE  Clearing'
  <1> SUFFICES ASSUME NEW t \in Sessions, t # s PROVE Clears(t)'
    BY DEF Clearing
  <1>1. Clears(t)
    BY DEF NoticeInv, Clearing
  <1>2. PlansOf(t) \cap listed = {} => PlansOf(t)' \cap listed' = {}
    BY DEF PlansOf
  <1> QED
    BY <1>1, <1>2 DEF Clears

\* A step of an actor that stays out of any command.
LEMMA ActNotice ==
    ASSUME Typed, Typed', Core, Core', NoticeInv, [Next]_vars, NEW s \in Sessions,
           UNCHANGED <<up, channel, job, owner, unread>>, s \in up,
           \A t \in Sessions : t # s => act'[t] = act[t],
           act[s].at = "ready", act'[s].at \in {"ready", "plan", "over"}, act'[s].todo = {},
           \A p \in Plans : act'[s].at = "plan" /\ act'[s].plan = p => OfChild(p)' /\ Open(p)',
           listed \subseteq listed', \A p \in Plans : p \in listed' => p \in listed \/ owner[p] = s
    PROVE  NoticeInv'
  <1>1. OwnerKept /\ (faults' = 0 => faults = 0) /\ \A p \in Plans : Spoken(p) => Spoken(p)'
    BY OwnerStays, FaultsCounted, SpokenStays
  <1>2. ASSUME NEW p \in Plans, Announced(p)'
        PROVE  Announced(p) \/ (OfChild(p)' /\ Open(p)')
    <2>1. Sent("plan", p)' \/ AtGateway(p)' => Announced(p)
      BY DEF Announced, Sent, AtGateway
    <2>2. ASSUME NEW t \in Sessions, act'[t].at = "plan", act'[t].plan = p
          PROVE  Announced(p) \/ (OfChild(p)' /\ Open(p)')
      <3>1. CASE t = s
        BY <2>2, <3>1
      <3>2. CASE t # s
        BY <2>2, <3>2 DEF Announced
      <3> QED
        BY <3>1, <3>2
    <2> QED
      BY <1>2, <2>1, <2>2 DEF Announced
  <1>3. \A p \in Plans : Open(p) => Open(p)'
    BY DEF Open
  <1>4. \A p \in Plans : Closing(p) => Closing(p)'
    <2>1. act[s].todo = {}
      BY ReadyActs
    <2> QED
      BY <2>1 DEF Closing, Closes
  <1>5. Clearing'
    <2>1. Clears(s)'
      BY DEF Clears
    <2> QED
      BY <2>1, ClearingAt
  <1> QED
    BY <1>1, <1>2, <1>3, <1>4, <1>5, NoticeFrom

LEMMA AskNotice ==
    ASSUME Typed, Typed', Core, Core', NoticeInv, [Next]_vars, NEW w \in Workers, Ask(w)
    PROVE  NoticeInv'
  <1> DEFINE p == job[w].plan
  <1>1. OwnerKept /\ (faults' = 0 => faults = 0) /\ \A q \in Plans : Spoken(q) => Spoken(q)'
    BY OwnerStays, FaultsCounted, SpokenStays
  <1>2. /\ UNCHANGED <<unread, responses, owner, act, up, channel>>
        /\ job[w].at = "ask" /\ job[w].op \in {"answer", "plain"} /\ p \in Plans
        /\ listed' \subseteq listed
    BY AskIs DEF Ask, durableVars, actorVars
  <1>3. \/ listed' = listed
        \/ listed' = listed \ {p} /\ (job[w].op = "answer" => Step(w, "store"))
    BY DEF Ask, Answered
  <1>4. /\ \A v \in Workers : v # w => job'[v] = job[v]
        /\ job'[w].op = "idle" \/ job'[w].op = "answer"
    <2>1. Finish(w) \/ \E at \in Places : Step(w, at)
      BY <1>2, AskIs DEF Places
    <2>2. CASE job[w].op = "plain"
      BY <2>2, AskIs, TypedParts, FinishTyped, IdleTyped DEF JobsTyped
    <2>3. CASE job[w].op = "answer"
      BY <2>1, <2>3, JobMoves
    <2> QED
      BY <1>2, <2>2, <2>3
  <1>5. \A q \in Plans : Announced(q)' => Announced(q)
    <2>1. \A q \in Plans : AtGateway(q)' => AtGateway(q)
      BY <1>4, SetsDiffer DEF AtGateway
    <2> QED
      BY <1>2, <2>1 DEF Announced, Sent
  <1>6. ASSUME NEW q \in Plans, Open(q), OfChild(q), ~Open(q)'
        PROVE  Spoken(q)' /\ Closing(q)'
    <2>1. q = p /\ listed' # listed
      BY <1>2, <1>3, <1>6 DEF Open
    <2>2. job[w].op = "answer"
      <3>1. job[w].op = "plain" => Parent[owner[p]] = None
        BY DEF Core, Doing, Serving
      <3> QED
        BY <1>2, <1>6, <2>1, <3>1 DEF OfChild
    <2>3. Row(w) \in responses /\ Row(w).plan = p
      BY <1>2, <2>2 DEF Core, Doing, Answering, Row
    <2>4. Spoken(q)'
      BY <1>2, <2>1, <2>3 DEF Spoken
    <2>5. Step(w, "store")
      BY <1>3, <2>1, <2>2
    <2>6. Closes(w, q)'
      BY <2>1, <2>2, <2>5, StepTyped, TypedParts DEF Closes, JobsTyped, Places
    <2> QED
      BY <2>4, <2>6 DEF Closing
  <1>7. \A q \in Plans : Closing(q) => Closing(q)'
    <2>1. \A q \in Plans, v \in Workers : Closes(v, q) => Closes(v, q)'
      BY <1>2, <1>4 DEF Closes
    <2> QED
      BY <1>2, <2>1 DEF Closing
  <1>8. Clearing'
    BY <1>2 DEF NoticeInv, Clearing, Clears, PlansOf
  <1> QED
    BY <1>1, <1>2, <1>5, <1>6, <1>7, <1>8, NoticeFrom

LEMMA AskPlanNotice ==
    ASSUME Typed, Typed', Core, Core', NoticeInv, [Next]_vars, NEW s \in Sessions, NEW p \in Plans,
           AskPlan(s, p)
    PROVE  NoticeInv'
  <1>1. OwnerKept /\ (faults' = 0 => faults = 0) /\ \A q \in Plans : Spoken(q) => Spoken(q)'
    BY OwnerStays, FaultsCounted, SpokenStays
  <1>2. UNCHANGED <<unread, act, up, channel, job, listed>> /\ p \notin listed
        /\ owner' = [owner EXCEPT ![p] = s]
    BY DEF AskPlan, durableVars, actorVars, otherVars, Core, Known
  <1>3. \A q \in Plans : q # p => owner'[q] = owner[q]
    BY <1>2, TypedParts DEF PlansTyped
  <1>4. \A q \in Plans : Announced(q)' => Announced(q)
    BY <1>2 DEF Announced, Sent, AtGateway
  <1>5. \A q \in Plans : Open(q) => Open(q)'
    BY <1>2, <1>3 DEF Open
  <1>6. \A q \in Plans : Closing(q) => Closing(q)'
    BY <1>2 DEF Closing, Closes
  <1>7. Clearing'
    BY <1>2, <1>3 DEF NoticeInv, Clearing, Clears, PlansOf
  <1> QED
    BY <1>1, <1>2, <1>4, <1>5, <1>6, <1>7, NoticeFrom

LEMMA CallsNotice ==
    ASSUME Typed, Typed', Core, Core', NoticeInv, [Next]_vars, NEW k \in Calls, AgentCalls(k)
    PROVE  NoticeInv'
  <1> DEFINE e == [kind |-> "tool", of |-> k, status |-> "none"]
  <1>1. OwnerKept /\ (faults' = 0 => faults = 0) /\ \A q \in Plans : Spoken(q) => Spoken(q)'
    BY OwnerStays, FaultsCounted, SpokenStays
  <1>2. UNCHANGED <<unread, act, up, owner, job, listed>> /\ channel' = Append(channel, e)
    BY DEF AgentCalls, durableVars, planVars, actorVars
  <1>3. e \in TypedEvent /\ e.kind = "tool"
    BY DEF TypedEvent, Event
  <1>4. channel \in Seq(TypedEvent)
    BY TypedParts DEF ChannelTyped
  <1> HIDE DEF e
  <1>5. \A q \in Plans : Sent("plan", q)' => Sent("plan", q)
    BY <1>2, <1>3, <1>4, SentAppend
  <1>6. \A q \in Plans : Announced(q)' => Announced(q)
    BY <1>2, <1>5 DEF Announced, AtGateway
  <1>7. \A q \in Plans : (Open(q) => Open(q)') /\ (Closing(q) => Closing(q)')
    BY <1>2 DEF Open, Closing, Closes
  <1>8. Clearing'
    BY <1>2 DEF NoticeInv, Clearing, Clears, PlansOf
  <1> QED
    BY <1>1, <1>2, <1>6, <1>7, <1>8, NoticeFrom

LEMMA ReceiveNotice ==
    ASSUME Typed, Typed', Core, Core', NoticeInv, [Next]_vars, NEW s \in Sessions, NEW p \in Plans,
           ReceivePlan(s, p)
    PROVE  NoticeInv'
  <1>1. /\ UNCHANGED <<up, channel, job, owner, unread>> /\ s \in up /\ act[s].at = "ready"
        /\ owner[p] = s /\ listed' = listed \cup {p}
    BY DEF ReceivePlan, IsReady, durableVars, otherVars
  <1>2. act \in [Sessions -> Act] /\ act[s].todo = {}
    BY <1>1, ReadyActs
  <1>3. CASE Parent[s] = None
    <2>1. act' = act
      BY <1>3 DEF ReceivePlan
    <2> QED
      BY <1>1, <1>2, <2>1, ActNotice
  <1>4. CASE Parent[s] # None
    <2> DEFINE a == [Ready EXCEPT !.at = "plan", !.plan = p]
    <2>1. a.at = "plan" /\ a.plan = p /\ a.todo = {}
      BY DEF Ready
    <2>2. act' = [act EXCEPT ![s] = a]
      BY <1>4 DEF ReceivePlan
    <2> HIDE DEF a
    <2>3. act'[s] = a /\ \A t \in Sessions : t # s => act'[t] = act[t]
      BY <1>2, <2>2
    <2>4. OfChild(p)' /\ Open(p)'
      BY <1>1, <1>4, SetsDiffer DEF OfChild, Open
    <2> QED
      BY <1>1, <2>1, <2>3, <2>4, ActNotice
  <1> QED
    BY <1>3, <1>4

LEMMA HeardNotice ==
    ASSUME Typed, Typed', Core, Core', NoticeInv, [Next]_vars, NEW s \in Sessions, NEW st,
           Heard(s, st), IsReady(s)
    PROVE  NoticeInv'
  <1>1. UNCHANGED <<up, channel, job, owner, unread, listed>> /\ s \in up /\ act[s].at = "ready"
    BY DEF Heard, IsReady
  <1>2. act \in [Sessions -> Act] /\ act[s].todo = {}
    BY <1>1, ReadyActs
  <1>3. CASE act' = act
    BY <1>1, <1>2, <1>3, ActNotice
  <1>4. CASE act' = [act EXCEPT ![s] = [Ready EXCEPT !.at = "over"]]
    <2> DEFINE a == [Ready EXCEPT !.at = "over"]
    <2>1. a.at = "over" /\ a.todo = {}
      BY DEF Ready
    <2> HIDE DEF a
    <2>2. act'[s] = a /\ \A t \in Sessions : t # s => act'[t] = act[t]
      BY <1>2, <1>4 DEF a
    <2> QED
      BY <1>1, <2>1, <2>2, ActNotice
  <1> QED
    BY <1>3, <1>4 DEF Heard

LEMMA NotifyNotice ==
    ASSUME Typed, Typed', Core, Core', NoticeInv, [Next]_vars, NEW s \in Sessions, Notify(s)
    PROVE  NoticeInv'
  <1>1. OwnerKept /\ (faults' = 0 => faults = 0) /\ \A q \in Plans : Spoken(q) => Spoken(q)'
    BY OwnerStays, FaultsCounted, SpokenStays
  <1>2. /\ UNCHANGED <<unread, up, owner, job, listed>> /\ channel' = Append(channel, EventOf(s))
        /\ s \in up /\ act[s].at \in {"plan", "void", "over"}
        /\ act' = [act EXCEPT ![s] = IF act[s].at = "void"
                                     THEN [act[s] EXCEPT !.at = "retire", !.plan = None]
                                     ELSE Ready]
    BY DEF Notify, Notifying, durableVars, planVars, bounds
  <1>3. /\ channel \in Seq(TypedEvent) /\ act \in [Sessions -> Act] /\ EventOf(s) \in TypedEvent
        /\ act[s].at # "void" => act[s].todo = {}
    BY <1>2, EventIs, ReadyActs, TypedParts DEF ChannelTyped
  <1>4. /\ \A t \in Sessions : t # s => act'[t] = act[t]
        /\ act'[s].todo = act[s].todo
        /\ act'[s].at = IF act[s].at = "void" THEN "retire" ELSE "ready"
    <2>1. CASE act[s].at = "void"
      <3>1. act[s] \in Act
        BY <1>3
      <3> DEFINE a == [act[s] EXCEPT !.at = "retire", !.plan = None]
      <3>2. a.at = "retire" /\ a.todo = act[s].todo
        BY <3>1 DEF Act
      <3> HIDE DEF a
      <3>3. act' = [act EXCEPT ![s] = a]
        BY <1>2, <2>1 DEF a
      <3> QED
        BY <1>3, <2>1, <3>2, <3>3
    <2>2. CASE act[s].at # "void"
      <3>1. act' = [act EXCEPT ![s] = Ready] /\ Ready.at = "ready" /\ Ready.todo = {}
        BY <1>2, <2>2 DEF Ready
      <3> QED
        BY <1>3, <2>2, <3>1
    <2> QED
      BY <2>1, <2>2
  <1>5. EventOf(s).kind = "plan" => act[s].at = "plan" /\ EventOf(s).of = act[s].plan
    BY <1>2 DEF EventOf
  <1>6. \A q \in Plans : Sent("plan", q)' =>
           Sent("plan", q) \/ (act[s].at = "plan" /\ act[s].plan = q)
    BY <1>2, <1>3, <1>5, SentAppend
  <1>7. \A q \in Plans : Announced(q)' => Announced(q)
    <2>1. ASSUME NEW q \in Plans, NEW t \in Sessions, act'[t].at = "plan", act'[t].plan = q
          PROVE  act[t].at = "plan" /\ act[t].plan = q
      BY <1>4, <2>1
    <2>2. \A q \in Plans : AtGateway(q)' => AtGateway(q)
      BY <1>2 DEF AtGateway
    <2> QED
      BY <1>6, <2>1, <2>2 DEF Announced
  <1>8. \A q \in Plans : (Open(q) => Open(q)') /\ (Closing(q) => Closing(q)')
    <2>1. \A t \in Sessions : act'[t].todo = act[t].todo
      BY <1>4
    <2> QED
      BY <1>2, <2>1 DEF Open, Closing, Closes
  <1>9. Clearing'
    <2>1. Clears(s)
      BY DEF NoticeInv, Clearing
    <2>2. Clears(s)'
      BY <1>2, <1>3, <1>4, <2>1 DEF Clears, PlansOf
    <2> QED
      BY <1>2, <1>4, <2>2, ClearingAt
  <1> QED
    BY <1>1, <1>2, <1>7, <1>8, <1>9, NoticeFrom

\* Who cancels with no failure says so of each open plan.
LEMMA CancelSpoken ==
    ASSUME Typed, Core, NEW s \in Sessions, NEW end, Cancelling(s, end), faults' = 0,
           NEW p \in Plans, owner[p] = s, p \in listed
    PROVE  Spoken(p)'
  <1> DEFINE open == PlansOf(s) \cap listed
  <1>1. p \in open
    BY DEF PlansOf
  <1>2. faults \in Nat /\ faults + 1 # 0
    BY TypedParts DEF BoundsTyped
  <1>3. PICK lost \in SUBSET open :
          /\ faults' = IF lost = {} THEN faults ELSE faults + 1
          /\ responses' = responses \cup
               {[by |-> <<"invalidation", q>>, plan |-> q, verdict |-> "cancel",
                 state |-> "failed"] :
                   q \in {r \in open \ lost : ~Claimed(<<"invalidation", r>>, r)}}
    BY DEF Cancelling
  <1> HIDE DEF open
  <1>4. lost = {}
    BY <1>2, <1>3
  <1>5. CASE Claimed(<<"invalidation", p>>, p)
    <2>1. PICK r \in responses : r.by = <<"invalidation", p>> \/ r.plan = p
      BY <1>5 DEF Claimed
    <2>2. r.by \in Calls \/ r.by[2] = r.plan
      BY DEF Core, Recorded, RowIs
    <2>3. <<"invalidation", p>> \notin Calls /\ <<"invalidation", p>>[2] = p
      BY CoordinationAssumption
    <2>4. r.plan = p
      BY <2>1, <2>2, <2>3
    <2> QED
      BY <1>3, <2>4 DEF Spoken
  <1>6. CASE ~Claimed(<<"invalidation", p>>, p)
    <2>1. Invalid(p) \in responses'
      BY <1>1, <1>3, <1>4, <1>6 DEF Invalid
    <2> QED
      BY <2>1, InvalidTyped DEF Spoken
  <1> QED
    BY <1>5, <1>6

LEMMA CancelNotice ==
    ASSUME Typed, Typed', Core, Core', Obeying, NoticeInv, [Next]_vars, NEW s \in Sessions,
           Obey(s) \/ ProviderCloses(s)
    PROVE  NoticeInv'
  <1> DEFINE open == PlansOf(s) \cap listed
  <1>1. OwnerKept /\ (faults' = 0 => faults = 0) /\ \A q \in Plans : Spoken(q) => Spoken(q)'
    BY OwnerStays, FaultsCounted, SpokenStays
  <1>2. /\ UNCHANGED <<unread, up, owner, channel>> /\ s \in up /\ act[s].at = "ready"
        /\ \/ job' = job
           \/ job' = [job EXCEPT ![Service].at = "await"] /\ job[Service].at = "ask"
    BY DEF Obey, ProviderCloses, IsReady
  <1>3. PICK end \in {"cancel", "disconnect", "closed"} : Cancelling(s, end)
    BY DEF Obey, ProviderCloses
  <1>4. /\ listed' = listed \ open
        /\ act' = [act EXCEPT ![s] = [Ready EXCEPT !.at = "retire", !.todo = open, !.end = end]]
    BY <1>3 DEF Cancelling
  <1>5. act \in [Sessions -> Act] /\ act[s].todo = {}
    BY <1>2, ReadyActs
  <1>6. /\ act'[s].at = "retire" /\ act'[s].todo = open
        /\ \A t \in Sessions : t # s => act'[t] = act[t]
    <2> DEFINE a == [Ready EXCEPT !.at = "retire", !.todo = open, !.end = end]
    <2>1. a.at = "retire" /\ a.todo = open
      BY DEF Ready
    <2> HIDE DEF a
    <2>2. act' = [act EXCEPT ![s] = a]
      BY <1>4 DEF a
    <2> QED
      BY <1>5, <2>1, <2>2
  <1>7. /\ job'[Gateway] = job[Gateway]
        /\ \A w \in Workers, q \in Plans : Closes(w, q) => Closes(w, q)'
    <2>1. job \in [Workers -> TypedJob]
      BY TypedParts DEF JobsTyped
    <2>2. \A w \in Workers : job'[w] = job[w] \/ (w = Service /\ job[Service].at = "ask")
      BY <1>2, <2>1
    <2>3. job'[Gateway] = job[Gateway]
      BY <2>2, SetsDiffer
    <2> QED
      BY <2>2, <2>3 DEF Closes
  <1>8. \A q \in Plans : Announced(q)' => Announced(q)
    <2>1. ASSUME NEW q \in Plans, NEW t \in Sessions, act'[t].at = "plan", act'[t].plan = q
          PROVE  act[t].at = "plan" /\ act[t].plan = q
      BY <1>6, <2>1
    <2> QED
      BY <1>2, <1>7, <2>1 DEF Announced, Sent, AtGateway
  <1>9. ASSUME faults' = 0, NEW q \in Plans, Open(q)
        PROVE  Open(q)' \/ (Spoken(q)' /\ Closing(q)')
    <2>1. CASE owner[q] # s
      BY <1>2, <1>4, <1>9, <2>1 DEF Open, PlansOf
    <2>2. CASE owner[q] = s
      <3>1. q \in listed /\ q \in open
        BY <1>9, <2>2 DEF Open, PlansOf
      <3>2. Spoken(q)'
        BY <1>3, <1>9, <2>2, <3>1, CancelSpoken
      <3> QED
        BY <1>6, <3>1, <3>2 DEF Closing
    <2> QED
      BY <2>1, <2>2
  <1>10. \A q \in Plans : Closing(q) => Closing(q)'
    <2>1. \A t \in Sessions : act[t].todo \subseteq act'[t].todo
      BY <1>5, <1>6
    <2> QED
      BY <1>7, <2>1 DEF Closing
  <1>11. Clearing'
    <2>1. Clears(s)'
      BY <1>2, <1>4, <1>6 DEF Clears, PlansOf
    <2> QED
      BY <1>2, <1>4, <1>6, <2>1, ClearingAt
  <1> QED
    BY <1>1, <1>2, <1>8, <1>9, <1>10, <1>11, NoticeFrom

LEMMA RetireNotice ==
    ASSUME Typed, Typed', Core, Core', NoticeInv, [Next]_vars, NEW s \in Sessions, Retire(s)
    PROVE  NoticeInv'
  <1>1. OwnerKept /\ (faults' = 0 => faults = 0) /\ \A q \in Plans : Spoken(q) => Spoken(q)'
    BY OwnerStays, FaultsCounted, SpokenStays
  <1>2. UNCHANGED <<up, owner, channel, listed, job>> /\ s \in up /\ act[s].at = "retire"
    BY DEF Retire, planVars
  <1>3. PICK p \in act[s].todo, ok \in BOOLEAN :
          /\ Works(ok)
          /\ IF ok THEN Withdrawn(p) ELSE UNCHANGED <<notice, unread>>
          /\ act' = [act EXCEPT ![s] =
                       [act[s] EXCEPT !.todo = act[s].todo \ {p},
                                      !.plan = IF Parent[s] = None THEN None ELSE p,
                                      !.at = IF Parent[s] = None THEN "retire" ELSE "void"]]
    BY DEF Retire
  <1>4. act \in [Sessions -> Act] /\ act[s] \in Act
    BY ReadyActs
  <1>5. /\ act'[s].at \in {"retire", "void"} /\ act'[s].todo = act[s].todo \ {p}
        /\ \A t \in Sessions : t # s => act'[t] = act[t]
    <2> DEFINE a == [act[s] EXCEPT !.todo = act[s].todo \ {p},
                                   !.plan = IF Parent[s] = None THEN None ELSE p,
                                   !.at = IF Parent[s] = None THEN "retire" ELSE "void"]
    <2>1. a.at \in {"retire", "void"} /\ a.todo = act[s].todo \ {p}
      BY <1>4 DEF Act
    <2>2. act' = [act EXCEPT ![s] = a]
      BY <1>3
    <2> HIDE DEF a
    <2> QED
      BY <1>4, <2>1, <2>2
  <1>6. \A q \in Plans : Announced(q)' => Announced(q)
    <2>1. ASSUME NEW q \in Plans, NEW t \in Sessions, act'[t].at = "plan", act'[t].plan = q
          PROVE  act[t].at = "plan" /\ act[t].plan = q
      BY <1>5, <2>1
    <2> QED
      BY <1>2, <2>1 DEF Announced, Sent, AtGateway
  <1>7. /\ \A q \in Plans : q \in unread' => q \in unread
        /\ faults' = 0 => p \notin unread'
    <2>1. faults \in Nat /\ faults + 1 # 0
      BY TypedParts DEF BoundsTyped
    <2> QED
      BY <1>3, <2>1 DEF Withdrawn, Works
  <1>8. ASSUME faults' = 0, NEW q \in Plans, Closing(q), q \in unread'
        PROVE  Closing(q)'
    <2>1. q # p
      BY <1>7, <1>8
    <2>2. \A t \in Sessions : q \in act[t].todo => q \in act'[t].todo
      BY <1>5, <2>1
    <2> QED
      BY <1>2, <1>8, <2>2 DEF Closing, Closes
  <1>9. \A q \in Plans : Open(q) => Open(q)'
    BY <1>2 DEF Open
  <1>10. Clearing'
    <2>1. Clears(s)
      BY DEF NoticeInv, Clearing
    <2>2. Clears(s)'
      BY <1>2, <1>5, <2>1 DEF Clears, PlansOf
    <2> QED
      BY <1>2, <1>5, <2>2, ClearingAt
  <1> QED
    BY <1>1, <1>6, <1>7, <1>8, <1>9, <1>10, NoticeFrom

LEMMA EndedNotice ==
    ASSUME Typed, Typed', Core, Core', Obeying, NoticeInv, [Next]_vars, NEW s \in Sessions, Ended(s)
    PROVE  NoticeInv'
  <1>1. OwnerKept /\ (faults' = 0 => faults = 0) /\ \A q \in Plans : Spoken(q) => Spoken(q)'
    BY OwnerStays, FaultsCounted, SpokenStays
  <1>2. /\ UNCHANGED <<unread, owner, channel, listed>> /\ s \in up /\ act[s].at = "retire"
        /\ act[s].todo = {} /\ act' = [act EXCEPT ![s] = Ready] /\ (up' = up \/ up' = up \ {s})
    BY DEF Ended, durableVars
  <1>3. /\ Clears(s) /\ act \in [Sessions -> Act] /\ job \in [Workers -> TypedJob]
        /\ act[s].end \in {"none", "cancel", "disconnect", "closed"}
    BY TypedParts DEF NoticeInv, Clearing, ActorsTyped, Act, JobsTyped
  <1>4. /\ act'[s] = Ready /\ \A t \in Sessions : t # s => act'[t] = act[t]
        /\ Ready.at = "ready" /\ Ready.todo = {}
    BY <1>2, <1>3 DEF Ready
  <1>5. /\ job'[Gateway] = job[Gateway]
        /\ job' = job \/ job[Service].op # "answer"
    <2>1. CASE act[s].end = "closed"
      BY <2>1 DEF Ended
    <2>2. CASE act[s].end # "closed"
      <3>1. act[s].end \in {"cancel", "disconnect"}
        BY <1>2, <1>3, <2>2 DEF Obeying
      <3>2. job[Service].op # "answer"
        BY <3>1 DEF Obeying
      <3>3. \E j : job' = [job EXCEPT ![Service] = j]
        BY <2>2 DEF Ended
      <3> QED
        BY <1>3, <3>2, <3>3, SetsDiffer
    <2> QED
      BY <2>1, <2>2
  <1>6. \A q \in Plans : Announced(q)' => Announced(q)
    <2>1. ASSUME NEW q \in Plans, NEW t \in Sessions, act'[t].at = "plan", act'[t].plan = q
          PROVE  act[t].at = "plan" /\ act[t].plan = q
      BY <1>4, <2>1
    <2> QED
      BY <1>2, <1>5, <2>1 DEF Announced, Sent, AtGateway
  <1>7. \A q \in Plans : Open(q) => Open(q)'
    <2>1. \A q \in Plans : q \in listed => owner[q] # s
      BY <1>2, <1>3 DEF Clears, PlansOf
    <2> QED
      BY <1>2, <2>1 DEF Open
  <1>8. \A q \in Plans : Closing(q) => Closing(q)'
    <2>1. \A w \in Workers, q \in Plans : Closes(w, q) => Closes(w, q)'
      BY <1>5 DEF Closes, Workers
    <2>2. \A t \in Sessions : act'[t].todo = act[t].todo
      BY <1>2, <1>4
    <2> QED
      BY <2>1, <2>2 DEF Closing
  <1>9. Clearing'
    <2>1. Clears(s)'
      BY <1>4 DEF Clears
    <2> QED
      BY <1>2, <1>4, <2>1, ClearingAt
  <1> QED
    BY <1>1, <1>2, <1>6, <1>7, <1>8, <1>9, NoticeFrom

\* The job of an announcement.
LEMMA AnnouncementIs ==
    ASSUME NEW e \in TypedEvent, JobOf(e).op = "plan"
    PROVE  e.kind = "plan" /\ JobOf(e).plan = e.of /\ JobOf(e).at = "check"
  <1>1. e \in Event
    BY DEF TypedEvent
  <1>2. CASE e.kind = "tool"
    BY <1>2 DEF JobOf, Idle
  <1>3. CASE e.kind = "plan"
    BY <1>3 DEF JobOf, Idle
  <1>4. CASE e.kind = "void"
    BY <1>4 DEF JobOf, Idle
  <1>5. CASE e.kind = "over"
    BY <1>5 DEF JobOf, Idle
  <1> QED
    BY <1>1, <1>2, <1>3, <1>4, <1>5 DEF Event

LEMMA TakeNotice ==
    ASSUME Typed, Typed', Core, Core', NoticeInv, [Next]_vars, Take
    PROVE  NoticeInv'
  <1>1. OwnerKept /\ (faults' = 0 => faults = 0) /\ \A q \in Plans : Spoken(q) => Spoken(q)'
    BY OwnerStays, FaultsCounted, SpokenStays
  <1>2. /\ UNCHANGED <<unread, act, up, owner, listed>>
        /\ job[Gateway] = Idle /\ channel # <<>> /\ channel' = Tail(channel)
        /\ job' = [job EXCEPT ![Gateway] = JobOf(Head(channel))]
    BY DEF Take, durableVars, planVars, actorVars
  <1>3. /\ job \in [Workers -> TypedJob] /\ channel \in Seq(TypedEvent) /\ Gateway \in Workers
        /\ Head(channel) \in TypedEvent
    <2>1. job \in [Workers -> TypedJob] /\ channel \in Seq(TypedEvent) /\ Gateway \in Workers
      BY TypedParts, SetsDiffer DEF JobsTyped, ChannelTyped
    <2> HIDE DEF TypedEvent
    <2> QED
      BY <1>2, <2>1
  <1>4. job'[Gateway] = JobOf(Head(channel)) /\ \A w \in Workers : w # Gateway => job'[w] = job[w]
    BY <1>2, <1>3
  <1>5. JobOf(Head(channel)).op = "plan" =>
           Head(channel).kind = "plan" /\ JobOf(Head(channel)).plan = Head(channel).of
    BY <1>3, AnnouncementIs
  <1>6. \A q \in Plans : Announced(q)' => Announced(q)
    <2>1. \A q \in Plans : Sent("plan", q)' => Sent("plan", q)
      BY <1>2, <1>3, SentTail
    <2>2. ASSUME NEW q \in Plans, AtGateway(q)'
          PROVE  Sent("plan", q)
      <3>1. Head(channel).kind = "plan" /\ Head(channel).of = q
        BY <1>4, <1>5, <2>2 DEF AtGateway
      <3> QED
        BY <1>2, <1>3, <3>1, SentTail
    <2> QED
      BY <1>2, <2>1, <2>2 DEF Announced
  <1>7. \A q \in Plans : (Open(q) => Open(q)') /\ (Closing(q) => Closing(q)')
    <2>1. \A w \in Workers, q \in Plans : Closes(w, q) => Closes(w, q)'
      BY <1>2, <1>4, IdleTyped DEF Closes
    <2> QED
      BY <1>2, <2>1 DEF Open, Closing
  <1>8. Clearing'
    BY <1>2 DEF NoticeInv, Clearing, Clears, PlansOf
  <1> QED
    BY <1>1, <1>2, <1>6, <1>7, <1>8, NoticeFrom

\* The gateway goes on with an announcement or a completion, or is done with it.
LEMMA GatewayNotice ==
    ASSUME Typed, Typed', Core, Core', NoticeInv, [Next]_vars, PlanChecked \/ Completion
    PROVE  NoticeInv'
  <1>1. UNCHANGED <<act, listed, up, channel, owner, unread>>
    BY DEF PlanChecked, Completion, durableVars, planVars, actorVars
  <1>2. /\ Finish(Gateway) \/ \E at \in Places : Step(Gateway, at)
        /\ \/ job[Gateway].op = "plan" /\ job[Gateway].at = "check"
           \/ job[Gateway].op = "over"
    BY DEF PlanChecked, Completion, At, Places
  <1>3. /\ \A v \in Workers : v # Gateway => job'[v] = job[v]
        /\ \/ job'[Gateway].op = "idle"
           \/ job'[Gateway].op = job[Gateway].op /\ job'[Gateway].plan = job[Gateway].plan
    BY <1>2, JobMoves, SetsDiffer
  <1>4. \A p \in Plans : AtGateway(p)' => AtGateway(p)
    BY <1>2, <1>3 DEF AtGateway
  <1>5. \A p \in Plans, w \in Workers : Closes(w, p) => Closes(w, p)'
    BY <1>2, <1>3 DEF Closes
  <1> QED
    BY <1>1, <1>4, <1>5, WorkNotice

\* A notice is stored only of a plan that nobody dealt with, so the child waits.
LEMMA PlanStoredNotice ==
    ASSUME Typed, Typed', Core, Core', NoticeInv, [Next]_vars, PlanStored
    PROVE  NoticeInv'
  <1> DEFINE p == job[Gateway].plan
  <1>1. OwnerKept /\ (faults' = 0 => faults = 0) /\ \A q \in Plans : Spoken(q) => Spoken(q)'
    BY OwnerStays, FaultsCounted, SpokenStays
  <1>2. /\ UNCHANGED <<act, listed, up, channel, owner, responses>>
        /\ job[Gateway].op = "plan" /\ job[Gateway].at = "store"
    BY DEF PlanStored, planVars, actorVars, At
  <1>3. Finish(Gateway) \/ \E at \in Places : Step(Gateway, at)
    BY DEF PlanStored, Places
  <1>4. /\ \A v \in Workers : v # Gateway => job'[v] = job[v]
        /\ \/ job'[Gateway].op = "idle"
           \/ job'[Gateway].op = "plan" /\ job'[Gateway].plan = p
    BY <1>2, <1>3, JobMoves, SetsDiffer
  <1>5. \A q \in Plans : Announced(q)' => Announced(q)
    <2>1. \A q \in Plans : AtGateway(q)' => AtGateway(q)
      BY <1>2, <1>4 DEF AtGateway
    <2> QED
      BY <1>2, <2>1 DEF Announced, Sent
  <1>6. ASSUME NEW q \in Plans, q \in unread', q \notin unread
        PROVE  OfChild(q)' /\ (faults' = 0 => Open(q)')
    <2>1. q = p /\ ~NotWanted(p)
      BY <1>6 DEF PlanStored
    <2>2. Announced(q)
      BY <1>2, <2>1 DEF Announced, AtGateway
    <2>3. OfChild(q) /\ ~Spoken(q)
      BY <2>1, <2>2 DEF NoticeInv, OfChildren, NotWanted, Spoken
    <2>4. faults' = 0 => Open(q)
      BY <1>1, <2>2, <2>3 DEF NoticeInv, Waits
    <2> QED
      BY <1>2, <2>3, <2>4 DEF OfChild, Open
  <1>7. \A q \in Plans : (Open(q) => Open(q)') /\ (Closing(q) => Closing(q)')
    <2>1. \A w \in Workers, q \in Plans : Closes(w, q) => Closes(w, q)'
      BY <1>2, <1>4 DEF Closes
    <2> QED
      BY <1>2, <2>1 DEF Open, Closing
  <1>8. Clearing'
    BY <1>2 DEF NoticeInv, Clearing, Clears, PlansOf
  <1> QED
    BY <1>1, <1>5, <1>6, <1>7, <1>8, NoticeFrom

\* A step of the service that is not about an answer.
LEMMA ServiceNotice ==
    ASSUME Typed, Typed', Core, Core', NoticeInv, [Next]_vars, ServiceStep
    PROVE  NoticeInv'
  <1>1. UNCHANGED <<act, listed, up, channel, owner>>
    BY DEF ServiceStep, ServiceAnswers, ServiceStarts, ServiceMisses, Unmap, Archive,
           RetireCoordination, planVars, actorVars
  <1>2. /\ \E j : job' = [job EXCEPT ![Service] = j]
        /\ job[Service].op # "answer"
    BY IdleTyped DEF ServiceStep, ServiceAnswers, ServiceStarts, ServiceMisses, Unmap, Archive,
                     RetireCoordination, Step, Finish, At
  <1>3. \A v \in Workers : v # Service => job'[v] = job[v]
    BY <1>2, TypedParts DEF JobsTyped
  <1>4. unread' \subseteq unread
    <2>1. RetireCoordination => unread' \subseteq unread
      BY DEF RetireCoordination
    <2> QED
      BY <2>1 DEF ServiceStep, ServiceAnswers, ServiceStarts, ServiceMisses, Unmap, Archive,
                  durableVars
  <1>5. \A p \in Plans : AtGateway(p)' => AtGateway(p)
    BY <1>3, SetsDiffer DEF AtGateway
  <1>6. \A p \in Plans, w \in Workers : Closes(w, p) => Closes(w, p)'
    BY <1>2, <1>3 DEF Closes
  <1> QED
    BY <1>1, <1>4, <1>5, <1>6, WorkNotice

LEMMA RestoreNotice ==
    ASSUME Typed, Typed', Core, Core', NoticeInv, [Next]_vars, NEW s \in Sessions, Restore(s)
    PROVE  NoticeInv'
  <1>1. OwnerKept /\ (faults' = 0 => faults = 0) /\ \A q \in Plans : Spoken(q) => Spoken(q)'
    BY OwnerStays, FaultsCounted, SpokenStays
  <1>2. /\ UNCHANGED <<unread, owner, job, listed>>
        /\ s \notin up /\ up' = up \cup {s} /\ act' = [act EXCEPT ![s] = Ready]
    BY DEF Restore, planVars
  <1>3. PICK st \in Rest : channel' = IF Owed(s)
                 THEN Append(channel, [kind |-> "over", of |-> s, status |-> st])
                 ELSE channel
    BY DEF Restore, Rest
  <1> DEFINE e == [kind |-> "over", of |-> s, status |-> st]
  <1>4. e \in TypedEvent /\ e.kind = "over"
    BY DEF TypedEvent, Event
  <1>5. channel \in Seq(TypedEvent) /\ (channel' = channel \/ channel' = Append(channel, e))
    BY <1>3, TypedParts DEF ChannelTyped
  <1> HIDE DEF e
  <1>6. \A q \in Plans : Sent("plan", q)' => Sent("plan", q)
    <2>1. CASE channel' = channel
      BY <2>1 DEF Sent
    <2>2. CASE channel' = Append(channel, e)
      BY <1>4, <1>5, <2>2, SentAppend
    <2> QED
      BY <1>5, <2>1, <2>2
  <1>7. /\ act[s].todo = {} /\ act'[s] = Ready /\ Ready.at = "ready" /\ Ready.todo = {}
        /\ \A t \in Sessions : t # s => act'[t] = act[t]
    BY <1>2, ReadyActs DEF Ready
  <1>8. \A q \in Plans : Announced(q)' => Announced(q)
    <2>1. ASSUME NEW q \in Plans, NEW t \in Sessions, act'[t].at = "plan", act'[t].plan = q
          PROVE  act[t].at = "plan" /\ act[t].plan = q
      BY <1>7, <2>1
    <2> QED
      BY <1>2, <1>6, <2>1 DEF Announced, AtGateway
  <1>9. \A q \in Plans : (Open(q) => Open(q)') /\ (Closing(q) => Closing(q)')
    <2>1. \A t \in Sessions : act'[t].todo = act[t].todo
      BY <1>7
    <2> QED
      BY <1>2, <2>1 DEF Open, Closing, Closes
  <1>10. Clearing'
    <2>1. Clears(s)'
      BY <1>2, <1>7 DEF Clears
    <2> QED
      BY <1>2, <1>7, <2>1, ClearingAt
  <1> QED
    BY <1>1, <1>2, <1>8, <1>9, <1>10, NoticeFrom

\* After a crash nothing is announced and no notice unread.
LEMMA RestartNotice ==
    ASSUME Restart
    PROVE  NoticeInv'
  <1>1. /\ unread' = {} /\ channel' = <<>> /\ listed' = {}
        /\ act' = [s \in Sessions |-> Ready] /\ job' = [w \in Workers |-> Idle]
    BY DEF Restart
  <1>2. \A p \in Plans : ~Announced(p)'
    <2>1. Len(channel') = 0
      BY <1>1
    <2>2. \A p \in Plans : ~Sent("plan", p)'
      BY <2>1 DEF Sent
    <2>3. job'[Gateway].op = "idle"
      BY <1>1, SetsDiffer, IdleTyped
    <2>4. \A s \in Sessions : act'[s].at = "ready"
      BY <1>1 DEF Ready
    <2> QED
      BY <2>2, <2>3, <2>4 DEF Announced, AtGateway
  <1>3. Clearing'
    BY <1>1 DEF Clearing, Clears, Ready
  <1> QED
    BY <1>1, <1>2, <1>3 DEF NoticeInv, OfChildren, Waits

LEMMA PlacingKept ==
    ASSUME Typed, Placing, [Next]_vars
    PROVE  Placing'
  <1>0. job \in [Workers -> TypedJob] /\ Gateway \in Workers
    BY TypedParts, SetsDiffer DEF JobsTyped
  <1>1. CASE job'[Gateway] = job[Gateway]
    BY <1>1 DEF Placing
  <1>2. CASE Restart
    BY <1>0, <1>2, IdleTyped DEF Restart, Placing
  <1>3. CASE Take
    <2>1. job' = [job EXCEPT ![Gateway] = JobOf(Head(channel))] /\ channel # <<>>
      BY <1>3 DEF Take
    <2>2. Head(channel) \in TypedEvent
      <3>1. channel \in Seq(TypedEvent)
        BY TypedParts DEF ChannelTyped
      <3> HIDE DEF TypedEvent
      <3> QED
        BY <2>1, <3>1
    <2>3. JobOf(Head(channel)).op = "plan" => JobOf(Head(channel)).at = "check"
      BY <2>2, AnnouncementIs
    <2> QED
      BY <1>0, <2>1, <2>3 DEF Placing
  <1>4. CASE PlanChecked \/ PlanStored \/ Completion
    <2>1. \/ Finish(Gateway) \/ Step(Gateway, "store") \/ Step(Gateway, "sync")
      BY <1>4 DEF PlanChecked, PlanStored, Completion
    <2> QED
      BY <1>0, <2>1, StepTyped, FinishTyped, IdleTyped DEF Placing, Places
  <1>5. CASE WorkerStep(Gateway) /\ ~(job'[Gateway] = job[Gateway])
    <2>1. CASE job[Gateway].op = "plan"
      <3>1. Sync(Gateway)
        BY <1>5, <2>1 DEF WorkerStep, RecordStep, Lock, Check, Claim, Store, WithdrawNotice, Ask, At,
                          Placing
      <3> QED
        BY <1>0, <3>1, FinishTyped, IdleTyped DEF Sync, Placing
    <2>2. CASE job[Gateway].op # "plan"
      <3>1. Finish(Gateway) \/ \E at \in Places : Step(Gateway, at)
        BY <1>5 DEF WorkerStep, RecordStep, Lock, Check, Claim, Store, WithdrawNotice, Ask, Answered,
                    Sync, Places
      <3> QED
        BY <1>0, <2>2, <3>1, JobMoves, IdleTyped DEF Placing
    <2> QED
      BY <2>1, <2>2
  <1>6. ASSUME ~Restart, ~GatewayStep, ~WorkerStep(Gateway)
        PROVE  job'[Gateway] = job[Gateway]
    BY <1>6, GatewayAlone
  <1> QED
    BY <1>1, <1>2, <1>3, <1>4, <1>5, <1>6 DEF GatewayStep

LEMMA NoticeInit == Init => Placing /\ NoticeInv
  <1> SUFFICES ASSUME Init PROVE Placing /\ NoticeInv
    OBVIOUS
  <1>1. /\ unread = {} /\ channel = <<>> /\ listed = {}
        /\ act = [s \in Sessions |-> Ready] /\ job = [w \in Workers |-> Idle]
    BY DEF Init
  <1>2. \A p \in Plans : ~Announced(p)
    <2>1. Len(channel) = 0
      BY <1>1
    <2>2. \A p \in Plans : ~Sent("plan", p)
      BY <2>1 DEF Sent
    <2>3. job[Gateway].op = "idle"
      BY <1>1, SetsDiffer, IdleTyped
    <2>4. \A s \in Sessions : act[s].at = "ready"
      BY <1>1 DEF Ready
    <2> QED
      BY <2>2, <2>3, <2>4 DEF Announced, AtGateway
  <1>3. Clearing
    BY <1>1 DEF Clearing, Clears, Ready
  <1>4. Placing
    BY <1>1, SetsDiffer, IdleTyped DEF Placing
  <1> QED
    BY <1>1, <1>2, <1>3, <1>4 DEF NoticeInv, OfChildren, Waits

LEMMA NoticeKept ==
    ASSUME Typed, Typed', Core, Core', Obeying, NoticeInv, Placing, [Next]_vars
    PROVE  NoticeInv'
  <1>1. CASE UNCHANGED vars
    BY <1>1, WorkNotice DEF vars, durableVars, planVars, actorVars, otherVars, AtGateway, Closes
  <1>2. CASE RuntimeStep
    <2>1. ASSUME NEW p \in Plans, Abandon(p)
          PROVE  NoticeInv'
      BY <2>1, WorkNotice DEF Abandon, durableVars, actorVars, AtGateway, Closes
    <2> QED
      BY <1>2, <2>1, AskPlanNotice, CallsNotice DEF RuntimeStep
  <1>3. CASE ActorStep
    <2>1. ASSUME NEW s \in Sessions, TurnStart(s)
          PROVE  NoticeInv'
      BY <2>1, WorkNotice DEF TurnStart, actorVars, AtGateway, Closes
    <2>2. ASSUME NEW p \in Plans, Deliver(p)
          PROVE  NoticeInv'
      BY <2>2, WorkNotice DEF Deliver, planVars, actorVars, otherVars, AtGateway, Closes
    <2>3. ASSUME NEW s \in Sessions, NEW st \in Rest, TurnOver(s, st)
          PROVE  NoticeInv'
      BY <2>3, HeardNotice DEF TurnOver
    <2>4. ASSUME NEW s \in Sessions, WorkFails(s)
          PROVE  NoticeInv'
      BY <2>4, HeardNotice DEF WorkFails
    <2> QED
      BY <1>3, <2>1, <2>2, <2>3, <2>4, ReceiveNotice, NotifyNotice, CancelNotice, RetireNotice,
         EndedNotice DEF ActorStep
  <1>4. CASE GatewayStep
    BY <1>4, TakeNotice, GatewayNotice, PlanStoredNotice DEF GatewayStep
  <1>5. CASE LifeStep
    <2>1. ASSUME NEW s \in Sessions, Install(s)
          PROVE  NoticeInv'
      <3>1. UNCHANGED <<act, listed, up, channel, owner, unread, job>>
        BY <2>1 DEF Install, durableVars, planVars, otherVars
      <3> QED
        BY <3>1, WorkNotice DEF AtGateway, Closes
    <2> QED
      BY <1>5, <2>1, RestoreNotice, RestartNotice DEF LifeStep
  <1>6. ASSUME NEW w \in Workers, WorkerStep(w)
        PROVE  NoticeInv'
    BY <1>6, WorkerNotice, AskNotice DEF WorkerStep, RecordStep
  <1> QED
    BY <1>1, <1>2, <1>3, <1>4, <1>5, <1>6, ServiceNotice DEF Next

\* THEOREM: a parent is shown a waiting plan only while its child still waits,
\* whatever order the announcement, an answer, a cancellation, a restore and a crash
\* come in, unless the database failed (create_plan_waiting_item,
\* mark_plan_waiting_notification_read, cancel_pending_interactions).
THEOREM WaitingPlansShown == Spec => []UnreadIsOpen
  <1>1. CoordinationInv /\ CoordinationInv' /\ Placing /\ NoticeInv /\ [Next]_vars
           => (Placing /\ NoticeInv)'
    BY PlacingKept, NoticeKept DEF CoordinationInv
  <1>2. ASSUME Typed, NoticeInv
        PROVE  UnreadIsOpen
    <2> SUFFICES ASSUME faults = 0, NEW p \in unread
                 PROVE  Settling(p) \/ (p \in listed /\ owner[p] \in up)
      BY DEF UnreadIsOpen
    <2>1. p \in Plans
      BY <1>2, TypedParts DEF DurableTyped
    <2>2. Open(p) \/ Closing(p)
      BY <1>2, <2>1 DEF NoticeInv, Waits
    <2> QED
      BY <2>2 DEF Open, Closing, Closes, Settling
  <1>3. CoordinationInv /\ NoticeInv => UnreadIsOpen
    BY <1>2 DEF CoordinationInv
  <1> QED
    BY <1>1, <1>3, NoticeInit, CoordinationInvariant, PTL DEF Spec

=============================================================================
