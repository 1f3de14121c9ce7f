---------------------------- MODULE Requests_proofs ----------------------------
(***************************************************************************)
(* What the gateway handles, one after the other: each part of MCRequests  *)
(* keeps its types and its safety invariant, for every value of the        *)
(* constants.  Each part has two sections: the strengthened invariant and  *)
(* its property, then its types, which rest on that invariant where a      *)
(* value is written that a step read before.  The last section composes    *)
(* the parts.  (The merge of a reviewed commit is in ReviewGate_proofs,    *)
(* Luna's queue in LunaQueue_proofs.)                                      *)
(***************************************************************************)
EXTENDS MCRequests, LunaQueue_proofs, ReviewGate_proofs, FiniteSetTheorems, WellFoundedInduction, TLAPS

\* Every set of numbers up to one has a last.
LEMMA LastOf ==
  ASSUME NEW n \in Nat, NEW S, S \subseteq 1..n, S # {}
  PROVE  \E x \in S : \A y \in S : y <= x
<1> DEFINE Less == {pair \in Nat \X Nat : pair[1] < pair[2]}
           Left == {k \in Nat : n - k \in S}
<1>1. IsWellFoundedOn(Less, Nat)
  BY NatLessThanWellFounded DEF OpToRel
<1>2. \A m, k \in Nat : <<m, k>> \in Less <=> m < k
  OBVIOUS
<1>3. Left \subseteq Nat /\ Left # {}
  <2>1. PICK i \in S : TRUE
    OBVIOUS
  <2>2. n - i \in Nat /\ n - (n - i) = i
    OBVIOUS
  <2> QED
    BY <2>1, <2>2
<1> HIDE DEF Less
<1>4. \E k \in Left : \A m \in Left : ~(<<m, k>> \in Less)
  BY <1>1, <1>3, WFMin
<1>5. PICK k \in Left : \A m \in Left : ~(m < k)
  BY <1>2, <1>4
<1>6. n - k \in S /\ \A j \in S : j <= n - k
  <2>1. \A j \in S : j \in Nat /\ n - j \in Nat /\ n - (n - j) = j
    OBVIOUS
  <2>2. \A j \in S : ~(n - j < k)
    BY <1>5, <2>1
  <2> QED
    BY <1>5, <2>1, <2>2
<1> QED
  BY <1>6

-----------------------------------------------------------------------------
(* Webhooks.  What was admitted is settled: some thread has it, GitHub was  *)
(* answered too early, or its effects are there.                            *)

Delivery == [kind : DeliveryKinds, text : Int, by : {"owner", "luna"}]
Views == {"due", "waiting", "failed", "answered"}
HookSteps ==
  {"idle", "read", "label", "check", "publish", "commit", "approve", "children",
   "decompose", "register", "notify", "reopen", "notice", "queue", "comment"}
HookTask == [d : Nat, pc : HookSteps, n : Nat]

HookLists ==
  /\ deliveries \in Seq(Delivery) /\ issue \in Int
  /\ response \in Seq(Views) /\ Len(response) = Len(deliveries)
  /\ versions \in Seq(Int) /\ versions # <<>>
  /\ worker \in [Threads -> HookTask]

\* The text of a delivery is a version of the plan.
IsVersion(d) == \E i \in DOMAIN versions : versions[i] = TextOf(d)

\* The delivery has had its effects.
Recorded(d) == RowsOf(d) \subseteq rows /\ (KindOf(d) = "edited" => IsVersion(d))

\* What a handler of d has done by the time it is at step.
Promise(d, step) ==
  /\ KindOf(d) = "edited" =>
       step \in {"check", "publish", "commit", "queue"} /\ (step = "queue" => IsVersion(d))
  /\ KindOf(d) = "commented" =>
       step \in {"queue", "comment"} /\ (step = "comment" => <<"event", d>> \in rows)

Keeps(t) ==
  IF worker[t].d = 0 THEN worker[t].pc = "idle"
  ELSE worker[t].d \in admitted /\ Promise(worker[t].d, worker[t].pc)

Handling ==
  /\ admitted \subseteq Arrived
  /\ \A t \in HookThreads : Keeps(t)
  /\ \A t, u \in HookThreads : worker[t].d = worker[u].d => t = u \/ worker[t].d = 0

Settled ==
  \A d \in admitted : d \in overtaken \/ Recorded(d) \/ \E t \in HookThreads : worker[t].d = d

\* Luna's thread handles no delivery.
LunaHasNone == worker[Luna].d = 0

HookInv == Handling /\ LunaHasNone /\ Settled /\ AnsweredIsRecorded

\* No step forgets a delivery, a version or a row.
Remembers ==
  /\ Arrived \subseteq Arrived' /\ \A d \in Arrived : deliveries'[d] = deliveries[d]
  /\ DOMAIN versions \subseteq DOMAIN versions'
  /\ \A i \in DOMAIN versions : versions'[i] = versions[i]
  /\ rows \subseteq rows'

\* What is recorded stays recorded.
LEMMA RecordedStays ==
  ASSUME Remembers, NEW d \in Arrived
  PROVE  KindOf(d)' = KindOf(d) /\ (Recorded(d) => Recorded(d)')
BY DEF Remembers, Recorded, RowsOf, IsVersion, KindOf, TextOf

\* Nor is what a handler has done so far undone.
LEMMA PromiseStays ==
  ASSUME Remembers, NEW d \in Arrived, NEW step, Promise(d, step)
  PROVE  Promise(d, step)'
BY DEF Remembers, Promise, IsVersion, KindOf, TextOf

\* What a thread does with the delivery it has: it goes on, returns or raises.
Handles(t) ==
  \E d \in Arrived :
    /\ worker[t].d = d
    /\ \/ worker'[t].d = d /\ Promise(d, worker[t].pc)' /\ admitted' = admitted
       \/ worker'[t] = Idle /\ admitted' = admitted /\ Recorded(d)'
       \/ worker'[t] = Idle /\ admitted' = admitted \ {d}

\* GitHub's view changes for the thread's delivery alone, unless GitHub gives up.
Hears(t) ==
  \A e \in Arrived' :
    \/ e \in Arrived /\ response'[e] = response[e]
    \/ response'[e] # "answered"
    \/ e \in Arrived /\ Recorded(e)'

\* A step of one thread, of Luna or of GitHub.
LEMMA ThreadStep ==
  ASSUME HookInv, Remembers, NEW t \in Threads, overtaken' = overtaken, Hears(t),
         \A u \in Threads \ {t} : worker'[u] = worker[u],
         t # Luna => worker[t].d # 0 /\ Handles(t),
         t = Luna => worker'[t].d = 0 /\ admitted' = admitted
  PROVE  HookInv'
<1>1. LunaHasNone'
  BY WebhooksAssumption DEF HookInv, LunaHasNone, Threads
<1>2. \A e \in Arrived : Recorded(e) => Recorded(e)'
  BY RecordedStays
<1>3. AnsweredIsRecorded'
  BY <1>2 DEF HookInv, AnsweredIsRecorded, Recorded, IsVersion, Hears
<1>4. admitted \subseteq Arrived /\ Arrived \subseteq Arrived'
  BY DEF HookInv, Handling, Remembers
<1>5. ASSUME NEW u \in HookThreads, worker'[u] = worker[u],
             worker[u].d = 0 \/ worker[u].d \in admitted'
      PROVE  Keeps(u)'
  <2>1. CASE worker[u].d = 0
    BY <1>5, <2>1 DEF HookInv, Handling, Keeps
  <2>2. CASE worker[u].d # 0
    <3>1. PICK d, step : d = worker[u].d /\ step = worker[u].pc
      OBVIOUS
    <3>2. Promise(d, step) /\ d \in Arrived
      BY <1>4, <2>2, <3>1 DEF HookInv, Handling, Keeps
    <3>3. Promise(d, step)'
      BY <3>2, PromiseStays
    <3> QED
      BY <1>5, <2>2, <3>1, <3>3 DEF Keeps
  <2> QED
    BY <2>1, <2>2
<1>6. CASE t = Luna
  <2>1. \A u \in HookThreads : worker'[u] = worker[u]
    BY <1>6, WebhooksAssumption DEF Threads
  <2>2. Handling'
    BY <1>4, <1>5, <1>6, <2>1 DEF HookInv, Handling, Keeps
  <2>3. Settled'
    BY <1>2, <1>4, <1>6, <2>1 DEF HookInv, Settled
  <2> QED
    BY <1>1, <1>3, <2>2, <2>3 DEF HookInv
<1>7. CASE t \in HookThreads
  <2>1. t # Luna
    BY <1>7, WebhooksAssumption
  <2>2. PICK d \in Arrived :
          /\ worker[t].d = d
          /\ \/ worker'[t].d = d /\ Promise(d, worker[t].pc)' /\ admitted' = admitted
             \/ worker'[t] = Idle /\ admitted' = admitted /\ Recorded(d)'
             \/ worker'[t] = Idle /\ admitted' = admitted \ {d}
    BY <2>1 DEF Handles
  <2>3. d \in admitted /\ d # 0
    BY <1>7, <2>1, <2>2 DEF HookInv, Handling, Keeps
  <2>4. \A u \in HookThreads \ {t} : worker'[u] = worker[u] /\ worker[u].d # d
    BY <1>7, <2>2, <2>3 DEF HookInv, Handling, Threads
  <2>5. \A u \in HookThreads \ {t} : Keeps(u)'
    BY <1>5, <2>2, <2>4 DEF HookInv, Handling, Keeps
  <2>6. Keeps(t)'
    BY <2>2, <2>3 DEF Keeps, Idle
  <2>7. worker'[t].d = d \/ worker'[t].d = 0
    BY <2>2 DEF Idle
  <2>8. Handling'
    <3>1. \A u, w \in HookThreads : worker'[u].d = worker'[w].d => u = w \/ worker'[u].d = 0
      BY <2>4, <2>7 DEF HookInv, Handling
    <3> QED
      BY <1>4, <2>2, <2>5, <2>6, <3>1 DEF Handling
  <2>9. Settled'
    <3> SUFFICES ASSUME NEW e \in admitted', e \notin overtaken', ~Recorded(e)'
                 PROVE  \E u \in HookThreads : worker'[u].d = e
      BY DEF Settled
    <3>1. e \in admitted
      BY <2>2
    <3>2. PICK u \in HookThreads : worker[u].d = e
      BY <1>2, <1>4, <3>1 DEF HookInv, Settled
    <3>3. CASE u # t
      BY <2>4, <3>2, <3>3
    <3>4. CASE u = t
      BY <1>7, <2>2, <3>2, <3>4
    <3> QED
      BY <3>3, <3>4
  <2> QED
    BY <1>1, <1>3, <2>8, <2>9 DEF HookInv
<1> QED
  BY <1>6, <1>7 DEF Threads

\* The handlers keep their types.
HandlerSteps(t) ==
  \/ CallFails(t) \/ Read(t) \/ Label(t) \/ Check(t) \/ Publish(t) \/ Commit(t) \/ Approve(t)
  \/ Children(t) \/ Decompose(t) \/ Register(t) \/ Reopen(t) \/ Notify(t) \/ Notice(t)
  \/ Queue(t) \/ Comment(t)

\* The steps of the deliveries, by who takes them.
LEMMA HookNextSteps ==
  ASSUME HookNext
  PROVE  \/ \E kind \in OwnerKinds : OwnerActs(kind)
         \/ \E d \in Arrived : GitHubGivesUp(d)
         \/ \E t \in HookThreads, d \in Arrived : Admit(t, d)
         \/ \E t \in HookThreads : HandlerSteps(t)
         \/ Reopen(Luna) \/ Notice(Luna) \/ Replan \/ HookCrash
BY Zenon DEF HookNext, HandlerSteps, Threads

\* A delivery has a kind and a text.
LEMMA DeliveryText ==
  ASSUME HookLists, NEW d \in Arrived
  PROVE  TextOf(d) \in Int /\ KindOf(d) \in DeliveryKinds
<1>1. deliveries[d] \in Delivery
  BY DEF HookLists, Arrived
<1> QED
  BY <1>1 DEF Delivery, TextOf, KindOf

\* A delivery that GitHub reports comes after those of before, and is due.
LEMMA Reported ==
  ASSUME HookLists, NEW kind \in DeliveryKinds, NEW text \in Int, NEW by \in {"owner", "luna"},
         Reports(kind, text, by)
  PROVE  /\ deliveries' \in Seq(Delivery) /\ response' \in Seq(Views)
         /\ Len(response') = Len(deliveries')
         /\ Arrived \subseteq Arrived' /\ \A d \in Arrived : deliveries'[d] = deliveries[d]
         /\ \A d \in Arrived : response'[d] = response[d]
         /\ \A d \in Arrived' \ Arrived : response'[d] = "due"
<1> DEFINE new == [kind |-> kind, text |-> text, by |-> by]
<1>1. new \in Delivery
  BY DEF Delivery
<1>2. deliveries' = Append(deliveries, new) /\ response' = Append(response, "due")
  BY DEF Reports
<1> HIDE DEF new
<1>3. deliveries' \in Seq(Delivery) /\ Len(deliveries') = Len(deliveries) + 1
      /\ \A d \in Arrived : deliveries'[d] = deliveries[d]
  BY <1>1, <1>2 DEF HookLists, Arrived
<1>4. "due" \in Views
  BY DEF Views
<1>5. response' \in Seq(Views) /\ Len(response') = Len(response) + 1
      /\ \A d \in Arrived : response'[d] = response[d]
  BY <1>2, <1>4 DEF HookLists, Arrived
<1>6. response'[Len(response) + 1] = "due"
  BY <1>2 DEF HookLists
<1>7. Len(deliveries) \in Nat /\ Len(response) = Len(deliveries)
  BY DEF HookLists
<1> QED
  BY <1>3, <1>5, <1>6, <1>7 DEF Arrived

\* An answer changes the response to its own delivery alone.
LEMMA Answered ==
  ASSUME HookLists, NEW d, NEW answer \in Views, Answers(d, answer), UNCHANGED deliveries
  PROVE  /\ response' \in Seq(Views) /\ Len(response') = Len(deliveries')
         /\ \A e \in Arrived : response'[e] = response[e] \/ (response'[e] = answer /\ e = d)
<1> DEFINE next(e) == IF e = d /\ response[e] = "waiting" THEN answer ELSE response[e]
<1>1. response' = [e \in 1..Len(deliveries) |-> next(e)]
  BY DEF Answers, Arrived
<1>2. \A e \in 1..Len(deliveries) : response[e] \in Views
  BY DEF HookLists
<1>3. \A e \in 1..Len(deliveries) : next(e) \in Views /\ (next(e) = response[e] \/ (next(e) = answer /\ e = d))
  BY <1>2
<1>4. Len(deliveries) \in Nat
  BY DEF HookLists
<1> HIDE DEF next
<1>5. response' \in Seq(Views) /\ Len(response') = Len(deliveries)
  BY <1>1, <1>3, <1>4
<1>6. \A e \in Arrived : response'[e] = next(e)
  BY <1>1 DEF Arrived
<1> QED
  BY <1>3, <1>5, <1>6 DEF Arrived

\* A thread that is not idle has an admitted delivery.
LEMMA Busy ==
  ASSUME HookLists, HookInv, NEW t \in HookThreads, worker[t].pc # "idle"
  PROVE  \E d \in Arrived : d = worker[t].d /\ d \in admitted /\ d # 0 /\ Promise(d, worker[t].pc)
BY DEF HookInv, Handling, Keeps

\* A thread goes on to another step with the delivery it has.
LEMMA GoesStep ==
  ASSUME HookLists, NEW t \in Threads, NEW step \in HookSteps, Goes(t, step)
  PROVE  /\ worker' \in [Threads -> HookTask]
         /\ worker'[t].d = worker[t].d /\ worker'[t].pc = step
         /\ \A u \in Threads \ {t} : worker'[u] = worker[u]
<1>1. worker[t] \in HookTask
  BY DEF HookLists
<1>2. [worker[t] EXCEPT !.pc = step] \in HookTask
  BY <1>1 DEF HookTask
<1>3. [worker[t] EXCEPT !.pc = step].d = worker[t].d /\ [worker[t] EXCEPT !.pc = step].pc = step
  BY <1>1 DEF HookTask
<1>4. worker' = [worker EXCEPT ![t] = [worker[t] EXCEPT !.pc = step]]
  BY DEF Goes
<1> QED
  BY <1>2, <1>3, <1>4 DEF HookLists

\* A thread is through with its delivery.
LEMMA IdleStep ==
  ASSUME HookLists, NEW t \in Threads, worker' = [worker EXCEPT ![t] = Idle]
  PROVE  /\ worker' \in [Threads -> HookTask] /\ worker'[t] = Idle
         /\ \A u \in Threads \ {t} : worker'[u] = worker[u]
<1>1. Idle \in HookTask
  BY DEF Idle, HookTask, HookSteps
<1>2. worker \in [Threads -> HookTask]
  BY DEF HookLists
<1>3. worker' \in [Threads -> HookTask]
  BY <1>1, <1>2
<1>4. worker'[t] = Idle
  BY <1>2
<1> QED
  BY <1>2, <1>3, <1>4

\* A handler goes on to step and keeps its promise.
LEMMA MovesStep ==
  ASSUME HookLists, HookInv, NEW t \in HookThreads, worker[t].pc # "idle", NEW step \in HookSteps,
         worker' \in [Threads -> HookTask], worker'[t].d = worker[t].d, worker'[t].pc = step,
         \A u \in Threads \ {t} : worker'[u] = worker[u],
         UNCHANGED <<deliveries, response, admitted, overtaken>>, Remembers, issue' \in Int,
         versions' \in Seq(Int), versions' # <<>>,
         \A d \in Arrived : d = worker[t].d /\ Promise(d, worker[t].pc) => Promise(d, step)'
  PROVE  HookLists' /\ HookInv'
<1>1. PICK d \in Arrived : d = worker[t].d /\ d \in admitted /\ d # 0 /\ Promise(d, worker[t].pc)
  BY Busy
<1>2. t \in Threads /\ t # Luna
  BY WebhooksAssumption DEF Threads
<1>3. Promise(d, step)'
  BY <1>1
<1>4. Promise(d, worker[t].pc)'
  BY <1>3 DEF Promise, IsVersion, KindOf, TextOf
<1>5. Handles(t)
  BY <1>1, <1>4 DEF Handles
<1>6. Hears(t)
  BY DEF Hears, Arrived
<1>7. HookLists'
  BY DEF HookLists
<1> QED
  BY <1>1, <1>2, <1>5, <1>6, <1>7, ThreadStep

\* A handler may go on when it has done what its next step takes for done.
LEMMA ContinuesStep ==
  ASSUME HookLists, HookInv, NEW t \in HookThreads, worker[t].pc # "idle", NEW step \in HookSteps,
         Continues(t, step), UNCHANGED overtaken, Remembers, issue' \in Int,
         versions' \in Seq(Int), versions' # <<>>,
         \A d \in Arrived : d = worker[t].d /\ Promise(d, worker[t].pc) => Promise(d, step)'
  PROVE  HookLists' /\ HookInv'
<1>1. t \in Threads
  BY DEF Threads
<1>2. /\ worker' \in [Threads -> HookTask]
      /\ worker'[t].d = worker[t].d /\ worker'[t].pc = step
      /\ \A u \in Threads \ {t} : worker'[u] = worker[u]
  BY <1>1, GoesStep DEF Continues
<1> QED
  BY <1>2, MovesStep DEF Continues

\* A handler returns, its delivery recorded.
LEMMA ReturnsStep ==
  ASSUME HookLists, HookInv, NEW t \in HookThreads, worker[t].pc # "idle",
         Returns(t), UNCHANGED <<overtaken, issue, versions>>, Remembers,
         \A d \in Arrived : d = worker[t].d /\ Promise(d, worker[t].pc) => Recorded(d)'
  PROVE  HookLists' /\ HookInv'
<1>1. PICK d \in Arrived : d = worker[t].d /\ d \in admitted /\ d # 0 /\ Promise(d, worker[t].pc)
  BY Busy
<1>2. t \in Threads /\ t # Luna
  BY WebhooksAssumption DEF Threads
<1>3. /\ worker' \in [Threads -> HookTask] /\ worker'[t] = Idle
      /\ \A u \in Threads \ {t} : worker'[u] = worker[u]
  BY <1>2, IdleStep DEF Returns
<1>4. Recorded(d)'
  BY <1>1
<1>5. /\ response' \in Seq(Views) /\ Len(response') = Len(deliveries')
      /\ \A e \in Arrived : response'[e] = response[e] \/ (response'[e] = "answered" /\ e = d)
  BY <1>1, Answered DEF Returns, Views
<1>6. Handles(t)
  BY <1>1, <1>3, <1>4 DEF Handles, Returns
<1>7. Hears(t)
  BY <1>4, <1>5 DEF Hears, Returns, Arrived
<1>8. HookLists'
  BY <1>3, <1>5 DEF HookLists, Returns
<1> QED
  BY <1>1, <1>2, <1>3, <1>6, <1>7, <1>8, ThreadStep

\* A handler raises.
LEMMA RaisesStep ==
  ASSUME HookLists, HookInv, NEW t \in HookThreads, worker[t].pc # "idle",
         Raises(t), UNCHANGED <<overtaken, issue, versions, rows>>
  PROVE  HookLists' /\ HookInv'
<1>1. PICK d \in Arrived : d = worker[t].d /\ d \in admitted /\ d # 0 /\ Promise(d, worker[t].pc)
  BY Busy
<1>2. t \in Threads /\ t # Luna
  BY WebhooksAssumption DEF Threads
<1>3. /\ worker' \in [Threads -> HookTask] /\ worker'[t] = Idle
      /\ \A u \in Threads \ {t} : worker'[u] = worker[u]
  BY <1>2, IdleStep DEF Raises
<1>4. Remembers
  BY DEF Remembers, Raises, Arrived
<1>5. /\ response' \in Seq(Views) /\ Len(response') = Len(deliveries')
      /\ \A e \in Arrived : response'[e] = response[e] \/ (response'[e] = "failed" /\ e = d)
  BY <1>1, Answered DEF Raises, Views
<1>6. Handles(t)
  BY <1>1, <1>3 DEF Handles, Raises
<1>7. Hears(t)
  BY <1>5 DEF Hears, Raises, Arrived
<1>8. HookLists'
  BY <1>3, <1>5 DEF HookLists, Raises
<1> QED
  BY <1>1, <1>2, <1>3, <1>4, <1>6, <1>7, <1>8, ThreadStep

\* Labels, approvals and pushes leave nothing behind that is promised.
Owing(d) == KindOf(d) \in {"edited", "commented"}

\* A delivery that owes nothing is recorded, wherever its handler is.
LEMMA OwesNothing ==
  ASSUME Remembers, NEW d \in Arrived, ~Owing(d)
  PROVE  Recorded(d)' /\ \A step : Promise(d, step)'
BY RecordedStays DEF Owing, Recorded, RowsOf, Promise

\* The handler of one that owes something is at a step that records it.
LEMMA OwingIsPast ==
  ASSUME NEW d, NEW step, Promise(d, step), Owing(d)
  PROVE  step \in {"check", "publish", "commit", "queue", "comment"}
BY DEF Promise, Owing

\* A handler of something that owes nothing takes any of its steps.
LEMMA FreeStep ==
  ASSUME HookLists, HookInv, NEW t \in HookThreads,
         worker[t].pc \notin {"idle", "check", "publish", "commit", "queue", "comment"},
         Returns(t) \/ \E step \in HookSteps : Continues(t, step),
         UNCHANGED <<overtaken, issue, versions>>, rows \subseteq rows'
  PROVE  HookLists' /\ HookInv'
<1>1. Remembers
  BY DEF Remembers, Returns, Continues, Arrived
<1>2. \A d \in Arrived : d = worker[t].d /\ Promise(d, worker[t].pc) => Recorded(d)' /\ \A step : Promise(d, step)'
  BY <1>1, OwesNothing, OwingIsPast
<1>3. CASE Returns(t)
  BY <1>1, <1>2, <1>3, ReturnsStep
<1>4. ASSUME NEW step \in HookSteps, Continues(t, step) PROVE HookLists' /\ HookInv'
  BY <1>1, <1>2, <1>4, ContinuesStep DEF HookLists
<1> QED
  BY <1>3, <1>4

\* The issue is compared with the delivery.
LEMMA ReadStep ==
  ASSUME HookLists, HookInv, NEW t \in HookThreads, Read(t) PROVE HookLists' /\ HookInv'
<1>1. CASE Raises(t)
  BY <1>1, RaisesStep DEF Read, hookPlanVars
<1>2. CASE ~Raises(t)
  <2>1. \E step \in {"label", "check"} : Continues(t, step)
    BY <1>2 DEF Read
  <2> QED
    BY <1>2, <2>1, FreeStep DEF HookSteps, Read, hookPlanVars
<1> QED
  BY <1>1, <1>2

\* Steps whose delivery owes nothing.
LEMMA FreeSteps ==
  ASSUME HookLists, HookInv, NEW t \in HookThreads,
         Children(t) \/ Decompose(t) \/ Reopen(t) \/ Notify(t) \/ Notice(t)
  PROVE  HookLists' /\ HookInv'
<1>1. CASE Children(t) \/ Decompose(t)
  <2>1. \E step \in {"decompose", "register"} : Continues(t, step)
    BY <1>1 DEF Children, Decompose
  <2> QED
    BY <1>1, <2>1, FreeStep DEF HookSteps, Children, Decompose
<1>2. CASE Reopen(t)
  <2>1. Returns(t) \/ Continues(t, "notice")
    BY <1>2 DEF Reopen
  <2> QED
    BY <1>2, <2>1, FreeStep DEF HookSteps, Reopen
<1>3. CASE Notify(t) \/ Notice(t)
  BY <1>3, FreeStep DEF Notify, Notice, Record, hookPlanVars
<1> QED
  BY <1>1, <1>2, <1>3

\* The approval, and the registration of its issues.
LEMMA ApproveStep ==
  ASSUME HookLists, HookInv, NEW t \in HookThreads, Approve(t) \/ Register(t) PROVE HookLists' /\ HookInv'
<1>1. CASE Raises(t)
  BY <1>1, RaisesStep DEF Approve, Register, hookPlanVars
<1>2. CASE ~Raises(t) /\ Approve(t)
  <2>1. Returns(t) \/ Continues(t, "children")
    BY <1>2 DEF Approve
  <2> QED
    BY <1>2, <2>1, FreeStep DEF HookSteps, Approve
<1>3. CASE ~Raises(t) /\ Register(t)
  <2>1. Continues(t, "notify")
    BY <1>3 DEF Register
  <2> QED
    BY <1>3, <2>1, FreeStep DEF HookSteps, Register
<1> QED
  BY <1>1, <1>2, <1>3

\* A call to GitHub fails.
LEMMA CallFailsStep ==
  ASSUME HookLists, HookInv, NEW t \in HookThreads, CallFails(t) PROVE HookLists' /\ HookInv'
BY RaisesStep DEF CallFails, hookPlanVars

\* An edit, up to the call of GitHub.
LEMMA CheckStep ==
  ASSUME HookLists, HookInv, NEW t \in HookThreads, Check(t) PROVE HookLists' /\ HookInv'
<1>1. worker[t].pc = "check" /\ UNCHANGED <<issue, versions, rows, overtaken>>
  BY DEF Check, hookPlanVars
<1>2. CASE Raises(t)
  BY <1>1, <1>2, RaisesStep
<1>3. CASE ~Raises(t)
  <2>1. UNCHANGED deliveries /\ Remembers
    BY <1>1, <1>3 DEF Check, Continues, Remembers, Arrived
  <2>2. CASE Last(versions) = TextOf(worker[t].d)
    <3>1. PICK step \in HookSteps :
            Continues(t, step) /\ step = IF KindOf(worker[t].d) = "edited" THEN "queue" ELSE "approve"
      BY <1>3, <2>2 DEF Check, HookSteps
    <3>2. ASSUME NEW d \in Arrived, d = worker[t].d, Promise(d, "check") PROVE Promise(d, step)'
      <4>1. KindOf(d)' = KindOf(d) /\ KindOf(d) # "commented"
        BY <2>1, <3>2 DEF KindOf, Promise
      <4>2. IsVersion(d)
        BY <2>2, <3>2 DEF IsVersion, Last, HookLists
      <4>3. IsVersion(d)'
        BY <1>1, <2>1, <4>2 DEF IsVersion, TextOf
      <4> QED
        BY <3>1, <3>2, <4>1, <4>3 DEF Promise
    <3> QED
      BY <1>1, <2>1, <3>1, <3>2, ContinuesStep DEF HookLists
  <2>3. CASE Last(versions) # TextOf(worker[t].d)
    <3> DEFINE job == [d |-> worker[t].d, pc |-> "publish", n |-> Len(versions)]
    <3>1. worker' = [worker EXCEPT ![t] = job] /\ UNCHANGED <<deliveries, response, admitted>>
      BY <1>3, <2>3 DEF Check
    <3>2. worker \in [Threads -> HookTask] /\ t \in Threads
      BY DEF HookLists, Threads
    <3>3. worker[t].d \in Nat /\ Len(versions) \in Nat
      BY <3>2 DEF HookTask, HookLists
    <3>4. job \in HookTask /\ job.d = worker[t].d /\ job.pc = "publish"
      BY <3>3 DEF HookTask, HookSteps
    <3>5. /\ worker' \in [Threads -> HookTask]
          /\ worker'[t].d = worker[t].d /\ worker'[t].pc = "publish"
          /\ \A u \in Threads \ {t} : worker'[u] = worker[u]
      BY <3>1, <3>2, <3>4
    <3>6. ASSUME NEW d \in Arrived, Promise(d, "check") PROVE Promise(d, "publish")'
      BY <2>1, <3>6 DEF Promise, KindOf
    <3> QED
      BY <1>1, <2>1, <3>1, <3>5, <3>6, MovesStep DEF HookLists, HookSteps
  <2> QED
    BY <2>2, <2>3
<1> QED
  BY <1>2, <1>3

\* The text is written to the issue.
LEMMA PublishStep ==
  ASSUME HookLists, HookInv, NEW t \in HookThreads, Publish(t) PROVE HookLists' /\ HookInv'
<1>1. worker[t].pc = "publish" /\ UNCHANGED <<deliveries, versions, rows, overtaken>> /\ Continues(t, "commit")
  BY DEF Publish, hookPlanVars, Continues
<1>2. issue' \in Int
  BY <1>1, Busy, DeliveryText DEF Publish
<1>3. Remembers
  BY <1>1 DEF Remembers, Arrived
<1>4. ASSUME NEW d \in Arrived, Promise(d, "publish") PROVE Promise(d, "commit")'
  BY <1>1, <1>4 DEF Promise, KindOf
<1> QED
  BY <1>1, <1>2, <1>3, <1>4, ContinuesStep DEF HookLists, HookSteps

\* The new version is committed, or its number or text is taken.
LEMMA CommitStep ==
  ASSUME HookLists, HookInv, NEW t \in HookThreads, Commit(t) PROVE HookLists' /\ HookInv'
<1>1. worker[t].pc = "commit" /\ UNCHANGED <<issue, rows, overtaken>>
  BY DEF Commit
<1> DEFINE taken == Len(versions) # worker[t].n \/ TextOf(worker[t].d) \in ToSet(versions)
<1>2. CASE taken
  BY <1>1, <1>2, RaisesStep DEF Commit, hookPlanVars
<1>3. CASE ~taken
  <2>1. versions' = Append(versions, TextOf(worker[t].d))
    BY <1>3 DEF Commit
  <2>2. PICK step \in HookSteps :
          Continues(t, step) /\ step = IF KindOf(worker[t].d) = "edited" THEN "queue" ELSE "approve"
    BY <1>3 DEF Commit, HookSteps
  <2>3. TextOf(worker[t].d) \in Int
    BY <1>1, Busy, DeliveryText
  <2>4. versions' \in Seq(Int) /\ Len(versions') = Len(versions) + 1 /\ Len(versions) \in Nat
        /\ (\A i \in DOMAIN versions : versions'[i] = versions[i])
        /\ versions'[Len(versions')] = TextOf(worker[t].d)
    BY <2>1, <2>3 DEF HookLists
  <2>5. versions' # <<>> /\ DOMAIN versions \subseteq DOMAIN versions' /\ Len(versions') \in DOMAIN versions'
    BY <2>4 DEF HookLists
  <2>6. Remembers /\ UNCHANGED deliveries
    BY <1>1, <2>2, <2>4, <2>5 DEF Remembers, Continues, Arrived
  <2>7. ASSUME NEW d \in Arrived, d = worker[t].d, Promise(d, "commit") PROVE Promise(d, step)'
    <3>1. IsVersion(d)'
      BY <2>4, <2>5, <2>6, <2>7 DEF IsVersion, TextOf
    <3>2. KindOf(d)' = KindOf(d) /\ KindOf(d) # "commented"
      BY <2>6, <2>7 DEF KindOf, Promise
    <3> QED
      BY <2>2, <2>7, <3>1, <3>2 DEF Promise
  <2> QED
    BY <1>1, <2>2, <2>4, <2>5, <2>6, <2>7, ContinuesStep DEF HookLists
<1> QED
  BY <1>2, <1>3

\* The event is queued.
LEMMA QueueStep ==
  ASSUME HookLists, HookInv, NEW t \in HookThreads, Queue(t) PROVE HookLists' /\ HookInv'
<1>1. worker[t].pc = "queue" /\ UNCHANGED <<issue, versions, overtaken, deliveries>> /\ rows \subseteq rows'
  BY DEF Queue, Record, Returns, Continues, hookPlanVars
<1>2. Remembers
  BY <1>1 DEF Remembers, Arrived
<1>3. CASE KindOf(worker[t].d) = "commented"
  <2>1. Continues(t, "comment") /\ rows' = rows \union {<<"event", worker[t].d>>}
    BY <1>3 DEF Queue, Record
  <2>2. ASSUME NEW d \in Arrived, d = worker[t].d PROVE Promise(d, "comment")'
    BY <1>1, <1>3, <2>1, <2>2 DEF Promise, KindOf
  <2> QED
    BY <1>1, <1>2, <2>1, <2>2, ContinuesStep DEF HookLists, HookSteps
<1>4. CASE KindOf(worker[t].d) # "commented"
  <2>1. Returns(t)
    BY <1>4 DEF Queue
  <2>2. ASSUME NEW d \in Arrived, d = worker[t].d, Promise(d, "queue") PROVE Recorded(d)'
    <3>1. CASE KindOf(d) = "edited"
      <4>1. rows' = rows \union {<<"event", d>>}
        BY <2>2, <3>1 DEF Queue, Record
      <4>2. IsVersion(d)'
        BY <1>1, <2>2, <3>1 DEF Promise, IsVersion, TextOf
      <4>3. RowsOf(d)' = {<<"event", d>>}
        BY <1>1, <3>1 DEF RowsOf, KindOf
      <4> QED
        BY <4>1, <4>2, <4>3 DEF Recorded
    <3>2. CASE KindOf(d) # "edited"
      BY <1>2, <1>4, <2>2, <3>2, OwesNothing DEF Owing
    <3> QED
      BY <3>1, <3>2
  <2> QED
    BY <1>1, <1>2, <2>1, <2>2, ReturnsStep
<1> QED
  BY <1>3, <1>4

\* The comment is recorded.
LEMMA CommentStep ==
  ASSUME HookLists, HookInv, NEW t \in HookThreads, Comment(t) PROVE HookLists' /\ HookInv'
<1>1. /\ worker[t].pc = "comment" /\ UNCHANGED <<issue, versions, overtaken, deliveries>>
      /\ rows' = rows \union {<<"comment", worker[t].d>>} /\ Returns(t)
  BY DEF Comment, Record, Returns, hookPlanVars
<1>2. Remembers
  BY <1>1 DEF Remembers, Arrived
<1>3. ASSUME NEW d \in Arrived, d = worker[t].d, Promise(d, "comment") PROVE Recorded(d)'
  <2>1. CASE KindOf(d) = "commented"
    <3>1. RowsOf(d)' = {<<"event", d>>, <<"comment", d>>} /\ KindOf(d)' = "commented"
      BY <1>1, <2>1 DEF RowsOf, KindOf
    <3>2. <<"event", d>> \in rows
      BY <1>3, <2>1 DEF Promise
    <3> QED
      BY <1>1, <1>3, <3>1, <3>2 DEF Recorded
  <2>2. CASE KindOf(d) # "commented"
    BY <1>2, <1>3, <2>2, OwesNothing DEF Owing, Promise
  <2> QED
    BY <2>1, <2>2
<1> QED
  BY <1>1, <1>2, <1>3, ReturnsStep

\* The label is set after a comment, which GitHub reports.
LEMMA LabelStep ==
  ASSUME HookLists, HookInv, NEW t \in HookThreads, Label(t) PROVE HookLists' /\ HookInv'
<1>1. /\ worker[t].pc = "label" /\ Goes(t, "check")
      /\ UNCHANGED <<issue, versions, rows, admitted, overtaken>>
  BY DEF Label, hookPlanVars
<1>2. t \in Threads /\ t # Luna
  BY WebhooksAssumption DEF Threads
<1>3. Reports("labeled", issue, "owner") \/ UNCHANGED <<deliveries, response>>
  BY DEF Label
<1>4. /\ deliveries' \in Seq(Delivery) /\ response' \in Seq(Views)
      /\ Len(response') = Len(deliveries')
      /\ Arrived \subseteq Arrived' /\ \A d \in Arrived : deliveries'[d] = deliveries[d]
      /\ \A d \in Arrived : response'[d] = response[d]
      /\ \A d \in Arrived' \ Arrived : response'[d] = "due"
  <2>1. CASE Reports("labeled", issue, "owner")
    BY <2>1, Reported DEF HookLists, DeliveryKinds
  <2>2. CASE UNCHANGED <<deliveries, response>>
    BY <2>2 DEF HookLists, Arrived
  <2> QED
    BY <1>3, <2>1, <2>2
<1>5. Remembers /\ Hears(t)
  BY <1>1, <1>4 DEF Remembers, Hears
<1>6. PICK d \in Arrived : d = worker[t].d /\ d \in admitted /\ d # 0 /\ Promise(d, worker[t].pc)
  BY <1>1, Busy
<1>7. \A step : Promise(d, step)'
  BY <1>1, <1>5, <1>6, OwesNothing, OwingIsPast
<1>8. /\ worker' \in [Threads -> HookTask] /\ worker'[t].d = worker[t].d /\ worker'[t].pc = "check"
      /\ \A u \in Threads \ {t} : worker'[u] = worker[u]
  BY <1>1, <1>2, GoesStep DEF HookSteps
<1>9. Handles(t)
  BY <1>1, <1>6, <1>7, <1>8 DEF Handles
<1>10. HookLists'
  BY <1>1, <1>4, <1>8 DEF HookLists
<1> QED
  BY <1>1, <1>2, <1>5, <1>6, <1>8, <1>9, <1>10, ThreadStep

\* Every step of a handler.
LEMMA HandlerStep ==
  ASSUME HookLists, HookInv, NEW t \in HookThreads, HandlerSteps(t) PROVE HookLists' /\ HookInv'
BY CallFailsStep, ReadStep, FreeSteps, ApproveStep, CheckStep, PublishStep, CommitStep, QueueStep,
   CommentStep, LabelStep DEF HandlerSteps

\* A step of GitHub, of its users or of Luna takes no delivery from a thread.
LEMMA QuietStep ==
  ASSUME HookLists, HookInv, UNCHANGED <<admitted, versions, overtaken>>, rows \subseteq rows',
         issue' \in Int, worker' \in [Threads -> HookTask], worker'[Luna].d = 0,
         \A u \in HookThreads : worker'[u] = worker[u],
         deliveries' \in Seq(Delivery), response' \in Seq(Views), Len(response') = Len(deliveries'),
         Arrived \subseteq Arrived', \A d \in Arrived : deliveries'[d] = deliveries[d],
         \A d \in Arrived : response'[d] = response[d] \/ response'[d] # "answered",
         \A d \in Arrived' \ Arrived : response'[d] # "answered"
  PROVE  HookLists' /\ HookInv'
<1>1. HookLists'
  BY DEF HookLists
<1>2. Remembers
  BY DEF Remembers
<1>3. Hears(Luna)
  BY DEF Hears
<1>4. Luna \in Threads /\ \A u \in Threads \ {Luna} : worker'[u] = worker[u]
  BY DEF Threads
<1> QED
  BY <1>1, <1>2, <1>3, <1>4, ThreadStep

\* The owner acts on GitHub, which reports it.
LEMMA OwnerActsStep ==
  ASSUME HookLists, HookInv, NEW kind \in OwnerKinds, OwnerActs(kind) PROVE HookLists' /\ HookInv'
<1>1. issue' \in Int /\ kind \in DeliveryKinds
  BY WebhooksAssumption DEF OwnerActs, HookLists
<1>2. PICK text \in Int : text = issue'
  BY <1>1
<1>3. Reports(kind, text, "owner") /\ UNCHANGED <<admitted, versions, overtaken, rows, worker>>
  BY <1>2 DEF OwnerActs, hookPlanVars
<1>4. /\ deliveries' \in Seq(Delivery) /\ response' \in Seq(Views)
      /\ Len(response') = Len(deliveries')
      /\ Arrived \subseteq Arrived' /\ \A d \in Arrived : deliveries'[d] = deliveries[d]
      /\ \A d \in Arrived : response'[d] = response[d]
      /\ \A d \in Arrived' \ Arrived : response'[d] = "due"
  BY <1>1, <1>3, Reported
<1>5. worker' \in [Threads -> HookTask] /\ worker'[Luna].d = 0
  BY <1>3 DEF HookLists, HookInv, LunaHasNone
<1> QED
  BY <1>1, <1>3, <1>4, <1>5, QuietStep

\* Luna takes the label off, which GitHub reports.
LEMMA ReplanStep == ASSUME HookLists, HookInv, Replan PROVE HookLists' /\ HookInv'
<1>1. Goes(Luna, "reopen") /\ UNCHANGED <<issue, admitted, versions, overtaken, rows>>
  BY DEF Replan, hookPlanVars
<1>2. /\ deliveries' \in Seq(Delivery) /\ response' \in Seq(Views)
      /\ Len(response') = Len(deliveries')
      /\ Arrived \subseteq Arrived' /\ \A d \in Arrived : deliveries'[d] = deliveries[d]
      /\ \A d \in Arrived : response'[d] = response[d]
      /\ \A d \in Arrived' \ Arrived : response'[d] = "due"
  <2>1. CASE Reports("unlabeled", issue, "luna")
    BY <2>1, Reported DEF HookLists, DeliveryKinds
  <2>2. CASE UNCHANGED <<deliveries, response>>
    BY <2>2 DEF HookLists, Arrived
  <2> QED
    BY <2>1, <2>2 DEF Replan
<1>3. /\ worker' \in [Threads -> HookTask] /\ worker'[Luna].d = 0
      /\ \A u \in HookThreads : worker'[u] = worker[u]
  BY <1>1, GoesStep, WebhooksAssumption DEF Threads, HookSteps, HookInv, LunaHasNone
<1>4. issue' \in Int /\ \A d \in Arrived' \ Arrived : response'[d] # "answered"
  BY <1>1, <1>2 DEF HookLists
<1> QED
  BY <1>1, <1>2, <1>3, <1>4, QuietStep

\* Luna's thread opens the plan again and gives notice.
LEMMA LunaStep == ASSUME HookLists, HookInv, Reopen(Luna) \/ Notice(Luna) PROVE HookLists' /\ HookInv'
<1>1. UNCHANGED <<issue, deliveries, admitted, versions, overtaken>> /\ rows \subseteq rows'
      /\ (Returns(Luna) \/ Continues(Luna, "notice"))
  BY DEF Reopen, Notice, Record, Returns, Continues, hookPlanVars
<1>2. Luna \in Threads /\ Luna \notin HookThreads /\ HookThreads \subseteq Threads
  BY WebhooksAssumption DEF Threads
<1>3. /\ worker' \in [Threads -> HookTask] /\ worker'[Luna].d = 0
      /\ \A u \in HookThreads : worker'[u] = worker[u]
  <2>1. CASE Returns(Luna)
    BY <1>2, <2>1, IdleStep DEF Returns, Idle
  <2>2. CASE Continues(Luna, "notice")
    BY <1>2, <2>2, GoesStep DEF Continues, HookSteps, HookInv, LunaHasNone
  <2> QED
    BY <1>1, <2>1, <2>2
<1>4. /\ response' \in Seq(Views) /\ Len(response') = Len(deliveries')
      /\ \A d \in Arrived : response'[d] = response[d]
  <2>1. CASE Returns(Luna)
    <3>1. worker[Luna].d = 0 /\ 0 \notin Arrived
      BY DEF HookInv, LunaHasNone, Arrived
    <3> QED
      BY <2>1, <3>1, Answered DEF Returns, Views
  <2>2. CASE Continues(Luna, "notice")
    BY <2>2 DEF Continues, HookLists
  <2> QED
    BY <1>1, <2>1, <2>2
<1>5. issue' \in Int /\ deliveries' \in Seq(Delivery) /\ Arrived' = Arrived
  BY <1>1 DEF HookLists, Arrived
<1> QED
  BY <1>1, <1>3, <1>4, <1>5, QuietStep

\* GitHub gives up a delivery.
LEMMA GivesUpStep ==
  ASSUME HookLists, HookInv, NEW d \in Arrived, GitHubGivesUp(d) PROVE HookLists' /\ HookInv'
<1>1. UNCHANGED <<issue, deliveries, admitted, worker, versions, overtaken, rows>>
  BY DEF GitHubGivesUp, hookPlanVars
<1>2. /\ response' \in Seq(Views) /\ Len(response') = Len(deliveries')
      /\ \A e \in Arrived : response'[e] = response[e] \/ response'[e] # "answered"
  BY <1>1 DEF GitHubGivesUp, HookLists, Arrived, Views
<1>3. issue' \in Int /\ deliveries' \in Seq(Delivery) /\ Arrived' = Arrived
      /\ worker' \in [Threads -> HookTask] /\ worker'[Luna].d = 0
  BY <1>1 DEF HookLists, Arrived, HookInv, LunaHasNone
<1> QED
  BY <1>1, <1>2, <1>3, QuietStep

\* Nothing is recorded or forgotten while a delivery is admitted.
LEMMA SameRecords ==
  ASSUME UNCHANGED <<deliveries, versions, rows>>
  PROVE  /\ Arrived' = Arrived
         /\ \A d : Recorded(d)' <=> Recorded(d)
         /\ \A d, step : Promise(d, step)' <=> Promise(d, step)
BY DEF Arrived, Recorded, RowsOf, IsVersion, KindOf, TextOf, Promise

\* A known identity is answered at once.
LEMMA AdmitAgain ==
  ASSUME HookLists, HookInv, NEW t \in HookThreads, NEW d \in Arrived, Admit(t, d), d \in admitted
  PROVE  HookLists' /\ HookInv'
<1>1. /\ response' = [response EXCEPT ![d] = "answered"]
      /\ overtaken' = overtaken \union {e \in {d} : \E u \in HookThreads : worker[u].d = e}
      /\ UNCHANGED <<deliveries, issue, versions, rows, admitted, worker>>
  BY DEF Admit, hookPlanVars
<1>2. /\ response' \in Seq(Views) /\ Len(response') = Len(deliveries')
      /\ \A e \in Arrived : response'[e] = response[e] \/ e = d
  BY <1>1 DEF HookLists, Arrived, Views
<1>3. HookLists'
  BY <1>1, <1>2 DEF HookLists
<1>4. d \in overtaken' \/ Recorded(d)
  BY <1>1 DEF HookInv, Settled
<1>5. AnsweredIsRecorded'
  <2> SUFFICES ASSUME NEW e \in Arrived, response'[e] = "answered", e \notin overtaken'
               PROVE  Recorded(e)
    BY <1>1, SameRecords DEF AnsweredIsRecorded, Recorded, IsVersion
  <2> QED
    BY <1>1, <1>2, <1>4 DEF HookInv, AnsweredIsRecorded, Recorded, IsVersion
<1>6. Handling' /\ LunaHasNone'
  BY <1>1, SameRecords DEF HookInv, Handling, Keeps, LunaHasNone
<1>7. Settled'
  BY <1>1, SameRecords DEF HookInv, Settled
<1> QED
  BY <1>3, <1>5, <1>6, <1>7 DEF HookInv

\* A new identity is admitted, and its handler begins.
LEMMA AdmitFirst ==
  ASSUME HookLists, HookInv, NEW t \in HookThreads, NEW d \in Arrived, Admit(t, d), d \notin admitted
  PROVE  HookLists' /\ HookInv'
<1> DEFINE job == [d |-> d, pc |-> FirstStep[KindOf(d)], n |-> 0]
<1>1. /\ worker[t] = Idle
      /\ response' = [response EXCEPT ![d] = "waiting"]
      /\ admitted' = admitted \union {d}
      /\ worker' = [worker EXCEPT ![t] = job]
      /\ UNCHANGED <<deliveries, issue, versions, rows, overtaken>>
  BY DEF Admit, hookPlanVars
<1>2. /\ response' \in Seq(Views) /\ Len(response') = Len(deliveries')
      /\ \A e \in Arrived : response'[e] = response[e] \/ response'[e] # "answered"
  BY <1>1 DEF HookLists, Arrived, Views
<1>3. KindOf(d) \in DeliveryKinds /\ d \in Nat /\ d # 0
  BY DeliveryText DEF Arrived
<1>4. FirstStep[KindOf(d)] \in HookSteps /\ Promise(d, FirstStep[KindOf(d)])
  BY <1>3 DEF DeliveryKinds, FirstStep, HookSteps, Promise
<1>5. job \in HookTask /\ job.d = d /\ job.pc = FirstStep[KindOf(d)]
  BY <1>3, <1>4 DEF HookTask
<1> HIDE DEF job
<1>6. worker \in [Threads -> HookTask] /\ t \in Threads /\ t # Luna
  BY WebhooksAssumption DEF HookLists, Threads
<1>7. worker' \in [Threads -> HookTask] /\ worker'[t] = job
      /\ \A u \in Threads \ {t} : worker'[u] = worker[u]
  BY <1>1, <1>5, <1>6
<1>8. HookLists'
  BY <1>1, <1>2, <1>7 DEF HookLists
<1>9. AnsweredIsRecorded'
  <2> SUFFICES ASSUME NEW e \in Arrived, response'[e] = "answered", e \notin overtaken'
               PROVE  Recorded(e)
    BY <1>1, SameRecords DEF AnsweredIsRecorded, Recorded, IsVersion
  <2> QED
    BY <1>1, <1>2 DEF HookInv, AnsweredIsRecorded, Recorded, IsVersion
<1>10. \A u \in HookThreads \ {t} : worker'[u] = worker[u] /\ worker[u].d # d
  BY <1>3, <1>7 DEF HookInv, Handling, Keeps, Threads
<1>11. Handling'
  <2>1. \A u \in HookThreads \ {t} : Keeps(u)'
    BY <1>1, <1>10, SameRecords DEF HookInv, Handling, Keeps
  <2>2. Keeps(t)'
    <3>1. PICK step : step = FirstStep[KindOf(d)]
      OBVIOUS
    <3>2. Promise(d, step)'
      BY <1>1, <1>4, <3>1, SameRecords
    <3> QED
      BY <1>1, <1>3, <1>5, <1>7, <3>1, <3>2 DEF Keeps
  <2>3. \A u, w \in HookThreads : worker'[u].d = worker'[w].d => u = w \/ worker'[u].d = 0
    BY <1>5, <1>7, <1>10 DEF HookInv, Handling
  <2> QED
    BY <1>1, <2>1, <2>2, <2>3, SameRecords DEF HookInv, Handling
<1>12. Settled'
  <2> SUFFICES ASSUME NEW e \in admitted, ~Recorded(e), e \notin overtaken
               PROVE  \E u \in HookThreads : worker'[u].d = e
    BY <1>1, <1>5, <1>7, SameRecords DEF Settled
  <2>1. PICK u \in HookThreads : worker[u].d = e
    BY DEF HookInv, Settled
  <2>2. e # 0
    BY DEF HookInv, Handling, Arrived
  <2> QED
    BY <1>1, <1>10, <2>1, <2>2 DEF Idle
<1>13. LunaHasNone'
  BY <1>6, <1>7 DEF HookInv, LunaHasNone, Threads
<1> QED
  BY <1>8, <1>9, <1>11, <1>12, <1>13 DEF HookInv

\* The gateway dies.
LEMMA HookCrashStep == ASSUME HookLists, HookInv, HookCrash PROVE HookLists' /\ HookInv'
<1> DEFINE next(e) == IF response[e] = "waiting" THEN "failed" ELSE response[e]
<1>1. /\ overtaken' = overtaken \union ({worker[t].d : t \in Threads} \ {0})
      /\ worker' = [t \in Threads |-> Idle]
      /\ response' = [e \in 1..Len(deliveries) |-> next(e)]
      /\ UNCHANGED <<deliveries, issue, versions, rows, admitted>>
  BY DEF HookCrash, hookPlanVars, Arrived
<1>2. \A e \in 1..Len(deliveries) : response[e] \in Views
  BY DEF HookLists
<1>3. \A e \in 1..Len(deliveries) : next(e) \in Views /\ (next(e) = response[e] \/ next(e) # "answered")
  BY <1>2 DEF Views
<1>4. Len(deliveries) \in Nat
  BY DEF HookLists
<1> HIDE DEF next
<1>5. response' \in Seq(Views) /\ Len(response') = Len(deliveries)
      /\ \A e \in 1..Len(deliveries) : response'[e] = next(e)
  BY <1>1, <1>3, <1>4
<1>6. Idle \in HookTask /\ Idle.d = 0 /\ Idle.pc = "idle"
  BY DEF Idle, HookTask, HookSteps
<1>7. worker' \in [Threads -> HookTask] /\ \A t \in Threads : worker'[t] = Idle
  BY <1>1, <1>6
<1>8. HookLists'
  BY <1>1, <1>5, <1>7 DEF HookLists
<1>9. AnsweredIsRecorded'
  <2> SUFFICES ASSUME NEW e \in Arrived, response'[e] = "answered", e \notin overtaken'
               PROVE  Recorded(e)
    BY <1>1, SameRecords DEF AnsweredIsRecorded, Recorded, IsVersion
  <2> QED
    BY <1>1, <1>3, <1>5 DEF HookInv, AnsweredIsRecorded, Recorded, IsVersion, Arrived
<1>10. Handling' /\ LunaHasNone'
  BY <1>1, <1>6, <1>7, SameRecords DEF HookInv, Handling, Keeps, LunaHasNone, Threads
<1>11. Settled'
  <2> SUFFICES ASSUME NEW e \in admitted, ~Recorded(e), e \notin overtaken
               PROVE  e \in overtaken'
    BY <1>1, SameRecords DEF Settled
  <2>1. PICK t \in HookThreads : worker[t].d = e
    BY DEF HookInv, Settled
  <2>2. e # 0 /\ t \in Threads
    BY DEF HookInv, Handling, Arrived, Threads
  <2> QED
    BY <1>1, <2>1, <2>2
<1> QED
  BY <1>8, <1>9, <1>10, <1>11 DEF HookInv

\* The types and the invariant hold in every state.
LEMMA HookInvariance == HookSpec => [](HookLists /\ HookInv)
<1>1. HookInit => HookLists /\ HookInv
  <2> SUFFICES ASSUME HookInit PROVE HookLists /\ HookInv
    OBVIOUS
  <2>1. Idle \in HookTask /\ Idle.d = 0 /\ Idle.pc = "idle"
    BY DEF Idle, HookTask, HookSteps
  <2>2. worker \in [Threads -> HookTask] /\ \A t \in Threads : worker[t] = Idle
    BY <2>1 DEF HookInit
  <2>3. HookLists /\ Arrived = {}
    BY <2>2 DEF HookInit, HookLists, Arrived
  <2> QED
    BY <2>1, <2>2, <2>3 DEF HookInit, HookInv, Handling, Keeps, Settled, LunaHasNone, AnsweredIsRecorded, Threads
<1>2. HookLists /\ HookInv /\ [HookNext]_hookVars => (HookLists /\ HookInv)'
  <2>1. ASSUME HookLists, HookInv, HookNext PROVE HookLists' /\ HookInv'
    BY <2>1, HookNextSteps, OwnerActsStep, GivesUpStep, AdmitAgain, AdmitFirst, HandlerStep, LunaStep,
       ReplanStep, HookCrashStep
  <2>2. ASSUME HookLists, HookInv, UNCHANGED hookVars PROVE HookLists' /\ HookInv'
    <3>1. UNCHANGED <<deliveries, response, issue, admitted, worker, versions, rows, overtaken>>
      BY <2>2 DEF hookVars, githubVars, hookPlanVars
    <3>2. HookLists' /\ Handling' /\ LunaHasNone' /\ Settled'
      BY <2>2, <3>1, SameRecords DEF HookLists, HookInv, Handling, Keeps, LunaHasNone, Settled
    <3>3. AnsweredIsRecorded'
      BY <2>2, <3>1 DEF HookInv, AnsweredIsRecorded, Arrived, RowsOf, KindOf, TextOf
    <3> QED
      BY <3>2, <3>3 DEF HookInv
  <2> QED
    BY <2>1, <2>2
<1> QED
  BY <1>1, <1>2, PTL DEF HookSpec

\* What GitHub takes for handled has had its effects, for any number of
\* threads, deliveries, failures and restarts.
THEOREM AnsweredIsRecordedHolds == HookSpec => []AnsweredIsRecorded
<1>1. HookInv => AnsweredIsRecorded
  BY DEF HookInv
<1> QED
  BY <1>1, HookInvariance, PTL

-----------------------------------------------------------------------------
(* The types of Webhooks. *)

GitHubTyped ==
  /\ Len(deliveries) <= MaxDeliveries /\ \A d \in Arrived : TextOf(d) \in Texts
  /\ issue \in Texts /\ label \in BOOLEAN

\* A text is a version once, so that there are no more versions than texts.
VersionsTyped ==
  /\ versions \in Seq(Texts)
  /\ \A i, j \in DOMAIN versions : versions[i] = versions[j] => i = j

ApprovalTyped ==
  /\ approved \in {0} \union Arrived /\ phase \in {"review", "accepted", "decomposed"}
  /\ issued \subseteq Texts /\ registered \in {-1} \union Texts

RowKinds == {"event", "comment", "approval", "removed"}

LogTyped ==
  /\ overtaken \subseteq Arrived /\ rows \subseteq RowKinds \X (0..MaxDeliveries)
  /\ faults \in 0..MaxHookFaults

VersionRead == \A t \in Threads : worker[t].n \in 0..(MaxDeliveries + 1)

\* What GitHub reports has a text, and there is room for it.
LEMMA ReportTyped ==
  ASSUME HookLists, GitHubTyped, NEW kind \in DeliveryKinds, NEW text \in Texts, NEW by \in {"owner", "luna"},
         Reports(kind, text, by)
  PROVE  /\ Len(deliveries') <= MaxDeliveries /\ \A d \in Arrived' : TextOf(d)' \in Texts
         /\ Arrived \subseteq Arrived' /\ \A d \in Arrived : TextOf(d)' = TextOf(d)
<1> DEFINE new == [kind |-> kind, text |-> text, by |-> by]
<1>1. new \in Delivery /\ new.text = text
  BY WebhooksAssumption DEF Delivery, Texts
<1>2. deliveries' = Append(deliveries, new) /\ Len(deliveries) < MaxDeliveries
  BY DEF Reports
<1> HIDE DEF new
<1>3. deliveries \in Seq(Delivery)
  BY DEF HookLists
<1>4. Len(deliveries') = Len(deliveries) + 1 /\ deliveries'[Len(deliveries) + 1] = new
      /\ \A d \in 1..Len(deliveries) : deliveries'[d] = deliveries[d]
  BY <1>1, <1>2, <1>3
<1>5. Len(deliveries) \in Nat /\ MaxDeliveries \in Nat
  BY <1>3, WebhooksAssumption
<1>6. \A d \in Arrived : TextOf(d)' = TextOf(d)
  BY <1>4 DEF Arrived, TextOf
<1>7. \A d \in Arrived' : d \in Arrived \/ d = Len(deliveries) + 1
  BY <1>4, <1>5 DEF Arrived
<1>8. Len(deliveries') <= MaxDeliveries /\ Arrived \subseteq Arrived'
  BY <1>2, <1>4, <1>5 DEF Arrived
<1>9. ASSUME NEW d \in Arrived', d \notin Arrived PROVE TextOf(d)' = text
  BY <1>1, <1>4, <1>7, <1>9 DEF TextOf
<1>10. \A d \in Arrived' : TextOf(d)' \in Texts
  BY <1>6, <1>9 DEF GitHubTyped
<1> QED
  BY <1>6, <1>8, <1>10

\* A handler that writes has a delivery that arrived.
LEMMA HandlerHas ==
  ASSUME HookLists, HookInv, GitHubTyped, NEW t \in HookThreads, worker[t].pc # "idle"
  PROVE  worker[t].d \in Arrived /\ TextOf(worker[t].d) \in Texts
BY Busy DEF GitHubTyped

\* Who reports something.
LEMMA WhoReports ==
  ASSUME HookLists, HookInv, GitHubTyped, [HookNext]_hookVars
  PROVE  /\ \/ UNCHANGED deliveries
            \/ \E kind \in DeliveryKinds, by \in {"owner", "luna"}, text \in Texts : Reports(kind, text, by)
         /\ issue' \in Texts /\ label' \in BOOLEAN
<1>1. CASE UNCHANGED <<deliveries, issue, label>>
  BY <1>1 DEF GitHubTyped
<1>2. ASSUME NEW kind \in OwnerKinds, OwnerActs(kind)
      PROVE  kind \in DeliveryKinds /\ issue' \in Texts /\ label' \in BOOLEAN /\ Reports(kind, issue', "owner")
  <2>1. Len(deliveries) \in Nat /\ MaxDeliveries \in Nat /\ Len(deliveries) < MaxDeliveries
    BY <1>2, WebhooksAssumption DEF HookLists, OwnerActs, Reports
  <2>2. issue' \in Texts /\ kind \in DeliveryKinds
    BY <1>2, <2>1, WebhooksAssumption DEF OwnerActs, GitHubTyped, Texts
  <2>3. label' \in BOOLEAN
    BY <1>2 DEF OwnerActs, GitHubTyped
  <2> QED
    BY <1>2, <2>2, <2>3 DEF OwnerActs
<1>3. ASSUME NEW t \in HookThreads, Label(t)
      PROVE  /\ issue' \in Texts /\ label' \in BOOLEAN
             /\ UNCHANGED deliveries \/ Reports("labeled", issue, "owner")
  BY <1>3 DEF Label, GitHubTyped
<1>4. CASE Replan
  <2>1. label' \in BOOLEAN /\ issue' \in Texts
    BY <1>4, Zenon DEF Replan, GitHubTyped
  <2>2. UNCHANGED deliveries \/ Reports("unlabeled", issue, "luna")
    BY <1>4 DEF Replan
  <2> QED
    BY <2>1, <2>2 DEF GitHubTyped, DeliveryKinds
<1>5. ASSUME NEW t \in HookThreads, Publish(t) PROVE UNCHANGED <<deliveries, label>> /\ issue' \in Texts
  <2>1. worker[t].pc = "publish" /\ issue' = TextOf(worker[t].d) /\ UNCHANGED <<deliveries, label>>
    BY <1>5 DEF Publish, Continues
  <2> QED
    BY <2>1, HandlerHas
<1>6. ASSUME NEW t \in Threads,
             \/ CallFails(t) \/ Read(t) \/ Check(t) \/ Commit(t) \/ Approve(t) \/ Children(t) \/ Decompose(t)
             \/ Register(t) \/ Reopen(t) \/ Notify(t) \/ Notice(t) \/ Queue(t) \/ Comment(t)
      PROVE  UNCHANGED <<deliveries, issue, label>>
  BY <1>6 DEF CallFails, Read, Check, Commit, Approve, Children, Decompose, Register, Reopen, Notify, Notice, Queue,
     Comment, Record, Returns, Raises, Continues
<1>7. ASSUME NEW t \in HookThreads, NEW d \in Arrived, Admit(t, d) PROVE UNCHANGED <<deliveries, issue, label>>
  BY <1>7 DEF Admit
<1>8. ASSUME NEW d \in Arrived, GitHubGivesUp(d) PROVE UNCHANGED <<deliveries, issue, label>>
  BY <1>8 DEF GitHubGivesUp
<1>9. HookCrash => UNCHANGED <<deliveries, issue, label>>
  BY DEF HookCrash
<1>10. UNCHANGED hookVars => UNCHANGED <<deliveries, issue, label>>
  BY DEF hookVars, githubVars
<1>11. CASE HookNext
  <2>1. \A t \in HookThreads : t \in Threads
    BY DEF Threads
  <2>2. CASE \E t \in HookThreads : HandlerSteps(t)
    <3>1. PICK t \in HookThreads : HandlerSteps(t)
      BY <2>2
    <3>2. CASE Label(t)
      BY <1>3, <3>2 DEF GitHubTyped, DeliveryKinds
    <3>3. CASE Publish(t)
      BY <1>5, <3>3 DEF GitHubTyped
    <3> QED
      BY <1>1, <1>6, <2>1, <3>1, <3>2, <3>3 DEF HandlerSteps
  <2>3. CASE \E kind \in OwnerKinds : OwnerActs(kind)
    BY <1>2, <2>3
  <2>4. CASE Reopen(Luna) \/ Notice(Luna)
    BY <1>1, <1>6, <2>4 DEF Threads
  <2> QED
    BY <1>1, <1>4, <1>7, <1>8, <1>9, <1>11, <2>2, <2>3, <2>4, HookNextSteps
<1> QED
  BY <1>1, <1>10, <1>11

\* What GitHub has keeps its type, and its deliveries their texts.
LEMMA GitHubStep ==
  ASSUME HookLists, HookInv, GitHubTyped, [HookNext]_hookVars
  PROVE  GitHubTyped' /\ Arrived \subseteq Arrived' /\ \A d \in Arrived : TextOf(d)' = TextOf(d)
<1>1. CASE UNCHANGED deliveries
  BY <1>1, WhoReports DEF GitHubTyped, Arrived, TextOf
<1>2. CASE \E kind \in DeliveryKinds, by \in {"owner", "luna"}, text \in Texts : Reports(kind, text, by)
  BY <1>2, WhoReports, ReportTyped DEF GitHubTyped
<1> QED
  BY <1>1, <1>2, WhoReports

\* There are no more versions than texts.
LEMMA VersionsAreFew == ASSUME VersionsTyped PROVE Len(versions) \in 0..(MaxDeliveries + 1)
<1>1. Len(versions) \in Nat /\ MaxDeliveries \in Nat /\ versions \in [1..Len(versions) -> Texts]
  BY WebhooksAssumption DEF VersionsTyped
<1>2. /\ IsFiniteSet(Texts) /\ Cardinality(Texts) = MaxDeliveries + 1
      /\ IsFiniteSet(1..Len(versions)) /\ Cardinality(1..Len(versions)) = Len(versions)
  <2>1. IsFiniteSet(0..MaxDeliveries)
        /\ Cardinality(0..MaxDeliveries) = IF 0 > MaxDeliveries THEN 0 ELSE MaxDeliveries - 0 + 1
    BY <1>1, FS_Interval
  <2>2. IsFiniteSet(1..Len(versions))
        /\ Cardinality(1..Len(versions)) = IF 1 > Len(versions) THEN 0 ELSE Len(versions) - 1 + 1
    BY <1>1, FS_Interval
  <2> QED
    BY <1>1, <2>1, <2>2 DEF Texts
<1>3. CASE MaxDeliveries + 1 < Len(versions)
  <2>1. \E i, j \in 1..Len(versions) : i # j /\ versions[i] = versions[j]
    BY <1>1, <1>2, <1>3, FS_PigeonHole
  <2> QED
    BY <1>1, <2>1 DEF VersionsTyped
<1> QED
  BY <1>1, <1>3

\* The versions are those of before, or one is added whose text is new.
LEMMA VersionsStep ==
  ASSUME HookLists, HookInv, GitHubTyped, VersionsTyped, [HookNext]_hookVars
  PROVE  VersionsTyped'
<1>1. ASSUME NEW t \in HookThreads, Commit(t), ~UNCHANGED versions PROVE VersionsTyped'
  <2>1. worker[t].pc = "commit"
    BY <1>1 DEF Commit
  <2>2. PICK text \in Texts : text = TextOf(worker[t].d)
    BY <2>1, HandlerHas
  <2>3. versions' = Append(versions, text) /\ text \notin ToSet(versions)
    BY <1>1, <2>2 DEF Commit, hookPlanVars
  <2>4. \A i \in DOMAIN versions : versions[i] # text
    BY <2>3 DEF ToSet
  <2>5. /\ versions' \in Seq(Texts) /\ Len(versions) \in Nat /\ Len(versions') = Len(versions) + 1
        /\ versions'[Len(versions) + 1] = text
        /\ \A i \in 1..Len(versions) : versions'[i] = versions[i]
    BY <2>2, <2>3 DEF VersionsTyped
  <2>6. \A i \in DOMAIN versions' : i \in DOMAIN versions \/ i = Len(versions) + 1
    BY <2>5
  <2>7. DOMAIN versions = 1..Len(versions)
    BY DEF VersionsTyped
  <2> QED
    BY <2>4, <2>5, <2>6, <2>7 DEF VersionsTyped
<1>2. ASSUME ~\E t \in HookThreads : Commit(t) PROVE UNCHANGED versions
  BY <1>2 DEF HookNext, OwnerActs, GitHubGivesUp, Admit, CallFails, Read, Label, Check, Publish, Approve,
     Children, Decompose, Register, Reopen, Notify, Notice, Comment, Record, Queue, Replan, HookCrash, hookVars, hookPlanVars
<1>3. UNCHANGED versions => VersionsTyped'
  BY DEF VersionsTyped
<1> QED
  BY <1>1, <1>2, <1>3

\* A handler remembers a version that there was.
LEMMA VersionReadStep ==
  ASSUME HookLists, HookInv, VersionsTyped, VersionRead, [HookNext]_hookVars
  PROVE  VersionRead'
<1>1. UNCHANGED worker => VersionRead'
  BY DEF VersionRead
<1>2. Idle \in HookTask /\ Idle.n = 0 /\ MaxDeliveries \in Nat /\ worker \in [Threads -> HookTask]
  BY WebhooksAssumption DEF Idle, HookTask, HookSteps, HookLists
<1>3. ASSUME NEW t \in Threads, NEW job \in HookTask, job.n \in 0..(MaxDeliveries + 1),
             worker' = [worker EXCEPT ![t] = job]
      PROVE  VersionRead'
  BY <1>2, <1>3 DEF VersionRead
<1>4. ASSUME NEW t \in Threads, NEW step \in HookSteps, Goes(t, step) PROVE VersionRead'
  <2> DEFINE job == [worker[t] EXCEPT !.pc = step]
  <2>1. worker[t] \in HookTask /\ worker[t].n \in 0..(MaxDeliveries + 1)
    BY <1>2 DEF VersionRead
  <2>2. job \in HookTask /\ job.n = worker[t].n
    BY <2>1 DEF HookTask
  <2>3. worker' = [worker EXCEPT ![t] = job]
    BY <1>4 DEF Goes
  <2> HIDE DEF job
  <2> QED
    BY <1>3, <2>1, <2>2, <2>3
<1>5. ASSUME NEW t \in Threads, Returns(t) \/ Raises(t) PROVE VersionRead'
  BY <1>2, <1>3, <1>5 DEF Returns, Raises
<1>6. ASSUME NEW t \in HookThreads, Check(t) PROVE VersionRead'
  <2>1. CASE \/ Raises(t) \/ Continues(t, "queue") \/ Continues(t, "approve")
    BY <1>4, <1>5, <2>1 DEF Continues, Threads, HookSteps
  <2>2. CASE worker' = [worker EXCEPT ![t] = [d |-> worker[t].d, pc |-> "publish", n |-> Len(versions)]]
    <3> DEFINE job == [d |-> worker[t].d, pc |-> "publish", n |-> Len(versions)]
    <3>1. worker[t] \in HookTask /\ t \in Threads
      BY <1>2 DEF Threads
    <3>2. worker[t].d \in Nat /\ Len(versions) \in 0..(MaxDeliveries + 1)
      BY <3>1, VersionsAreFew DEF HookTask
    <3>3. job \in HookTask /\ job.n = Len(versions)
      BY <3>2 DEF HookTask, HookSteps
    <3>4. worker' = [worker EXCEPT ![t] = job]
      BY <2>2
    <3> HIDE DEF job
    <3> QED
      BY <1>3, <3>1, <3>2, <3>3, <3>4
  <2> QED
    BY <1>6, <2>1, <2>2 DEF Check
<1>7. ASSUME NEW t \in HookThreads, NEW d \in Arrived, Admit(t, d) PROVE VersionRead'
  <2> DEFINE job == [d |-> d, pc |-> FirstStep[KindOf(d)], n |-> 0]
  <2>1. KindOf(d) \in DeliveryKinds /\ d \in Nat
    BY DeliveryText DEF Arrived
  <2>2. FirstStep[KindOf(d)] \in HookSteps
    BY <2>1 DEF FirstStep, HookSteps, DeliveryKinds
  <2>3. job \in HookTask /\ job.n = 0
    BY <2>1, <2>2 DEF HookTask
  <2>4. UNCHANGED worker \/ worker' = [worker EXCEPT ![t] = job]
    BY <1>7 DEF Admit
  <2>5. job.n \in 0..(MaxDeliveries + 1) /\ t \in Threads
    BY <1>2, <2>3 DEF Threads
  <2> HIDE DEF job
  <2> QED
    BY <1>1, <1>3, <2>3, <2>4, <2>5
<1>8. CASE HookCrash
  BY <1>2, <1>8 DEF HookCrash, VersionRead
<1>9. ASSUME NEW t \in Threads,
             \/ CallFails(t) \/ Read(t) \/ Label(t) \/ Publish(t) \/ Commit(t) \/ Approve(t) \/ Children(t)
             \/ Decompose(t) \/ Register(t) \/ Reopen(t) \/ Notify(t) \/ Notice(t) \/ Queue(t) \/ Comment(t)
      PROVE  VersionRead'
  <2>1. Returns(t) \/ Raises(t) \/ \E step \in HookSteps : Goes(t, step)
    BY <1>9 DEF CallFails, Read, Label, Publish, Commit, Approve, Children, Decompose, Register, Reopen, Notify, Notice,
       Queue, Comment, Record, Continues, HookSteps
  <2> QED
    BY <1>4, <1>5, <2>1
<1>10. CASE Replan
  BY <1>4, <1>10 DEF Replan, Threads, HookSteps
<1>11. UNCHANGED hookVars \/ (\E d \in Arrived : GitHubGivesUp(d)) \/ (\E kind \in OwnerKinds : OwnerActs(kind))
         => UNCHANGED worker
  BY DEF hookVars, GitHubGivesUp, OwnerActs
<1>12. \A t \in HookThreads : t \in Threads
  BY DEF Threads
<1> QED
  BY <1>1, <1>6, <1>7, <1>8, <1>9, <1>10, <1>11, <1>12, HookNextSteps DEF HandlerSteps, Threads

\* The approval names a delivery that arrived; what it created has a text.
LEMMA ApprovalStep ==
  ASSUME HookLists, HookInv, GitHubTyped, ApprovalTyped, [HookNext]_hookVars
  PROVE  ApprovalTyped'
<1>1. Arrived \subseteq Arrived'
  BY GitHubStep
<1>2. UNCHANGED <<approved, phase, issued, registered>> => ApprovalTyped'
  BY <1>1 DEF ApprovalTyped
<1>3. ASSUME NEW t \in HookThreads, Commit(t) \/ Decompose(t)
      PROVE  UNCHANGED <<approved, issued, registered>> /\ phase' \in {"review", "decomposed", phase}
  BY <1>3 DEF Commit, Decompose, hookPlanVars
<1>4. ASSUME NEW t \in HookThreads, Approve(t)
      PROVE  UNCHANGED <<issued, registered>> /\ approved' \in Arrived \union {approved} /\ phase' \in {"accepted", phase}
  <2>1. worker[t].d \in Arrived
    BY <1>4, HandlerHas DEF Approve
  <2> QED
    BY <1>4, <2>1 DEF Approve, hookPlanVars
<1>5. ASSUME NEW t \in HookThreads, Children(t)
      PROVE  UNCHANGED <<approved, phase, registered>> /\ issued' \subseteq Texts
  <2>1. TextOf(worker[t].d) \in Texts
    BY <1>5, HandlerHas DEF Children
  <2> QED
    BY <1>5, <2>1 DEF Children, ApprovalTyped
<1>6. ASSUME NEW t \in HookThreads, Register(t)
      PROVE  UNCHANGED <<approved, phase, issued>> /\ registered' \in Texts \union {registered}
  <2>1. TextOf(worker[t].d) \in Texts
    BY <1>6, HandlerHas DEF Register
  <2> QED
    BY <1>6, <2>1 DEF Register
<1>7. ASSUME NEW t \in Threads, Reopen(t)
      PROVE  UNCHANGED <<issued, registered>> /\ approved' = 0 /\ phase' = "review"
  BY <1>7 DEF Reopen
<1>8. CASE \E t \in HookThreads : Commit(t) \/ Decompose(t) \/ Approve(t) \/ Children(t) \/ Register(t)
  BY <1>1, <1>3, <1>4, <1>5, <1>6, <1>8 DEF ApprovalTyped
<1>9. CASE \E t \in Threads : Reopen(t)
  BY <1>7, <1>9 DEF ApprovalTyped
<1>10. ASSUME ~\E t \in HookThreads : Commit(t) \/ Decompose(t) \/ Approve(t) \/ Children(t) \/ Register(t),
              ~\E t \in Threads : Reopen(t)
       PROVE  UNCHANGED <<approved, phase, issued, registered>>
  BY <1>10 DEF HookNext, OwnerActs, GitHubGivesUp, Admit, CallFails, Read, Label, Check, Publish,
     Notify, Notice, Comment, Record, Queue, Replan, HookCrash, hookVars, hookPlanVars
<1> QED
  BY <1>2, <1>8, <1>9, <1>10

\* A row is of a delivery; a delivery is overtaken that arrived.
LEMMA LogStep ==
  ASSUME HookLists, HookInv, GitHubTyped, LogTyped, [HookNext]_hookVars
  PROVE  LogTyped'
<1>1. Arrived \subseteq Arrived' /\ MaxDeliveries \in Nat /\ MaxHookFaults \in Nat
  BY GitHubStep, WebhooksAssumption
<1>2. \A t \in HookThreads : worker[t].d \in {0} \union Arrived
  BY DEF HookInv, Handling, Keeps
<1>3. worker[Luna].d = 0 /\ Arrived \subseteq 0..MaxDeliveries
  BY <1>1 DEF HookInv, LunaHasNone, Arrived, GitHubTyped, HookLists
<1>4. \A t \in Threads : worker[t].d \in {0} \union Arrived
  BY <1>2, <1>3 DEF Threads
<1>5. overtaken' \subseteq Arrived'
  <2>1. UNCHANGED overtaken \/ (\E t \in HookThreads, d \in Arrived : Admit(t, d)) \/ HookCrash
    BY DEF HookNext, OwnerActs, GitHubGivesUp, CallFails, Read, Label, Check, Publish, Commit, Approve, Children,
       Decompose, Register, Reopen, Notify, Notice, Comment, Record, Queue, Replan, hookVars
  <2>2. ASSUME NEW t \in HookThreads, NEW d \in Arrived, Admit(t, d) PROVE overtaken' \subseteq overtaken \union {d}
    BY <2>2 DEF Admit
  <2>3. HookCrash => overtaken' \subseteq overtaken \union Arrived
    BY <1>4 DEF HookCrash
  <2> QED
    BY <1>1, <2>1, <2>2, <2>3 DEF LogTyped
<1>6. rows' \subseteq RowKinds \X (0..MaxDeliveries)
  <2>1. ASSUME NEW t \in Threads, NEW step, NEW row \in RowKinds, Record(t, step, row)
        PROVE  rows' \subseteq RowKinds \X (0..MaxDeliveries)
    <3>0. 0 \in 0..MaxDeliveries
      BY <1>1
    <3>1. worker[t].d \in 0..MaxDeliveries
      BY <1>3, <1>4, <3>0, Zenon
    <3>2. PICK d \in 0..MaxDeliveries : d = worker[t].d
      BY <3>1
    <3>3. rows' = rows \union {<<row, d>>}
      BY <2>1, <3>2 DEF Record
    <3> QED
      BY <3>3 DEF LogTyped
  <2>2. ASSUME NEW t \in Threads, Notify(t) \/ Notice(t) \/ Comment(t) \/ Queue(t), ~UNCHANGED rows
        PROVE  \E step \in HookSteps, row \in RowKinds : Record(t, step, row)
    BY <2>2 DEF Notify, Notice, Comment, Queue, HookSteps, RowKinds
  <2>3. UNCHANGED rows \/ \E t \in Threads : Notify(t) \/ Notice(t) \/ Comment(t) \/ Queue(t)
    BY DEF HookNext, OwnerActs, GitHubGivesUp, Admit, CallFails, Read, Label, Check, Publish, Commit, Approve, Children,
       Decompose, Register, Reopen, Replan, HookCrash, hookVars, Threads
  <2> QED
    BY <2>1, <2>2, <2>3 DEF LogTyped
<1>7. faults' \in 0..MaxHookFaults
  <2>1. UNCHANGED faults \/ (faults < MaxHookFaults /\ faults' = faults + 1)
    BY DEF HookNext, OwnerActs, GitHubGivesUp, Admit, CallFails, Read, Label, Check, Publish, Commit, Approve, Children,
       Decompose, Register, Reopen, Notify, Notice, Comment, Record, Queue, Replan, HookCrash, hookVars
  <2> QED
    BY <1>1, <2>1 DEF LogTyped
<1> QED
  BY <1>5, <1>6, <1>7 DEF LogTyped

TypedDelivery == [kind : DeliveryKinds, text : Texts, by : {"owner", "luna"}]
TypedTask == [d : 0..MaxDeliveries, n : 0..(MaxDeliveries + 1), pc : HookSteps]

HookTypes == GitHubTyped /\ VersionsTyped /\ VersionRead /\ ApprovalTyped /\ LogTyped

\* What GitHub, its users and the threads have stays of its type: there are never
\* more versions than texts, and an approval, a row and an answer given too early
\* are of a delivery that arrived.
THEOREM HookTypeCorrect == HookSpec => []HookTypeOK
<1>1. HookInit => HookTypes
  <2> SUFFICES ASSUME HookInit PROVE HookTypes
    OBVIOUS
  <2>1. MaxDeliveries \in Nat /\ MaxHookFaults \in Nat
    BY WebhooksAssumption
  <2>2. Arrived = {} /\ Len(deliveries) = 0
    BY DEF HookInit, Arrived
  <2>3. GitHubTyped
    <3>1. issue = 0 /\ label \in BOOLEAN
      BY Zenon DEF HookInit
    <3>2. issue \in Texts /\ Len(deliveries) <= MaxDeliveries
      BY <2>1, <2>2, <3>1 DEF Texts
    <3> QED
      BY <2>2, <3>1, <3>2 DEF GitHubTyped
  <2>4. VersionsTyped
    BY <2>1 DEF HookInit, VersionsTyped, Texts
  <2>5. VersionRead
    BY <2>1 DEF HookInit, VersionRead, Idle
  <2>6. ApprovalTyped /\ LogTyped
    BY <2>1, <2>2 DEF HookInit, ApprovalTyped, LogTyped, Texts
  <2> QED
    BY <2>3, <2>4, <2>5, <2>6 DEF HookTypes
<1>2. HookLists /\ HookInv /\ HookTypes /\ [HookNext]_hookVars => HookTypes'
  BY GitHubStep, VersionsStep, VersionReadStep, ApprovalStep, LogStep DEF HookTypes
<1>3. HookLists /\ HookInv /\ HookTypes => HookTypeOK
  <2> SUFFICES ASSUME HookLists, HookInv, HookTypes PROVE HookTypeOK
    OBVIOUS
  <2>1. deliveries \in Seq(TypedDelivery)
    <3>1. deliveries \in Seq(Delivery)
      BY DEF HookLists
    <3>2. ASSUME NEW d \in DOMAIN deliveries PROVE deliveries[d] \in TypedDelivery
      <4>1. deliveries[d] \in Delivery /\ deliveries[d].text \in Texts
        BY <3>1 DEF HookTypes, GitHubTyped, Arrived, TextOf
      <4> QED
        BY <4>1 DEF Delivery, TypedDelivery
    <3> QED
      BY <3>1, <3>2
  <2>2. response \in [Arrived -> Views]
    BY DEF HookLists, Arrived
  <2>3. admitted \subseteq Arrived /\ overtaken \subseteq Arrived
    BY DEF HookInv, Handling, HookTypes, LogTyped
  <2>4. worker \in [Threads -> TypedTask]
    <3>1. worker \in [Threads -> HookTask] /\ MaxDeliveries \in Nat
      BY WebhooksAssumption DEF HookLists
    <3>2. ASSUME NEW t \in Threads PROVE worker[t] \in TypedTask
      <4>1. worker[t] \in HookTask /\ worker[t].n \in 0..(MaxDeliveries + 1)
        BY <3>1 DEF HookTypes, VersionRead
      <4>2. worker[t].d \in {0} \union Arrived
        BY DEF HookInv, Handling, Keeps, LunaHasNone, Threads
      <4>3. Arrived \subseteq 0..MaxDeliveries
        BY <3>1 DEF HookTypes, GitHubTyped, Arrived, HookLists
      <4>4. 0 \in 0..MaxDeliveries
        BY <3>1
      <4>5. worker[t].d \in 0..MaxDeliveries
        BY <4>2, <4>3, <4>4, Zenon
      <4> QED
        BY <4>1, <4>5 DEF HookTask, TypedTask
    <3> QED
      BY <3>1, <3>2
  <2>5. versions \in Seq(Texts) /\ Len(versions) \in 1..(MaxDeliveries + 1)
    <3>1. Len(versions) \in 0..(MaxDeliveries + 1) /\ versions # <<>> /\ versions \in Seq(Texts)
      BY VersionsAreFew DEF HookTypes, VersionsTyped, HookLists
    <3>2. Len(versions) # 0
      BY <3>1
    <3> QED
      BY <3>1, <3>2
  <2> QED
    BY <2>1, <2>2, <2>3, <2>4, <2>5 DEF HookTypeOK, HookTypes, GitHubTyped, ApprovalTyped, LogTyped, RowKinds, Views,
       TypedDelivery, TypedTask, HookSteps
<1> QED
  BY <1>1, <1>2, <1>3, HookInvariance, PTL DEF HookSpec

-----------------------------------------------------------------------------
(* RoomCommands.  Handlers run one at a time, and a message that is not    *)
(* interrupted is handled once: until its handler ends it is in calls, and *)
(* then its result is saved.                                               *)

\* The plans that m touched are p, if any.
OnlyTouched(m, p) == \A pair \in touched : pair[1] = m => pair[2] = p
Untouched(m) == \A pair \in touched : pair[1] # m

OneCall ==
  /\ inFlight \subseteq Sent
  /\ \A c, d \in calls : c = d
  /\ \A c \in calls :
       /\ c.m \in Sent
       /\ c = [m |-> c.m, pc |-> c.pc, plan |-> c.plan]
       /\ c.pc = "reply" => c.m \in saved
       /\ c.m \notin interrupted => IF c.pc = "effect" THEN Untouched(c.m) ELSE OnlyTouched(c.m, c.plan)

Paired == \A pair \in touched : pair = <<pair[1], pair[2]>> /\ pair[1] \in Sent

OnePlan == \A m \in Sent \ interrupted : \A f, g \in touched : f[1] = m /\ g[1] = m => f[2] = g[2]

Handled ==
  \A m \in Sent \ interrupted : m \in saved \/ (\E c \in calls : c.m = m) \/ Untouched(m)

\* What the owner sends and what he begins are lists.
Message == [command : Orders, to : Nat]
Lists == messages \in Seq(Message) /\ begun \in Seq(Nat)

RoomInv == OneCall /\ Paired /\ OnePlan /\ Handled

\* A call goes on to step, about plan p, which it may have touched.
Progress(c, step, p) ==
  /\ calls' = (calls \ {c}) \union {[m |-> c.m, pc |-> step, plan |-> p]}
  /\ step # "effect"
  /\ step = "reply" => c.m \in saved'
  /\ c.pc = "effect" \/ p = c.plan
  /\ touched' \in {touched, touched \union {<<c.m, p>>}}
  /\ UNCHANGED <<messages, inFlight, interrupted>> /\ saved \subseteq saved'

\* A call of the room goes on.
LEMMA CallGoesOn ==
  ASSUME RoomInv, NEW c \in calls, NEW step, NEW p, Progress(c, step, p)
  PROVE  RoomInv'
<1> USE DEF Progress
<1> DEFINE d == [m |-> c.m, pc |-> step, plan |-> p]
<1>1. calls' = {d} /\ d.m = c.m /\ d.pc = step /\ d.plan = p /\ c.m \in Sent /\ Sent' = Sent
  BY DEF RoomInv, OneCall, Sent
<1>2. c.m \notin interrupted => OnlyTouched(c.m, p)
  BY DEF RoomInv, OneCall, OnlyTouched, Untouched
<1>3. \A pair \in touched' : pair \in touched \/ (pair = <<c.m, p>> /\ pair[1] = c.m /\ pair[2] = p)
  OBVIOUS
<1>4. c.m \notin interrupted => OnlyTouched(c.m, p)'
  BY <1>2, <1>3 DEF OnlyTouched
<1>5. OneCall'
  BY <1>1, <1>4 DEF RoomInv, OneCall
<1>6. Paired'
  BY <1>1, <1>3 DEF RoomInv, Paired
<1>7. OnePlan'
  <2> SUFFICES ASSUME NEW m \in Sent \ interrupted, NEW f \in touched', NEW g \in touched',
                      f[1] = m, g[1] = m
               PROVE  f[2] = g[2]
    BY <1>1 DEF OnePlan
  <2>1. CASE m = c.m
    BY <1>4, <2>1 DEF OnlyTouched
  <2>2. CASE m # c.m
    BY <1>3, <2>2 DEF RoomInv, OnePlan
  <2> QED
    BY <2>1, <2>2
<1>8. Handled'
  <2> SUFFICES ASSUME NEW m \in Sent \ interrupted, m \notin saved', m # c.m
               PROVE  Untouched(m)'
    BY <1>1 DEF Handled
  <2>1. Untouched(m)
    BY DEF RoomInv, Handled, OneCall
  <2> QED
    BY <1>3, <2>1 DEF Untouched
<1> QED
  BY <1>5, <1>6, <1>7, <1>8 DEF RoomInv

\* A call ends: its result is saved, or its handler failed.
LEMMA CallEnds ==
  ASSUME RoomInv, calls' = {}, inFlight' \subseteq inFlight, UNCHANGED <<messages, saved, touched>>,
         interrupted \subseteq interrupted',
         \A c \in calls : c.m \in saved \/ c.m \in interrupted'
  PROVE  RoomInv'
<1>1. Sent' = Sent
  BY DEF Sent
<1>2. OneCall' /\ Paired' /\ OnePlan'
  BY <1>1 DEF RoomInv, OneCall, Paired, OnePlan
<1>3. Handled'
  BY <1>1 DEF RoomInv, Handled, Untouched
<1> QED
  BY <1>2, <1>3 DEF RoomInv

\* A call that begins a plan is about it from then on.
LEMMA OfNewPlan ==
  ASSUME NEW c, c = [m |-> c.m, pc |-> c.pc, plan |-> c.plan]
  PROVE  [c EXCEPT !.plan = c.m, !.pc = "note"] = [m |-> c.m, pc |-> "note", plan |-> c.m]
<1> DEFINE d == [c EXCEPT !.plan = c.m, !.pc = "note"]
<1>1. DOMAIN c = {"m", "pc", "plan"}
  OBVIOUS
<1>2. d = [x \in {"m", "pc", "plan"} |-> IF x = "pc" THEN "note" ELSE IF x = "plan" THEN c.m ELSE c[x]]
  BY <1>1
<1>3. d.m = c.m /\ d.pc = "note" /\ d.plan = c.m
  BY <1>2
<1> HIDE DEF d
<1>4. d = [m |-> c.m, pc |-> "note", plan |-> c.m]
  BY <1>2, <1>3
<1> QED
  BY <1>4 DEF d

\* A request gets the lock: the message is interrupted, was saved or is new.
LEMMA CallBegins ==
  ASSUME RoomInv, NEW m \in Sent, Takes(m)
  PROVE  RoomInv'
<1>1. inFlight' \subseteq inFlight /\ calls = {} /\ UNCHANGED <<messages, saved, touched>> /\ Sent' = Sent
  BY DEF Takes, plansVars, Sent
<1>2. CASE calls' = {} /\ interrupted \subseteq interrupted'
  BY <1>1, <1>2, CallEnds
<1>3. CASE m \notin saved /\ UNCHANGED interrupted
           /\ \E step \in {"save", "effect"} : \E p : calls' = {[m |-> m, pc |-> step, plan |-> p]}
  <2>1. PICK step \in {"save", "effect"} : \E p : calls' = {[m |-> m, pc |-> step, plan |-> p]}
    BY <1>3
  <2>2. PICK p : calls' = {[m |-> m, pc |-> step, plan |-> p]}
    BY <2>1
  <2>3. m \in interrupted \/ Untouched(m)
    BY <1>1, <1>3 DEF RoomInv, Handled
  <2>4. OneCall'
    BY <1>1, <1>3, <2>2, <2>3 DEF RoomInv, OneCall, OnlyTouched, Untouched
  <2>5. Paired' /\ OnePlan' /\ Handled'
    BY <1>1, <1>3 DEF RoomInv, Paired, OnePlan, Handled, Untouched
  <2> QED
    BY <2>4, <2>5 DEF RoomInv
<1> QED
  BY <1>1, <1>2, <1>3 DEF Takes, Resolves

\* The lists of the room are typed after every step.
LEMMA ListsStep == ASSUME Lists, OneCall, RoomNext PROVE Lists'
<1>1. CASE \E command \in Orders, to \in {0} \union ToSet(begun) : Says(command, to)
  <2>1. PICK command \in Orders, to \in {0} \union ToSet(begun) : Says(command, to)
    BY <1>1
  <2>2. [command |-> command, to |-> to] \in Message
    BY DEF Message, ToSet, Lists
  <2> QED
    BY <2>1, <2>2 DEF Says, plansVars, Lists
<1>2. ASSUME NEW c \in calls, BeginsPlan(c) PROVE Lists'
  <2>1. c.m \in Nat
    BY DEF OneCall, Sent
  <2> QED
    BY <1>2, <2>1 DEF BeginsPlan, Lists
<1>3. CASE UNCHANGED <<messages, begun>>
  BY <1>3 DEF Lists
<1> QED
  BY <1>1, <1>2, <1>3
  DEF RoomNext, Replays, Takes, Answer, Remark, Draft, Stop, Instructs, Wake, Note, Ask,
      Decide, PlannerFails, Fails, Save, Reply, RoomCrash, plansVars

\* The owner sends a message, or one is forwarded again.
LEMMA MessageComes ==
  ASSUME Lists, RoomInv, UNCHANGED <<calls, saved, touched, interrupted>>,
         \/ \E m : messages' = Append(messages, m) /\ inFlight' = inFlight \union {Len(messages) + 1}
         \/ messages' = messages /\ \E m \in Sent : inFlight' = inFlight \union {m}
  PROVE  RoomInv'
<1>1. inFlight' \subseteq Sent' /\ Sent \subseteq Sent'
  BY DEF Lists, RoomInv, OneCall, Sent
<1>2. \A m \in Sent' : m \in Sent \/ Untouched(m)
  BY DEF RoomInv, Paired, Untouched
<1>3. OneCall' /\ Paired'
  BY <1>1 DEF RoomInv, OneCall, Paired, OnlyTouched, Untouched
<1>4. OnePlan' /\ Handled'
  BY <1>1, <1>2 DEF RoomInv, OnePlan, Handled, Untouched
<1> QED
  BY <1>3, <1>4 DEF RoomInv

\* Every step of the room keeps the invariant.
LEMMA RoomStep == ASSUME Lists, RoomInv, RoomNext PROVE RoomInv'
<1>1. CASE \E command \in Orders, to \in {0} \union ToSet(begun) : Says(command, to)
  BY <1>1, MessageComes DEF Says, plansVars, replyVars
<1>2. CASE \E m \in Sent : Replays(m)
  BY <1>2, MessageComes DEF Replays, plansVars, replyVars
<1>3. CASE \E m \in Sent : Takes(m)
  BY <1>3, CallBegins
<1>4. CASE RoomCrash
  BY <1>4, CallEnds DEF RoomCrash, replyVars
<1>5. ASSUME NEW c \in calls, Reply(c) PROVE RoomInv'
  <2>1. calls' = {} /\ c.pc = "reply"
    BY <1>5 DEF Reply, RoomInv, OneCall
  <2>2. \A d \in calls : d.m \in saved
    BY <1>5, <2>1 DEF RoomInv, OneCall
  <2> QED
    BY <1>5, <2>1, <2>2, CallEnds DEF Reply, plansVars
<1>6. ASSUME NEW c \in calls, Fails(c) PROVE RoomInv'
  <2>1. calls' = {} /\ \A d \in calls : d.m \in interrupted'
    BY <1>6 DEF Fails, RoomInv, OneCall
  <2>2. inFlight' \subseteq inFlight /\ interrupted \subseteq interrupted'
        /\ UNCHANGED <<messages, saved, touched>>
    BY <1>6 DEF Fails, replyVars
  <2>3. \A d \in calls : d.m \in saved \/ d.m \in interrupted'
    BY <2>1
  <2> QED
    BY <2>1, <2>2, <2>3, CallEnds
<1>7. ASSUME NEW c \in calls, BeginsPlan(c) PROVE RoomInv'
  <2>1. c = [m |-> c.m, pc |-> c.pc, plan |-> c.plan]
    BY DEF RoomInv, OneCall
  <2>2. [c EXCEPT !.plan = c.m, !.pc = "note"] = [m |-> c.m, pc |-> "note", plan |-> c.m]
    BY <2>1, OfNewPlan, Zenon
  <2>3. Progress(c, "note", c.m)
    BY <1>7, <2>2 DEF BeginsPlan, Touches, Progress, replyVars
  <2> QED
    BY <2>3, CallGoesOn
<1>8. ASSUME NEW c \in calls, NEW step PROVE [c EXCEPT !.pc = step] = [m |-> c.m, pc |-> step, plan |-> c.plan]
  BY DEF RoomInv, OneCall
<1>9. ASSUME NEW c \in calls, Answer(c) PROVE Progress(c, "note", c.plan)
  BY <1>8, <1>9 DEF Answer, GoesTo, Progress, replyVars
<1>10. ASSUME NEW c \in calls, Remark(c) PROVE Progress(c, "save", c.plan)
  BY <1>8, <1>10 DEF Remark, GoesTo, Progress, Touches, replyVars
<1>11. ASSUME NEW c \in calls, Stop(c) \/ Instructs(c) PROVE Progress(c, "wake", c.plan)
  BY <1>8, <1>11 DEF Stop, Instructs, GoesTo, Progress, Touches, replyVars
<1>12. ASSUME NEW c \in calls, Draft(c) PROVE Fails(c) \/ Progress(c, "ask", c.plan)
  BY <1>8, <1>12 DEF Draft, GoesTo, Progress, replyVars
<1>13. ASSUME NEW c \in calls, Wake(c) PROVE Progress(c, "save", c.plan)
  BY <1>8, <1>13 DEF Wake, GoesTo, Progress, replyVars
<1>14. ASSUME NEW c \in calls, Note(c) PROVE Progress(c, "ask", c.plan)
  BY <1>8, <1>14 DEF Note, GoesTo, Progress, Touches, replyVars
<1>15. ASSUME NEW c \in calls, Ask(c) PROVE Progress(c, "decide", c.plan) \/ Progress(c, "save", c.plan)
  BY <1>8, <1>15 DEF Ask, GoesTo, Progress, Touches, replyVars
<1>16. ASSUME NEW c \in calls, NEW state \in {"intake", "review"}, Decide(c, state)
       PROVE  Fails(c) \/ Progress(c, "save", c.plan)
  BY <1>8, <1>16 DEF Decide, GoesTo, Progress, Touches, replyVars
<1>17. ASSUME NEW c \in calls, Save(c) PROVE Progress(c, "reply", c.plan)
  BY <1>8, <1>17 DEF Save, GoesTo, Progress
<1>18. ASSUME NEW c \in calls, \E step \in {"note", "save", "wake", "ask", "decide", "reply"} : Progress(c, step, c.plan)
       PROVE  RoomInv'
  BY <1>18, CallGoesOn
<1>19. CASE \E c \in calls : \/ Answer(c) \/ Remark(c) \/ Stop(c) \/ Instructs(c) \/ Draft(c)
                             \/ Wake(c) \/ Note(c) \/ Ask(c) \/ Save(c)
                             \/ \E state \in {"intake", "review"} : Decide(c, state)
  BY <1>6, <1>9, <1>10, <1>11, <1>12, <1>13, <1>14, <1>15, <1>16, <1>17, <1>18, <1>19
<1> QED
  BY <1>1, <1>2, <1>3, <1>4, <1>5, <1>6, <1>7, <1>19 DEF RoomNext, PlannerFails

\* The lists and the invariant hold in every state.
LEMMA RoomInvariance == RoomSpec => [](Lists /\ RoomInv)
<1>1. RoomInit => Lists /\ RoomInv
  BY DEF RoomInit, Lists, RoomInv, OneCall, Paired, OnePlan, Handled, Untouched, Sent
<1>2. Lists /\ RoomInv /\ [RoomNext]_roomVars => (Lists /\ RoomInv)'
  <2>1. CASE Lists /\ RoomInv /\ RoomNext
    BY <2>1, ListsStep, RoomStep DEF RoomInv
  <2>2. CASE Lists /\ RoomInv /\ UNCHANGED roomVars
    BY <2>2 DEF roomVars, plansVars, replyVars, Lists, RoomInv, OneCall, Paired, OnePlan, Handled,
                Untouched, OnlyTouched, Sent
  <2> QED
    BY <2>1, <2>2
<1> QED
  BY <1>1, <1>2, PTL DEF RoomSpec

\* A message is about one plan, however often it is forwarded and whatever plans
\* begin and end in between: for any number of messages, replays and crashes.
THEOREM OneMessageOnePlanHolds == RoomSpec => []OneMessageOnePlan
<1>1. RoomInv => OneMessageOnePlan
  <2> SUFFICES ASSUME RoomInv, NEW m \in Sent \ interrupted
               PROVE  Cardinality({pair \in touched : pair[1] = m}) <= 1
    BY DEF OneMessageOnePlan
  <2> DEFINE mine == {pair \in touched : pair[1] = m}
  <2>1. \A f, g \in mine : f = g
    BY DEF RoomInv, OnePlan, Paired
  <2>2. CASE mine = {}
    BY <2>2, FS_EmptySet
  <2>3. CASE mine # {}
    <3>1. PICK f \in mine : TRUE
      BY <2>3
    <3>2. mine = {f}
      BY <2>1, <3>1
    <3> QED
      BY <3>2, FS_Singleton
  <2> QED
    BY <2>2, <2>3
<1> QED
  BY <1>1, RoomInvariance, PTL

-----------------------------------------------------------------------------
(* The types of RoomCommands. *)

RoomStates == {"intake", "review", "needs_input", "cancelled"}
CallSteps == {"effect", "note", "ask", "decide", "wake", "save", "reply"}
Begun == ToSet(begun)

\* A message answers a plan that began; so many there are.
MessagesTyped == Len(messages) <= MaxMessages /\ \A m \in Sent : messages[m].to \in {0} \union Begun

\* A plan begins once, with a message.
BegunTyped ==
  /\ IsInjective(begun) /\ Begun \subseteq Sent
  /\ planState \in [Begun -> RoomStates] /\ plannerTurns \in [Begun -> 0..AstraCap]

\* Past its effect, a handler that writes to a plan has one.
CallsTyped ==
  \A c \in calls :
    /\ c.pc \in CallSteps /\ c.plan \in {0} \union Begun
    /\ c.pc \in {"note", "ask", "decide", "wake"} => c.plan # 0

WritesTyped ==
  /\ \A rowset \in {intake, comments, touched} : rowset \subseteq PairsOf(Sent)
  /\ \A sent \in {wakes, saved, replies, interrupted} : sent \subseteq Sent
  /\ roomFaults \in 0..MaxRoomFaults

\* A set of numbers up to one holds its greatest.
LEMMA LastOne ==
  ASSUME NEW n \in Nat, NEW S, S \subseteq 1..n, S # {}
  PROVE  Max(S) \in S
<1>1. \E x \in S : \A y \in S : y <= x
  BY LastOf
<1>2. \E x \in S : \A y \in S : x >= y
  BY <1>1
<1> QED
  BY <1>2 DEF Max

\* The active plan is one that began, if there is one.
LEMMA ActivePlanBegan == ASSUME Lists PROVE ActivePlan \in {0} \union Begun
<1> DEFINE open == {i \in DOMAIN begun : planState[begun[i]] # "cancelled"}
<1>1. CASE open = {}
  BY <1>1 DEF ActivePlan
<1>2. CASE open # {}
  <2>1. open \subseteq 1..Len(begun) /\ Len(begun) \in Nat
    BY DEF Lists
  <2>2. Max(open) \in open
    BY <1>2, <2>1, LastOne
  <2>3. ActivePlan = begun[Max(open)]
    BY <1>2 DEF ActivePlan
  <2> QED
    BY <2>2, <2>3 DEF Begun, ToSet
<1> QED
  BY <1>1, <1>2

\* Messages and plans are only added.
LEMMA RoomGrows ==
  ASSUME Lists, RoomInv, [RoomNext]_roomVars
  PROVE  /\ Sent \subseteq Sent' /\ Begun \subseteq Begun'
         /\ \A m \in Sent : messages'[m] = messages[m]
<1>1. CASE \E command \in Orders, to \in {0} \union ToSet(begun) : Says(command, to)
  <2>1. \E m : messages' = Append(messages, m) /\ UNCHANGED begun
    BY <1>1 DEF Says, plansVars
  <2> QED
    BY <2>1 DEF Lists, Sent, Begun, ToSet
<1>2. ASSUME NEW c \in calls, BeginsPlan(c) PROVE UNCHANGED messages /\ Begun \subseteq Begun'
  <2>1. UNCHANGED messages /\ (begun' = begun \/ begun' = Append(begun, c.m))
    BY <1>2 DEF BeginsPlan
  <2> QED
    BY <2>1 DEF Begun, ToSet, Lists
<1>3. CASE UNCHANGED <<messages, begun>>
  BY <1>3 DEF Sent, Begun, ToSet
<1> QED
  BY <1>1, <1>2, <1>3
  DEF RoomNext, Replays, Takes, Answer, Remark, Draft, Stop, Instructs, Wake, Note, Ask,
      Decide, PlannerFails, Fails, Save, Reply, RoomCrash, plansVars, roomVars, Sent

\* What is said answers a plan that began.
LEMMA MessagesStep ==
  ASSUME Lists, RoomInv, MessagesTyped, [RoomNext]_roomVars
  PROVE  MessagesTyped'
<1>1. /\ Sent \subseteq Sent' /\ Begun \subseteq Begun'
      /\ \A m \in Sent : messages'[m] = messages[m]
  BY RoomGrows
<1>2. CASE UNCHANGED messages
  BY <1>1, <1>2 DEF MessagesTyped, Sent
<1>3. ASSUME NEW command \in Orders, NEW to \in {0} \union ToSet(begun), Says(command, to) PROVE MessagesTyped'
  <2> DEFINE new == [command |-> command, to |-> to]
  <2>1. messages' = Append(messages, new) /\ Len(messages) < MaxMessages
    BY <1>3 DEF Says
  <2>2. new.to \in {0} \union Begun
    BY DEF Begun
  <2> HIDE DEF new
  <2>3. Len(messages) \in Nat /\ MaxMessages \in Nat
    BY RoomAssumption DEF Lists
  <2>4. Len(messages') = Len(messages) + 1 /\ messages'[Len(messages) + 1] = new
    BY <2>1 DEF Lists
  <2>5. \A m \in Sent' : m \in Sent \/ m = Len(messages) + 1
    BY <2>3, <2>4 DEF Sent
  <2>6. ASSUME NEW m \in Sent' PROVE messages'[m].to \in {0} \union Begun'
    <3>1. CASE m \in Sent
      BY <1>1, <3>1 DEF MessagesTyped
    <3>2. CASE m \notin Sent
      <4>1. messages'[m] = new
        BY <2>4, <2>5, <3>2
      <4> QED
        BY <1>1, <2>2, <4>1
    <3> QED
      BY <3>1, <3>2
  <2>7. Len(messages') <= MaxMessages
    BY <2>1, <2>3, <2>4
  <2> QED
    BY <2>6, <2>7 DEF MessagesTyped
<1>4. UNCHANGED messages \/ \E command \in Orders, to \in {0} \union ToSet(begun) : Says(command, to)
  BY DEF RoomNext, Replays, Takes, BeginsPlan, Answer, Remark, Draft, Stop, Instructs, Wake, Note, Ask,
      Decide, PlannerFails, Fails, Save, Reply, RoomCrash, roomVars
<1> QED
  BY <1>2, <1>3, <1>4

\* A plan's state and its planner's turns.
LEMMA BegunStep ==
  ASSUME Lists, RoomInv, BegunTyped, CallsTyped, [RoomNext]_roomVars
  PROVE  BegunTyped'
<1>1. Sent \subseteq Sent'
  BY RoomGrows
<1>2. CASE UNCHANGED <<begun, planState, plannerTurns>>
  BY <1>1, <1>2 DEF BegunTyped, Begun, ToSet, IsInjective
<1>3. ASSUME NEW c \in calls, BeginsPlan(c), c.m \notin Begun PROVE BegunTyped'
  <2>1. /\ begun' = Append(begun, c.m)
        /\ planState' = [p \in Begun' |-> IF p = c.m THEN "intake" ELSE planState[p]]
        /\ plannerTurns' = [p \in Begun' |-> IF p = c.m THEN 0 ELSE plannerTurns[p]]
    BY <1>3 DEF BeginsPlan, Begun
  <2>2. c.m \in Sent /\ c.m \in Nat
    BY DEF RoomInv, OneCall, Sent
  <2>3. Len(begun) \in Nat /\ Len(begun') = Len(begun) + 1 /\ begun'[Len(begun) + 1] = c.m
        /\ \A i \in 1..Len(begun) : begun'[i] = begun[i]
    BY <2>1, <2>2 DEF Lists
  <2>4. DOMAIN begun = 1..Len(begun) /\ DOMAIN begun' = 1..(Len(begun) + 1)
    BY <2>1, <2>2, <2>3 DEF Lists
  <2>5. \A i \in DOMAIN begun' : i \in DOMAIN begun \/ i = Len(begun) + 1
    BY <2>3, <2>4
  <2>6. Begun' = Begun \union {c.m}
    BY <2>3, <2>4, <2>5 DEF Begun, ToSet
  <2>7. IsInjective(begun')
    <3>1. \A i \in DOMAIN begun : begun[i] # c.m
      BY <1>3 DEF Begun, ToSet
    <3> QED
      BY <2>3, <2>4, <2>5, <3>1 DEF BegunTyped, IsInjective
  <2>8. planState' \in [Begun' -> RoomStates]
    BY <2>1, <2>6 DEF BegunTyped, RoomStates
  <2>9. plannerTurns' \in [Begun' -> 0..AstraCap]
    <3>1. 0 \in 0..AstraCap
      BY RoomAssumption
    <3>2. \A p \in Begun' : (IF p = c.m THEN 0 ELSE plannerTurns[p]) \in 0..AstraCap
      BY <2>6, <3>1 DEF BegunTyped
    <3> QED
      BY <2>1, <3>2
  <2> QED
    BY <1>1, <2>2, <2>6, <2>7, <2>8, <2>9 DEF BegunTyped
<1>4. ASSUME NEW c \in calls, BeginsPlan(c), c.m \in Begun PROVE BegunTyped'
  BY <1>2, <1>4 DEF BeginsPlan, Begun
<1>5. ASSUME NEW c \in calls,
             Stop(c) \/ Ask(c) \/ Decide(c, "intake") \/ Decide(c, "review")
      PROVE  BegunTyped'
  <2>1. c.plan \in Begun
    BY <1>5 DEF CallsTyped, Stop, Ask, Decide
  <2>2. UNCHANGED begun
    BY <1>5 DEF Stop, Ask, Decide, Fails, plansVars
  <2>3. planState' \in [Begun -> RoomStates]
    BY <1>5, <2>1 DEF BegunTyped, RoomStates, Stop, Ask, Decide, Fails, plansVars
  <2>4. plannerTurns' = plannerTurns \/ (plannerTurns[c.plan] < AstraCap
                                         /\ plannerTurns' = [plannerTurns EXCEPT ![c.plan] = @ + 1])
    BY <1>5 DEF Stop, Ask, Decide, Fails, plansVars
  <2>5. plannerTurns[c.plan] \in 0..AstraCap
    BY <2>1 DEF BegunTyped
  <2>6. plannerTurns[c.plan] < AstraCap => plannerTurns[c.plan] + 1 \in 0..AstraCap
    BY <2>5, RoomAssumption
  <2>7. plannerTurns' \in [Begun -> 0..AstraCap]
    BY <2>1, <2>4, <2>6 DEF BegunTyped
  <2>8. Begun' = Begun
    BY <2>2 DEF Begun, ToSet
  <2> QED
    BY <1>1, <2>2, <2>3, <2>7, <2>8 DEF BegunTyped, IsInjective
<1>6. \/ UNCHANGED <<begun, planState, plannerTurns>>
      \/ \E c \in calls : BeginsPlan(c) \/ Stop(c) \/ Ask(c) \/ Decide(c, "intake") \/ Decide(c, "review")
  BY DEF RoomNext, Says, Replays, Takes, Answer, Remark, Draft, Instructs, Wake, Note,
      PlannerFails, Fails, Save, Reply, RoomCrash, plansVars, roomVars
<1> QED
  BY <1>2, <1>3, <1>4, <1>5, <1>6

\* A handler goes on about a plan that began.
LEMMA CallsStep ==
  ASSUME Lists, RoomInv, MessagesTyped, CallsTyped, [RoomNext]_roomVars
  PROVE  CallsTyped'
<1>1. Begun \subseteq Begun'
  BY RoomGrows
<1>2. CASE calls' \subseteq calls
  BY <1>1, <1>2 DEF CallsTyped
<1>3. ASSUME NEW c \in calls, NEW step \in CallSteps, NEW p \in {0} \union Begun',
             calls' = (calls \ {c}) \union {[m |-> c.m, pc |-> step, plan |-> p]},
             step \in {"note", "ask", "decide", "wake"} => p # 0
      PROVE  CallsTyped'
  <2> DEFINE d == [m |-> c.m, pc |-> step, plan |-> p]
  <2>1. d.pc = step /\ d.plan = p
    OBVIOUS
  <2> HIDE DEF d
  <2>2. \A e \in calls' : e \in calls \/ e = d
    BY <1>3 DEF d
  <2> QED
    BY <1>1, <1>3, <2>1, <2>2 DEF CallsTyped
<1>4. ASSUME NEW c \in calls, NEW step PROVE [c EXCEPT !.pc = step] = [m |-> c.m, pc |-> step, plan |-> c.plan]
  BY DEF RoomInv, OneCall
<1>5. ASSUME NEW c \in calls, NEW step \in CallSteps, GoesTo(c, step), c.plan # 0 \/ step \in {"save", "reply"}
      PROVE  CallsTyped'
  <2>1. c.plan \in {0} \union Begun'
    BY <1>1 DEF CallsTyped
  <2>2. calls' = (calls \ {c}) \union {[m |-> c.m, pc |-> step, plan |-> c.plan]}
    BY <1>4, <1>5 DEF GoesTo
  <2> QED
    BY <1>3, <1>5, <2>1, <2>2
<1>6. ASSUME NEW c \in calls, BeginsPlan(c) PROVE CallsTyped'
  <2>1. c = [m |-> c.m, pc |-> c.pc, plan |-> c.plan] /\ c.m \in Sent /\ c.m \in Nat \ {0}
    BY DEF RoomInv, OneCall, Sent
  <2>2. [c EXCEPT !.plan = c.m, !.pc = "note"] = [m |-> c.m, pc |-> "note", plan |-> c.m]
    BY <2>1, OfNewPlan, Zenon
  <2>3. calls' = (calls \ {c}) \union {[m |-> c.m, pc |-> "note", plan |-> c.m]}
    BY <1>6, <2>2 DEF BeginsPlan
  <2>4. c.m \in Begun'
    <3>1. CASE c.m \in ToSet(begun)
      BY <1>1, <3>1 DEF Begun
    <3>2. CASE c.m \notin ToSet(begun)
      <4>1. begun' = Append(begun, c.m)
        BY <1>6, <3>2 DEF BeginsPlan
      <4>2. begun'[Len(begun) + 1] = c.m /\ Len(begun) + 1 \in DOMAIN begun'
        BY <2>1, <4>1 DEF Lists
      <4> QED
        BY <4>2 DEF Begun, ToSet
    <3> QED
      BY <3>1, <3>2
  <2> QED
    BY <1>3, <2>1, <2>3, <2>4 DEF CallSteps
<1>7. ASSUME NEW m \in Sent, Takes(m), ~(calls' \subseteq calls) PROVE CallsTyped'
  <2>1. /\ Resolves(m) /\ UNCHANGED begun
    BY <1>7 DEF Takes, plansVars
  <2>2. ActivePlan \in {0} \union Begun /\ messages[m].to \in {0} \union Begun
    BY ActivePlanBegan DEF MessagesTyped
  <2>3. PICK p \in {0} \union Begun, step \in {"save", "effect"} : calls' = {[m |-> m, pc |-> step, plan |-> p]}
    <3> DEFINE msg == messages[m]
               target == IF msg.command = "plan" THEN 0 ELSE IF msg.to # 0 THEN msg.to ELSE ActivePlan
               next == IF target = 0 /\ msg.command = "instruct" THEN "save" ELSE "effect"
    <3>1. target \in {0} \union Begun /\ next \in {"save", "effect"}
      BY <2>2
    <3>2. calls' = {[m |-> m, pc |-> next, plan |-> target]}
      BY <1>7, <2>1 DEF Resolves
    <3> QED
      BY <3>1, <3>2
  <2> QED
    BY <1>1, <2>3 DEF CallsTyped, CallSteps
<1>8. ASSUME NEW c \in calls,
             \/ Answer(c) \/ Remark(c) \/ Draft(c) \/ Stop(c) \/ Instructs(c) \/ Wake(c) \/ Note(c) \/ Ask(c)
             \/ Decide(c, "intake") \/ Decide(c, "review") \/ Save(c)
      PROVE  CallsTyped'
  <2>1. CASE Fails(c)
    BY <1>2, <2>1 DEF Fails
  <2>2. CASE Answer(c) \/ Draft(c) \/ Stop(c) \/ Instructs(c) \/ Note(c) \/ Ask(c)
    <3>1. c.plan # 0
      BY <2>2 DEF Answer, Draft, Stop, Instructs, Note, Ask, CallsTyped
    <3>2. Fails(c) \/ \E step \in CallSteps : GoesTo(c, step)
      BY <2>2 DEF Answer, Draft, Stop, Instructs, Note, Ask, CallSteps
    <3> QED
      BY <1>5, <2>1, <3>1, <3>2
  <2>3. CASE Remark(c) \/ Wake(c) \/ Decide(c, "intake") \/ Decide(c, "review") \/ Save(c)
    <3>1. Fails(c) \/ \E step \in {"save", "reply"} : GoesTo(c, step)
      BY <2>3 DEF Remark, Wake, Decide, Save
    <3> QED
      BY <1>5, <2>1, <3>1 DEF CallSteps
  <2> QED
    BY <1>8, <2>2, <2>3
<1>9. \/ calls' \subseteq calls
      \/ \E m \in Sent : Takes(m)
      \/ \E c \in calls : \/ BeginsPlan(c)
                          \/ Answer(c) \/ Remark(c) \/ Draft(c) \/ Stop(c) \/ Instructs(c) \/ Wake(c) \/ Note(c) \/ Ask(c)
                          \/ Decide(c, "intake") \/ Decide(c, "review") \/ Save(c)
  BY DEF RoomNext, Says, Replays, PlannerFails, Fails, Reply, RoomCrash, roomVars
<1> QED
  BY <1>2, <1>6, <1>7, <1>8, <1>9

\* What is written is about messages that were sent and plans that began.
LEMMA WritesStep ==
  ASSUME Lists, RoomInv, MessagesTyped, BegunTyped, CallsTyped, WritesTyped, [RoomNext]_roomVars
  PROVE  WritesTyped'
<1>1. Sent \subseteq Sent' /\ MaxRoomFaults \in Nat /\ PairsOf(Sent) \subseteq PairsOf(Sent')
  BY RoomGrows, RoomAssumption DEF PairsOf
<1>2. Sent \subseteq PlanIds
  BY RoomAssumption DEF Sent, PlanIds, MessagesTyped, Lists
<1>3. \A c \in calls : c.m \in Sent /\ c.m \in PlanIds /\ (c.plan # 0 => c.plan \in PlanIds)
  BY <1>2 DEF RoomInv, OneCall, CallsTyped, BegunTyped
<1>4. \A m \in inFlight : m \in Sent
  BY DEF RoomInv, OneCall
<1> DEFINE Said == /\ UNCHANGED <<intake, comments, touched, wakes, saved>>
                   /\ replies' \subseteq replies \union Sent /\ interrupted' \subseteq interrupted \union Sent
           Wrote(c) == /\ intake' \subseteq intake \union {<<c.m, c.plan>>}
                       /\ comments' \subseteq comments \union {<<c.m, c.plan>>}
                       /\ touched' \subseteq touched \union {<<c.m, c.plan>>}
                       /\ UNCHANGED <<saved, replies>>
                       /\ wakes' \subseteq wakes \union {c.m} /\ interrupted' \subseteq interrupted \union {c.m}
<1>5. ASSUME NEW c \in calls, c.plan # 0 \/ UNCHANGED <<intake, comments, touched>>, Wrote(c)
      PROVE  /\ \A rowset \in {intake', comments', touched'} : rowset \subseteq PairsOf(Sent')
             /\ \A sent \in {wakes', saved', replies', interrupted'} : sent \subseteq Sent'
  <2>1. c.plan # 0 => <<c.m, c.plan>> \in PairsOf(Sent)
    BY <1>3 DEF PairsOf
  <2> QED
    BY <1>1, <1>3, <1>5, <2>1 DEF WritesTyped
<1>6. ASSUME NEW c \in calls,
             \/ Answer(c) \/ Remark(c) \/ Draft(c) \/ Stop(c) \/ Instructs(c) \/ Note(c) \/ Ask(c)
             \/ Decide(c, "intake") \/ Decide(c, "review")
      PROVE  c.plan # 0 /\ Wrote(c)
  <2>1. c.plan # 0
    BY <1>6 DEF Answer, Remark, Draft, Stop, Instructs, Note, Ask, Decide, CallsTyped
  <2>2. Wrote(c)
    BY <1>6 DEF Answer, Remark, Draft, Stop, Instructs, Note, Ask, Decide, Touches, Fails, plansVars, replyVars
  <2> QED
    BY <2>1, <2>2
<1>7. ASSUME NEW c \in calls, Wake(c) \/ PlannerFails(c) PROVE UNCHANGED <<intake, comments, touched>> /\ Wrote(c)
  BY <1>7 DEF Wake, PlannerFails, Fails, plansVars, replyVars
<1>8. ASSUME NEW c \in calls, BeginsPlan(c)
      PROVE  /\ UNCHANGED <<intake, comments, wakes, saved, replies, interrupted>>
             /\ touched' \subseteq PairsOf(Sent')
  <2>1. <<c.m, c.m>> \in PairsOf(Sent)
    BY <1>3 DEF PairsOf
  <2>2. touched' = touched \union {<<c.m, c.m>>}
    BY <1>8 DEF BeginsPlan, Touches
  <2> QED
    BY <1>1, <1>8, <2>1, <2>2 DEF BeginsPlan, replyVars, WritesTyped
<1>9. ASSUME NEW c \in calls, Save(c) \/ Reply(c)
      PROVE  /\ UNCHANGED <<intake, comments, touched, wakes, interrupted>>
             /\ saved' \subseteq saved \union Sent /\ replies' \subseteq replies \union Sent
  BY <1>3, <1>9 DEF Save, Reply, plansVars
<1>10. ASSUME NEW m \in Sent, Takes(m) PROVE Said
  BY <1>10 DEF Takes, Resolves, plansVars
<1>11. RoomCrash => Said
  BY <1>3 DEF RoomCrash, plansVars, replyVars
<1>12. \/ UNCHANGED <<intake, comments, touched, wakes, saved, replies, interrupted>>
       \/ \E c \in calls :
            \/ Answer(c) \/ Remark(c) \/ Draft(c) \/ Stop(c) \/ Instructs(c) \/ Note(c) \/ Ask(c)
            \/ Decide(c, "intake") \/ Decide(c, "review") \/ Wake(c) \/ PlannerFails(c) \/ BeginsPlan(c)
            \/ Save(c) \/ Reply(c)
       \/ (\E m \in Sent : Takes(m)) \/ RoomCrash
  BY DEF RoomNext, Says, Replays, plansVars, replyVars, roomVars
<1>13. /\ \A rowset \in {intake', comments', touched'} : rowset \subseteq PairsOf(Sent')
       /\ \A sent \in {wakes', saved', replies', interrupted'} : sent \subseteq Sent'
  <2>1. CASE UNCHANGED <<intake, comments, touched, wakes, saved, replies, interrupted>>
    BY <1>1, <2>1 DEF WritesTyped
  <2>2. CASE Said
    BY <1>1, <2>2 DEF WritesTyped
  <2>3. CASE \E c \in calls : BeginsPlan(c) \/ Save(c) \/ Reply(c)
    BY <1>1, <1>8, <1>9, <2>3 DEF WritesTyped
  <2> QED
    BY <1>5, <1>6, <1>7, <1>10, <1>11, <1>12, <2>1, <2>2, <2>3
<1>14. roomFaults' \in 0..MaxRoomFaults
  <2>1. roomFaults' = roomFaults \/ (roomFaults < MaxRoomFaults /\ roomFaults' = roomFaults + 1)
    BY DEF RoomNext, Says, Replays, Takes, BeginsPlan, Answer, Remark, Draft, Stop, Instructs, Wake, Note, Ask,
       Decide, PlannerFails, Save, Reply, RoomCrash, roomVars
  <2> QED
    BY <1>1, <2>1 DEF WritesTyped
<1> QED
  BY <1>13, <1>14 DEF WritesTyped

RoomTypes == MessagesTyped /\ BegunTyped /\ CallsTyped /\ WritesTyped

TypedMessage == [command : Orders, to : {0} \union PlanIds]
TypedCall == [m : Sent, plan : {0} \union PlanIds, pc : CallSteps]

\* The rows that the room's messages leave are of messages that were sent and of
\* plans that began, each once; a planner's turns stay within their cap.
THEOREM RoomTypeCorrect == RoomSpec => []RoomTypeOK
<1>1. RoomInit => RoomTypes
  <2> SUFFICES ASSUME RoomInit PROVE RoomTypes
    OBVIOUS
  <2>1. Sent = {} /\ Begun = {} /\ Len(messages) = 0
    BY DEF RoomInit, Sent, Begun, ToSet
  <2>2. MaxMessages \in Nat /\ MaxRoomFaults \in Nat
    BY RoomAssumption
  <2>3. BegunTyped
    BY <2>1 DEF RoomInit, BegunTyped, IsInjective
  <2> QED
    BY <2>1, <2>2, <2>3 DEF RoomInit, RoomTypes, MessagesTyped, CallsTyped, WritesTyped
<1>2. Lists /\ RoomInv /\ RoomTypes /\ [RoomNext]_roomVars => RoomTypes'
  BY MessagesStep, BegunStep, CallsStep, WritesStep DEF RoomTypes
<1>3. Lists /\ RoomInv /\ RoomTypes => RoomTypeOK
  <2> SUFFICES ASSUME Lists, RoomInv, RoomTypes PROVE RoomTypeOK
    OBVIOUS
  <2>1. Begun \subseteq Sent /\ Sent \subseteq PlanIds
    BY RoomAssumption DEF RoomTypes, BegunTyped, Sent, PlanIds, MessagesTyped, Lists
  <2>2. messages \in Seq(TypedMessage)
    <3>1. messages \in Seq(Message)
      BY DEF Lists
    <3>2. ASSUME NEW m \in DOMAIN messages PROVE messages[m] \in TypedMessage
      <4>1. messages[m] \in Message /\ messages[m].to \in {0} \union Begun
        BY <3>1 DEF RoomTypes, MessagesTyped, Sent
      <4>2. messages[m].to \in {0} \union PlanIds
        BY <2>1, <4>1
      <4> QED
        BY <4>1, <4>2 DEF Message, TypedMessage
    <3> QED
      BY <3>1, <3>2
  <2>3. calls \subseteq TypedCall
    <3> SUFFICES ASSUME NEW c \in calls PROVE c \in TypedCall
      OBVIOUS
    <3>1. c = [m |-> c.m, pc |-> c.pc, plan |-> c.plan] /\ c.m \in Sent
      BY DEF RoomInv, OneCall
    <3>2. c.pc \in CallSteps /\ c.plan \in {0} \union PlanIds
      BY <2>1 DEF RoomTypes, CallsTyped
    <3> QED
      BY <3>1, <3>2 DEF TypedCall
  <2>4. begun \in Seq(PlanIds) /\ IsInjective(begun)
    <3>1. \A i \in DOMAIN begun : begun[i] \in PlanIds
      BY <2>1 DEF Begun, ToSet
    <3> QED
      BY <3>1 DEF Lists, RoomTypes, BegunTyped
  <2>5. /\ inFlight \subseteq Sent /\ Len(messages) <= MaxMessages
        /\ planState \in [ToSet(begun) -> {"intake", "review", "needs_input", "cancelled"}]
        /\ plannerTurns \in [ToSet(begun) -> 0..AstraCap]
    BY DEF RoomInv, OneCall, RoomTypes, MessagesTyped, BegunTyped, Begun, RoomStates
  <2>6. /\ intake \subseteq PairsOf(Sent) /\ comments \subseteq PairsOf(Sent)
        /\ wakes \subseteq Sent /\ saved \subseteq Sent /\ replies \subseteq Sent
        /\ interrupted \subseteq Sent
        /\ touched \subseteq PairsOf(Sent)
        /\ roomFaults \in 0..MaxRoomFaults
    BY DEF RoomTypes, WritesTyped
  <2> QED
    BY <2>2, <2>3, <2>4, <2>5, <2>6, Zenon DEF RoomTypeOK, TypedMessage, TypedCall, CallSteps
<1> QED
  BY <1>1, <1>2, <1>3, RoomInvariance, PTL DEF RoomSpec

-----------------------------------------------------------------------------
(* SubIssues.  While a request goes through the items, the issues it has    *)
(* not seen are those of items it has passed.                               *)

Requested ==
  [pc : {"idle", "begin", "list", "child", "order", "complete", "decompose", "register"},
   v : Nat, seen : Seq(SubIssue), children : Seq(Nat), i : Nat \ {0}]
Kept == [state : {"none", "pending", "complete"}, children : Seq(Nat)]

IssueTyped ==
  /\ revision \in Revisions
  /\ subissues \in Seq(SubIssue)
  /\ action \in [Revisions -> Kept]
  /\ approving \in [Approvals -> Requested]

\* What a request has seen is still there, as far as its items go.
SeenIsThere(r) ==
  \A n \in DOMAIN r.seen : n \in Issues /\ subissues[n].item = r.seen[n].item

PassedItems(r) ==
  /\ r.pc \in {"begin", "list"} => r.v \in Revisions /\ r.children = <<>> /\ r.i = 1
  /\ r.pc = "child" =>
       /\ r.v \in Revisions /\ r.i \in Items(r.v) /\ Len(r.children) = r.i - 1
       /\ SeenIsThere(r)
       /\ \A n \in Issues \ DOMAIN r.seen : subissues[n].item < r.i

IssueInv == OneIssueEach /\ \A t \in Approvals : PassedItems(approving[t])

\* A request's fields.
LEMMA RequestFields ==
  ASSUME IssueTyped, NEW t \in Approvals
  PROVE  /\ approving[t].v \in Nat /\ approving[t].seen \in Seq(SubIssue)
         /\ approving[t].children \in Seq(Nat) /\ approving[t].i \in Nat \ {0}
<1>1. approving[t] \in Requested
  BY DEF IssueTyped
<1> QED
  BY <1>1 DEF Requested

\* A sub-issue's fields.
LEMMA SubIssueFields ==
  ASSUME NEW x \in SubIssue
  PROVE  /\ x.item \in Nat \ {0}
         /\ \A v \in Revisions : [x EXCEPT !.text = v] \in SubIssue /\ [x EXCEPT !.text = v].item = x.item
BY DEF SubIssue

\* An item has at most one issue among those that were seen.
LEMMA MarkedOnce ==
  ASSUME OneIssueEach, NEW r, SeenIsThere(r), NEW n \in Marked(r)
  PROVE  Marked(r) = {n} /\ (n \in Nat => Newest(Marked(r)) = n)
<1>1. \A m \in Marked(r) : m = n
  BY DEF Marked, SeenIsThere, OneIssueEach
<1>2. Marked(r) = {n}
  BY <1>1
<1>3. ASSUME n \in Nat PROVE Newest({n}) = n
  BY <1>3 DEF Newest
<1> QED
  BY <1>2, <1>3

\* An item's issue is written: a new one, for an item that had none, or an
\* old one, which keeps its item.
LEMMA WrittenOnce ==
  ASSUME IssueTyped, IssueInv, NEW t \in Approvals, At(t, "child"), NEW w, w = Written(approving[t])
  PROVE  /\ w \in Seq(SubIssue) /\ Len(subissues) <= Len(w)
         /\ \A n \in Issues : w[n].item = subissues[n].item
         /\ \A n \in DOMAIN w \ Issues :
              n = Len(subissues) + 1 /\ w[n].item = approving[t].i
              /\ \A m \in Issues : subissues[m].item # approving[t].i
<1> DEFINE r == approving[t]
<1>1. /\ r.v \in Revisions /\ r.i \in Items(r.v) /\ Len(r.children) = r.i - 1 /\ SeenIsThere(r)
      /\ \A n \in Issues \ DOMAIN r.seen : subissues[n].item < r.i
  BY DEF IssueInv, PassedItems, At
<1>2. r.seen \in Seq(SubIssue) /\ r.i \in Nat \ {0} /\ subissues \in Seq(SubIssue)
  BY RequestFields DEF IssueTyped
<1>0. r.children \in Seq(Nat)
  BY RequestFields
<1>3. CASE Marked(r) = {}
  <2> DEFINE x == [item |-> r.i, text |-> r.v, parent |-> ParentOf(r)]
  <2>1. Outline[r.v][r.i] \in Nat /\ Outline[r.v][r.i] < r.i
    <3>1. Outline[r.v] \in Seq(Nat)
      BY <1>1, SubIssuesAssumption DEF Revisions
    <3> QED
      BY <1>1, <3>1, SubIssuesAssumption DEF Revisions, Items
  <2>2. ParentOf(r) \in Nat
    <3>1. \A k \in 1..Len(r.children) : r.children[k] \in Nat
      BY <1>0
    <3>2. Len(r.children) = r.i - 1 /\ r.i \in Nat
      BY <1>1, <1>2
    <3>3. Outline[r.v][r.i] # 0 => Outline[r.v][r.i] \in 1..Len(r.children)
      BY <2>1, <3>2
    <3> QED
      BY <3>1, <3>3 DEF ParentOf
  <2>3. x \in SubIssue /\ x.item = r.i
    BY <1>1, <1>2, <2>2 DEF SubIssue
  <2>4. w = Append(subissues, x)
    BY <1>3 DEF Written, Posted
  <2> HIDE DEF x
  <2>5. \A m \in Issues : subissues[m].item # r.i
    <3> SUFFICES ASSUME NEW m \in Issues PROVE subissues[m].item # r.i
      OBVIOUS
    <3>1. CASE m \in DOMAIN r.seen
      BY <1>1, <1>3, <3>1 DEF Marked, SeenIsThere
    <3>2. CASE m \notin DOMAIN r.seen
      <4>1. subissues[m] \in SubIssue
        BY <1>2 DEF Issues
      <4>2. subissues[m].item \in Nat /\ subissues[m].item < r.i
        BY <1>1, <3>2, <4>1, SubIssueFields
      <4> QED
        BY <1>2, <4>2
    <3> QED
      BY <3>1, <3>2
  <2> QED
    BY <1>2, <2>3, <2>4, <2>5 DEF Issues
<1>4. CASE Marked(r) # {}
  <2>1. PICK n \in Marked(r) : TRUE
    BY <1>4
  <2>2. n \in Issues /\ n \in Nat
    BY <1>1, <1>2, <2>1 DEF Marked, SeenIsThere, Issues
  <2>3. Newest(Marked(r)) = n
    BY <1>1, <2>1, <2>2, MarkedOnce DEF IssueInv
  <2>4. w = subissues \/ w = [subissues EXCEPT ![n] = [subissues[n] EXCEPT !.text = r.v]]
    BY <1>4, <2>3 DEF Written
  <2>5. subissues[n] \in SubIssue
    BY <1>2, <2>2 DEF Issues
  <2>6. [subissues[n] EXCEPT !.text = r.v] \in SubIssue
        /\ [subissues[n] EXCEPT !.text = r.v].item = subissues[n].item
    BY <1>1, <2>5, SubIssueFields
  <2> DEFINE x == [subissues[n] EXCEPT !.text = r.v]
  <2> HIDE DEF x
  <2>7. x \in SubIssue /\ x.item = subissues[n].item /\ (w = subissues \/ w = [subissues EXCEPT ![n] = x])
    BY <2>4, <2>6 DEF x
  <2> QED
    BY <1>2, <2>2, <2>7 DEF Issues
<1> QED
  BY <1>3, <1>4

\* A request moves on.
LEMMA MovesTyped ==
  ASSUME IssueTyped, NEW t \in Approvals, NEW r \in Requested, Moves(t, r)
  PROVE  /\ approving' \in [Approvals -> Requested] /\ approving'[t] = r
         /\ \A s \in Approvals \ {t} : approving'[s] = approving[s]
BY DEF Moves, IssueTyped

\* A step that leaves the issues alone, of a request that is not at an item afterwards.
LEMMA AwayStep ==
  ASSUME \A s, t \in Approvals : s = t, IssueTyped, IssueInv, UNCHANGED subissues,
         NEW t \in Approvals, NEW r \in Requested, Moves(t, r), r.pc # "child",
         r.pc \in {"begin", "list"} => r.v \in Revisions /\ r.children = <<>> /\ r.i = 1
  PROVE  approving' \in [Approvals -> Requested] /\ IssueInv'
<1>1. approving' \in [Approvals -> Requested] /\ approving'[t] = r
  BY MovesTyped
<1>2. \A s \in Approvals : approving'[s] = r
  BY <1>1
<1>3. \A s \in Approvals : PassedItems(approving[s])'
  BY <1>2 DEF PassedItems
<1>4. OneIssueEach'
  BY DEF IssueInv, OneIssueEach, Issues
<1> QED
  BY <1>1, <1>3, <1>4 DEF IssueInv

\* No request at all is a request that is idle.
LEMMA NoRequestTyped == NoRequest \in Requested /\ NoRequest.pc = "idle"
<1>1. <<>> \in Seq(SubIssue) /\ <<>> \in Seq(Nat)
  OBVIOUS
<1> QED
  BY <1>1 DEF NoRequest, Requested

\* The same request at another step.
LEMMA TurnTyped ==
  ASSUME NEW r \in Requested,
         NEW step \in {"list", "order", "complete", "decompose", "register"}
  PROVE  LET q == [r EXCEPT !.pc = step, !.i = 1]
         IN  q \in Requested /\ q.pc = step /\ q.v = r.v /\ q.children = r.children /\ q.i = 1
<1> DEFINE p == [r EXCEPT !.pc = step]
<1>1. p \in Requested /\ p.pc = step /\ p.v = r.v /\ p.children = r.children
  BY DEF Requested
<1>2. [r EXCEPT !.pc = step, !.i = 1] = [p EXCEPT !.i = 1]
  OBVIOUS
<1> HIDE DEF p
<1> DEFINE q == [p EXCEPT !.i = 1]
<1>3. q \in Requested
  <2>1. p = [pc |-> p.pc, v |-> p.v, seen |-> p.seen, children |-> p.children, i |-> p.i]
    BY <1>1 DEF Requested
  <2>2. q = [pc |-> p.pc, v |-> p.v, seen |-> p.seen, children |-> p.children, i |-> 1]
    BY <2>1
  <2> QED
    BY <1>1, <2>2 DEF Requested
<1>4. q.pc = p.pc /\ q.v = p.v /\ q.children = p.children /\ q.i = 1
  BY <1>1 DEF Requested
<1> QED
  BY <1>1, <1>2, <1>3, <1>4

\* The version is approved.
LEMMA GrantStep ==
  ASSUME \A s, t \in Approvals : s = t, IssueTyped, IssueInv, NEW t \in Approvals, Grant(t)
  PROVE  approving' \in [Approvals -> Requested] /\ IssueInv'
<1> DEFINE r == [NoRequest EXCEPT !.pc = "begin", !.v = revision]
<1>1. UNCHANGED subissues
  BY DEF Grant
<1>2. CASE UNCHANGED approving
  BY <1>1, <1>2 DEF IssueTyped, IssueInv, OneIssueEach, PassedItems, SeenIsThere, Issues
<1>3. CASE Moves(t, r)
  <2>1. revision \in Nat /\ revision \in Revisions
    BY SubIssuesAssumption DEF IssueTyped, Revisions
  <2> DEFINE p == [NoRequest EXCEPT !.pc = "begin"]
  <2>2. NoRequest.children = <<>> /\ NoRequest.i = 1
    BY DEF NoRequest
  <2>3. p \in Requested /\ p.pc = "begin" /\ p.children = <<>> /\ p.i = 1
    BY <2>2, NoRequestTyped DEF Requested
  <2>4. r = [p EXCEPT !.v = revision]
    OBVIOUS
  <2> HIDE DEF p
  <2>5. r \in Requested /\ r.pc = "begin" /\ r.v \in Revisions /\ r.children = <<>> /\ r.i = 1
    BY <2>1, <2>3, <2>4 DEF Requested
  <2> HIDE DEF r
  <2> QED
    BY <1>1, <1>3, <2>5, AwayStep
<1> QED
  BY <1>2, <1>3 DEF Grant

\* The action begins, or is found begun.
LEMMA BeginActionStep ==
  ASSUME \A s, t \in Approvals : s = t, IssueTyped, IssueInv, NEW t \in Approvals, BeginAction(t)
  PROVE  approving' \in [Approvals -> Requested] /\ action' \in [Revisions -> Kept] /\ IssueInv'
<1> DEFINE r == approving[t]
           v == r.v
<1>1. r \in Requested /\ r.pc = "begin" /\ v \in Revisions /\ r.children = <<>> /\ r.i = 1 /\ UNCHANGED subissues
  BY DEF IssueTyped, IssueInv, PassedItems, BeginAction, At
<1>2. action[v] \in Kept /\ action \in [Revisions -> Kept]
  BY <1>1 DEF IssueTyped
<1>3. CASE action[v].state = "complete"
  <2> DEFINE q == [r EXCEPT !.pc = "decompose", !.children = action[v].children]
  <2>1. Moves(t, q) /\ UNCHANGED action
    BY <1>3 DEF BeginAction
  <2>2. action[v].children \in Seq(Nat)
    BY <1>2 DEF Kept
  <2>3. q \in Requested /\ q.pc = "decompose"
    BY <1>1, <2>2 DEF Requested
  <2> HIDE DEF q
  <2> QED
    BY <1>1, <1>2, <2>1, <2>3, AwayStep
<1>4. CASE action[v].state # "complete"
  <2> DEFINE q == [r EXCEPT !.pc = "list", !.i = 1]
  <2>1. Moves(t, q) /\ action' = [action EXCEPT ![v] = [action[v] EXCEPT !.state = "pending"]]
    BY <1>4 DEF BeginAction, Turns
  <2>2. [action[v] EXCEPT !.state = "pending"] \in Kept
    BY <1>2 DEF Kept
  <2>3. q \in Requested /\ q.pc = "list" /\ q.v = v /\ q.children = <<>> /\ q.i = 1
    BY <1>1, TurnTyped
  <2> HIDE DEF q
  <2>4. action' \in [Revisions -> Kept]
    BY <1>2, <2>1, <2>2
  <2> QED
    BY <1>1, <2>1, <2>3, <2>4, AwayStep
<1> QED
  BY <1>3, <1>4

\* The issues there are are listed.
LEMMA ListStep ==
  ASSUME \A s, t \in Approvals : s = t, IssueTyped, IssueInv, NEW t \in Approvals, List(t)
  PROVE  approving' \in [Approvals -> Requested] /\ IssueInv'
<1> DEFINE r == approving[t]
           q == [r EXCEPT !.pc = "child", !.seen = subissues]
<1>1. r \in Requested /\ r.pc = "list" /\ r.v \in Revisions /\ r.children = <<>> /\ r.i = 1
      /\ UNCHANGED subissues /\ Moves(t, q) /\ subissues \in Seq(SubIssue)
  BY DEF IssueTyped, IssueInv, PassedItems, List, At
<1>2. q \in Requested /\ q.pc = "child" /\ q.v = r.v /\ q.children = <<>> /\ q.i = 1 /\ q.seen = subissues
  BY <1>1 DEF Requested
<1> HIDE DEF q
<1>3. approving' \in [Approvals -> Requested] /\ approving'[t] = q
  BY <1>1, <1>2, MovesTyped
<1>4. 1 \in Items(r.v)
  BY <1>1, SubIssuesAssumption DEF Items, Revisions
<1>5. PassedItems(approving[t])'
  BY <1>1, <1>2, <1>3, <1>4 DEF PassedItems, SeenIsThere, Issues
<1> QED
  BY <1>1, <1>3, <1>5 DEF IssueInv, OneIssueEach, Issues

\* The issues that were written still differ in their items.
LEMMA WrittenEach ==
  ASSUME IssueTyped, IssueInv, NEW t \in Approvals, At(t, "child"), subissues' = Written(approving[t])
  PROVE  /\ OneIssueEach' /\ subissues' \in Seq(SubIssue)
         /\ \A n \in Issues : n \in Issues' /\ subissues'[n].item = subissues[n].item
         /\ \A n \in Issues' \ Issues : subissues'[n].item = approving[t].i
<1>1. PICK w : w = Written(approving[t])
  OBVIOUS
<1>2. /\ w \in Seq(SubIssue) /\ Len(subissues) <= Len(w)
      /\ \A n \in Issues : w[n].item = subissues[n].item
      /\ \A n \in DOMAIN w \ Issues :
           n = Len(subissues) + 1 /\ w[n].item = approving[t].i
           /\ \A m \in Issues : subissues[m].item # approving[t].i
  BY <1>1, WrittenOnce
<1>3. subissues' = w /\ Issues \subseteq DOMAIN w
  BY <1>1, <1>2 DEF Issues, IssueTyped
<1>4. \A m, n \in DOMAIN w : w[m].item = w[n].item => m = n
  BY <1>2 DEF IssueInv, OneIssueEach
<1> QED
  BY <1>2, <1>3, <1>4 DEF OneIssueEach, Issues

\* The next sub-issue is found, or created.
LEMMA ChildStep ==
  ASSUME \A s, t \in Approvals : s = t, IssueTyped, IssueInv, NEW t \in Approvals, Child(t)
  PROVE  approving' \in [Approvals -> Requested] /\ subissues' \in Seq(SubIssue) /\ IssueInv'
<1> DEFINE r == approving[t]
           n == IF Marked(r) = {} THEN Len(subissues) + 1 ELSE Newest(Marked(r))
           last == r.i = Len(Outline[r.v])
<1>1. r \in Requested /\ r.pc = "child" /\ At(t, "child") /\ subissues' = Written(r) /\ HasChild(t, n)
  BY DEF Child, At, IssueTyped
<1>2. /\ OneIssueEach' /\ subissues' \in Seq(SubIssue)
      /\ \A m \in Issues : m \in Issues' /\ subissues'[m].item = subissues[m].item
      /\ \A m \in Issues' \ Issues : subissues'[m].item = r.i
  BY <1>1, WrittenEach
<1>3. /\ r.v \in Revisions /\ r.i \in Items(r.v) /\ Len(r.children) = r.i - 1 /\ SeenIsThere(r)
      /\ \A m \in Issues \ DOMAIN r.seen : subissues[m].item < r.i
  BY <1>1 DEF IssueInv, PassedItems
<1>4. r.v \in Nat /\ r.seen \in Seq(SubIssue) /\ r.children \in Seq(Nat) /\ r.i \in Nat \ {0}
      /\ subissues \in Seq(SubIssue)
  BY RequestFields DEF IssueTyped
<1>5. n \in Nat
  <2>1. CASE Marked(r) = {}
    BY <1>4, <2>1
  <2>2. CASE Marked(r) # {}
    <3>1. PICK m \in Marked(r) : TRUE
      BY <2>2
    <3>2. m \in Nat
      BY <1>4, <3>1 DEF Marked
    <3> QED
      BY <1>3, <2>2, <3>1, <3>2, MarkedOnce DEF IssueInv
  <2> QED
    BY <2>1, <2>2
<1> DEFINE more == Append(r.children, n)
           next == IF last THEN 1 ELSE r.i + 1
           step == IF last THEN "order" ELSE "child"
           q == [r EXCEPT !.children = more, !.i = next, !.pc = step]
<1>6. Moves(t, q)
  <2>1. [r EXCEPT !.children = more].i = r.i
    BY <1>1 DEF Requested
  <2> QED
    BY <1>1, <2>1 DEF HasChild
<1>7. more \in Seq(Nat) /\ Len(more) = r.i
  BY <1>3, <1>4, <1>5
<1>8. next \in Nat \ {0}
  BY <1>4
<1>9. q = [pc |-> step, v |-> r.v, seen |-> r.seen, children |-> more, i |-> next]
  <2> HIDE DEF more, next, step
  <2>1. r = [pc |-> r.pc, v |-> r.v, seen |-> r.seen, children |-> r.children, i |-> r.i]
    BY <1>1 DEF Requested
  <2> DEFINE a == [r EXCEPT !.children = more]
             b == [a EXCEPT !.i = next]
  <2>2. a = [pc |-> r.pc, v |-> r.v, seen |-> r.seen, children |-> more, i |-> r.i]
    BY <2>1
  <2> HIDE DEF a
  <2>3. b = [pc |-> r.pc, v |-> r.v, seen |-> r.seen, children |-> more, i |-> next]
    BY <2>2
  <2> HIDE DEF b
  <2>4. [b EXCEPT !.pc = step] = [pc |-> step, v |-> r.v, seen |-> r.seen, children |-> more, i |-> next]
    BY <2>3
  <2>5. q = [b EXCEPT !.pc = step]
    BY DEF a, b
  <2> QED
    BY <2>4, <2>5
<1>10. step \in {"order", "child"}
  OBVIOUS
<1> HIDE DEF more, next, step, q
<1>11. q \in Requested /\ q.pc = step /\ q.v = r.v /\ q.seen = r.seen /\ q.children = more /\ q.i = next
  BY <1>4, <1>7, <1>8, <1>9, <1>10 DEF Requested
<1>12. approving' \in [Approvals -> Requested] /\ approving'[t] = q
  BY <1>6, <1>11, MovesTyped
<1>13. PassedItems(approving[t])'
  <2>1. CASE last
    BY <1>11, <1>12, <2>1 DEF PassedItems, step
  <2>2. CASE ~last
    <3>1. q.pc = "child" /\ q.i = r.i + 1
      BY <1>11, <2>2 DEF step, next
    <3>2. q.i \in Items(q.v)
      <4>1. Outline[r.v] \in Seq(Nat)
        BY <1>3, SubIssuesAssumption DEF Revisions
      <4>2. r.i \in 1..Len(Outline[r.v]) /\ Len(Outline[r.v]) \in Nat /\ r.i # Len(Outline[r.v])
        BY <1>3, <2>2, <4>1 DEF Items
      <4>3. r.i + 1 \in 1..Len(Outline[r.v])
        BY <4>2
      <4> QED
        BY <1>11, <3>1, <4>1, <4>3 DEF Items
    <3>3. \A m \in DOMAIN q.seen : m \in Issues' /\ subissues'[m].item = q.seen[m].item
      BY <1>2, <1>3, <1>11 DEF SeenIsThere
    <3>4. \A m \in Issues' \ DOMAIN q.seen : subissues'[m].item < q.i
      <4> SUFFICES ASSUME NEW m \in Issues' \ DOMAIN q.seen PROVE subissues'[m].item < q.i
        OBVIOUS
      <4>1. CASE m \in Issues
        <5>1. subissues[m] \in SubIssue
          BY <1>4, <4>1 DEF Issues
        <5>2. subissues[m].item \in Nat /\ subissues[m].item < r.i
          BY <1>3, <1>11, <4>1, <5>1, SubIssueFields
        <5> QED
          BY <1>2, <1>4, <3>1, <4>1, <5>2
      <4>2. CASE m \notin Issues
        BY <1>2, <1>4, <3>1, <4>2
      <4> QED
        BY <4>1, <4>2
    <3>5. Len(q.children) = q.i - 1
      <4>1. r.i \in Nat /\ q.i = r.i + 1 /\ Len(q.children) = r.i
        BY <1>4, <1>7, <1>11, <3>1
      <4> QED
        BY <4>1
    <3> QED
      BY <1>3, <1>11, <1>12, <3>1, <3>2, <3>3, <3>4, <3>5 DEF PassedItems, SeenIsThere
  <2> QED
    BY <2>1, <2>2
<1> QED
  BY <1>2, <1>12, <1>13 DEF IssueInv

\* A request turns to its next part.
LEMMA TurnsOn ==
  ASSUME IssueTyped, NEW t \in Approvals,
         NEW step \in {"list", "order", "complete", "decompose", "register"}, Turns(t, step)
  PROVE  \E q \in Requested : Moves(t, q) /\ q.pc = step
<1> DEFINE q == [approving[t] EXCEPT !.pc = step, !.i = 1]
<1>1. approving[t] \in Requested /\ Moves(t, q)
  BY DEF IssueTyped, Turns
<1>2. q \in Requested /\ q.pc = step
  BY <1>1, TurnTyped, Zenon
<1> HIDE DEF q
<1> QED
  BY <1>1, <1>2

\* The sub-issues are chained.
LEMMA OrderStep ==
  ASSUME \A s, t \in Approvals : s = t, IssueTyped, IssueInv, NEW t \in Approvals, Order(t)
  PROVE  approving' \in [Approvals -> Requested] /\ IssueInv'
<1> DEFINE r == approving[t]
<1>1. r \in Requested /\ r.pc = "order" /\ UNCHANGED subissues
  BY DEF IssueTyped, Order, At
<1>2. CASE Turns(t, "complete")
  <2>1. PICK q \in Requested : Moves(t, q) /\ q.pc = "complete"
    BY <1>2, TurnsOn
  <2> QED
    BY <1>1, <2>1, AwayStep
<1>3. CASE ~Turns(t, "complete")
  <2> DEFINE q == [r EXCEPT !.i = r.i + 1]
  <2>1. Moves(t, q)
    BY <1>3 DEF Order
  <2>2. q \in Requested /\ q.pc = "order"
    BY <1>1 DEF Requested
  <2> HIDE DEF q
  <2> QED
    BY <1>1, <2>1, <2>2, AwayStep
<1> QED
  BY <1>2, <1>3

\* A request ends.
LEMMA EndSteps ==
  ASSUME \A s, t \in Approvals : s = t, IssueTyped, IssueInv, NEW t \in Approvals,
         CompleteAction(t) \/ Decomposes(t) \/ Registers(t)
  PROVE  approving' \in [Approvals -> Requested] /\ IssueInv' /\ action' \in [Revisions -> Kept]
<1>1. approving[t] \in Requested /\ UNCHANGED subissues
  BY DEF IssueTyped, CompleteAction, Decomposes, Registers
<1>2. \E q \in Requested : Moves(t, q) /\ q.pc \in {"idle", "decompose", "register"}
  <2>1. CASE CompleteAction(t)
    BY <2>1, TurnsOn DEF CompleteAction
  <2>2. CASE Decomposes(t)
    BY <2>2, TurnsOn DEF Decomposes
  <2>3. CASE Registers(t)
    BY <2>3, NoRequestTyped DEF Registers
  <2> QED
    BY <2>1, <2>2, <2>3
<1>3. approving' \in [Approvals -> Requested] /\ IssueInv'
  BY <1>1, <1>2, AwayStep
<1>4. [state |-> "complete", children |-> approving[t].children] \in Kept
  BY RequestFields DEF Kept
<1>5. action' \in [Revisions -> Kept]
  BY <1>4 DEF CompleteAction, Decomposes, Registers, IssueTyped
<1> QED
  BY <1>3, <1>5

\* A call of GitHub fails; what it was to do may be done.
LEMMA GitHubFailsStep ==
  ASSUME \A s, t \in Approvals : s = t, IssueTyped, IssueInv, NEW t \in Approvals, GitHubFails(t)
  PROVE  /\ approving' \in [Approvals -> Requested] /\ subissues' \in Seq(SubIssue) /\ IssueInv'
         /\ action' \in [Revisions -> Kept]
<1>1. Moves(t, NoRequest)
  BY DEF GitHubFails
<1>2. subissues' = subissues \/ (At(t, "child") /\ subissues' = Written(approving[t]))
  BY DEF GitHubFails, At
<1>3. OneIssueEach' /\ subissues' \in Seq(SubIssue)
  BY <1>2, WrittenEach DEF IssueTyped, IssueInv, OneIssueEach, Issues
<1>4. approving' \in [Approvals -> Requested] /\ approving'[t] = NoRequest
  BY <1>1, NoRequestTyped, MovesTyped
<1>5. PassedItems(approving[t])'
  BY <1>4, NoRequestTyped DEF PassedItems
<1>6. \A v \in Revisions : [action[v] EXCEPT !.state = "pending"] \in Kept
  <2> SUFFICES ASSUME NEW v \in Revisions PROVE [action[v] EXCEPT !.state = "pending"] \in Kept
    OBVIOUS
  <2>1. action[v] \in Kept
    BY DEF IssueTyped
  <2> QED
    BY <2>1 DEF Kept
<1>7. PICK v : action' = [action EXCEPT ![v] = [action[v] EXCEPT !.state = "pending"]]
  BY DEF GitHubFails
<1>8. action' \in [Revisions -> Kept]
  BY <1>6, <1>7 DEF IssueTyped
<1> QED
  BY <1>3, <1>4, <1>5, <1>8 DEF IssueInv

\* An item has one issue, for any checklists and any number of failures and
\* crashes, as long as one request of approval is handled at a time.
THEOREM OneIssueEachHolds ==
  ASSUME \A s, t \in Approvals : s = t
  PROVE  SubIssuesSpec => []OneIssueEach
<1>1. SubIssuesInit => IssueTyped /\ IssueInv
  <2> SUFFICES ASSUME SubIssuesInit PROVE IssueTyped /\ IssueInv
    OBVIOUS
  <2>1. <<>> \in Seq(Nat) /\ <<>> \in Seq(SubIssue)
    OBVIOUS
  <2>2. [state |-> "none", children |-> <<>>] \in Kept
    BY <2>1 DEF Kept
  <2>3. 1 \in Revisions
    BY SubIssuesAssumption DEF Revisions
  <2>4. IssueTyped
    BY <2>1, <2>2, <2>3, NoRequestTyped DEF SubIssuesInit, IssueTyped
  <2>5. \A t \in Approvals : approving[t].pc = "idle"
    BY NoRequestTyped DEF SubIssuesInit
  <2>6. OneIssueEach
    BY DEF SubIssuesInit, OneIssueEach, Issues
  <2> QED
    BY <2>4, <2>5, <2>6 DEF IssueInv, PassedItems
<1>2. IssueTyped /\ IssueInv /\ [SubIssuesNext]_issueVars => (IssueTyped /\ IssueInv)'
  <2>1. ASSUME IssueTyped, IssueInv, UNCHANGED <<subissues, approving>> PROVE IssueInv'
    BY <2>1 DEF IssueInv, OneIssueEach, PassedItems, SeenIsThere, Issues
  <2>2. ASSUME IssueTyped, IssueInv, Withdraw \/ Revise \/ UNCHANGED issueVars PROVE (IssueTyped /\ IssueInv)'
    BY <2>1, <2>2 DEF Withdraw, Revise, issueVars, IssueTyped
  <2>3. ASSUME IssueTyped, IssueInv, NEW t \in Approvals, Grant(t) PROVE (IssueTyped /\ IssueInv)'
    BY <2>3, GrantStep DEF Grant, IssueTyped
  <2>4. ASSUME IssueTyped, IssueInv, NEW t \in Approvals, BeginAction(t) PROVE (IssueTyped /\ IssueInv)'
    <3>1. UNCHANGED <<revision, subissues>>
      BY <2>4 DEF BeginAction
    <3> QED
      BY <2>4, <3>1, BeginActionStep DEF IssueTyped
  <2>5. ASSUME IssueTyped, IssueInv, NEW t \in Approvals, List(t) PROVE (IssueTyped /\ IssueInv)'
    <3>1. UNCHANGED <<revision, subissues, action>>
      BY <2>5 DEF List
    <3> QED
      BY <2>5, <3>1, ListStep DEF IssueTyped
  <2>6. ASSUME IssueTyped, IssueInv, NEW t \in Approvals, Child(t) PROVE (IssueTyped /\ IssueInv)'
    BY <2>6, ChildStep DEF Child, IssueTyped
  <2>7. ASSUME IssueTyped, IssueInv, NEW t \in Approvals, Order(t) PROVE (IssueTyped /\ IssueInv)'
    BY <2>7, OrderStep DEF Order, IssueTyped
  <2>8. ASSUME IssueTyped, IssueInv, NEW t \in Approvals, CompleteAction(t) \/ Decomposes(t) \/ Registers(t)
        PROVE  (IssueTyped /\ IssueInv)'
    BY <2>8, EndSteps DEF CompleteAction, Decomposes, Registers, IssueTyped
  <2>9. ASSUME IssueTyped, IssueInv, NEW t \in Approvals, GitHubFails(t) PROVE (IssueTyped /\ IssueInv)'
    BY <2>9, GitHubFailsStep DEF GitHubFails, IssueTyped
  <2>10. ASSUME IssueTyped, IssueInv, IssueCrash PROVE (IssueTyped /\ IssueInv)'
    <3>1. approving' \in [Approvals -> Requested] /\ \A t \in Approvals : approving'[t].pc = "idle"
      BY <2>10, NoRequestTyped DEF IssueCrash
    <3> QED
      BY <2>10, <3>1 DEF IssueCrash, IssueTyped, IssueInv, OneIssueEach, PassedItems, Issues
  <2> QED
    BY <2>2, <2>3, <2>4, <2>5, <2>6, <2>7, <2>8, <2>9, <2>10 DEF SubIssuesNext
<1>3. IssueInv => OneIssueEach
  BY DEF IssueInv
<1> QED
  BY <1>1, <1>2, <1>3, PTL DEF SubIssuesSpec

-----------------------------------------------------------------------------
(* The types of SubIssues: for every number of requests at the same time,  *)
(* a list of issues stays one because issues are only added, and a request *)
(* at an item has the issues of the items before it.                       *)

IssueStages == {"review", "accepted", "decomposed"}
RequestSteps == {"idle", "begin", "list", "child", "order", "complete", "decompose", "register"}
SeenList == Seq(SubIssue)
IssueList == Seq(Issues)
Places == Nat \ {0}
Request(list) == [pc : RequestSteps, v : {0} \union Revisions, seen : SeenList, children : list, i : Places]
ActionRow == [state : {"none", "pending", "complete"}, children : IssueList]

\* Where a request is: it has a version, and the issues of the items it passed.
Placed(r) ==
  /\ r.pc # "idle" => r.v \in Revisions
  /\ r.pc \in {"begin", "list"} => r.children = <<>> /\ r.i = 1
  /\ r.pc = "child" => /\ r.i \in Items(r.v) /\ Len(r.children) = r.i - 1
                       /\ DOMAIN r.seen \subseteq Issues

\* What is kept of a plan.
PlanKept ==
  /\ revision \in Revisions /\ granted \in {0} \union Revisions
  /\ stage \in IssueStages
  /\ issueFaults \in 0..MaxIssueFaults

IssuesKept ==
  /\ subissues \in SeenList
  /\ blocking \subseteq Issues \X Issues
  /\ action \in [Revisions -> ActionRow]
  /\ delivered \in IssueList

RequestsKept == approving \in [Approvals -> Request(IssueList)] /\ \A t \in Approvals : Placed(approving[t])

\* The issues are only added to.
LEMMA IssuesGrow ==
  ASSUME subissues \in SeenList, subissues' \in SeenList, Len(subissues) <= Len(subissues')
  PROVE  Issues \subseteq Issues' /\ IssueList \subseteq IssueList'
<1>1. Issues = 1..Len(subissues) /\ Issues' = 1..Len(subissues') /\ {Len(subissues), Len(subissues')} \subseteq Nat
  BY DEF SeenList, Issues
<1>2. Issues \subseteq Issues'
  BY <1>1
<1>3. \A s \in Seq(Issues) : s \in Seq(Issues')
  BY <1>2
<1> QED
  BY <1>2, <1>3 DEF IssueList

\* The list with no issue, and a list with one more.
LEMMA NoIssues == <<>> \in IssueList /\ <<>> \in SeenList
  BY DEF IssueList, SeenList

\* A list of issues with one more issue is one.
LEMMA OneMore ==
  ASSUME NEW c \in IssueList', NEW n \in Issues'
  PROVE  Append(c, n) \in IssueList' /\ Len(Append(c, n)) = Len(c) + 1
BY DEF IssueList

\* With more issues, rows and requests are still rows and requests.
LEMMA StillTyped ==
  ASSUME Issues \subseteq Issues', IssueList \subseteq IssueList'
  PROVE  Request(IssueList) \subseteq Request(IssueList') /\ ActionRow \subseteq ActionRow'
         /\ \A r : Placed(r) => Placed(r)'
BY DEF Request, ActionRow, Placed

\* No request.
LEMMA NoRequestPlaced == NoRequest \in Request(IssueList) /\ Placed(NoRequest) /\ NoRequest.pc = "idle"
  BY NoIssues DEF NoRequest, Request, RequestSteps, Placed, Places

\* A request moves on, the others stay.
LEMMA RequestMoves ==
  ASSUME RequestsKept, Issues \subseteq Issues', IssueList \subseteq IssueList',
         NEW t \in Approvals, NEW q \in Request(IssueList'), Moves(t, q), Placed(q)'
  PROVE  RequestsKept'
<1>1. Request(IssueList) \subseteq Request(IssueList') /\ \A r : Placed(r) => Placed(r)'
  BY StillTyped
<1>2. approving \in [Approvals -> Request(IssueList')]
  BY <1>1 DEF RequestsKept
<1>3. approving' \in [Approvals -> Request(IssueList')]
  BY <1>2 DEF Moves
<1>4. approving'[t] = q /\ \A s \in Approvals \ {t} : approving'[s] = approving[s]
  BY <1>2 DEF Moves
<1>5. \A s \in Approvals : Placed(approving[s])'
  BY <1>1, <1>4 DEF RequestsKept
<1> QED
  BY <1>3, <1>5 DEF RequestsKept

\* The same, when no issue is added.
LEMMA RequestMovesOnly ==
  ASSUME RequestsKept, UNCHANGED subissues, NEW t \in Approvals, NEW q \in Request(IssueList), Moves(t, q), Placed(q)
  PROVE  RequestsKept'
<1>1. Issues' = Issues /\ IssueList' = IssueList
  BY DEF Issues, IssueList
<1>2. Request(IssueList') = Request(IssueList) /\ (Placed(q) => Placed(q)')
  BY <1>1 DEF Request, Placed
<1> QED
  BY <1>1, <1>2, RequestMoves

\* A request is the record of its fields.
LEMMA RequestShape ==
  ASSUME NEW list, NEW r \in Request(list)
  PROVE  r = [pc |-> r.pc, v |-> r.v, seen |-> r.seen, children |-> r.children, i |-> r.i]
BY DEF Request

\* A request with another value of a field.
WithStep(r, x) == [r EXCEPT !.pc = x]
WithVersion(r, x) == [r EXCEPT !.v = x]
WithSeen(r, x) == [r EXCEPT !.seen = x]
WithChildren(r, x) == [r EXCEPT !.children = x]
WithItem(r, x) == [r EXCEPT !.i = x]

\* One field of a request changes.
LEMMA StepSet ==
  ASSUME NEW list, NEW r \in Request(list), NEW x \in RequestSteps
  PROVE  LET q == WithStep(r, x) IN
         q \in Request(list) /\ q.pc = x /\ q.v = r.v /\ q.seen = r.seen /\ q.children = r.children /\ q.i = r.i
<1> DEFINE q == WithStep(r, x)
<1>1. q = [pc |-> x, v |-> r.v, seen |-> r.seen, children |-> r.children, i |-> r.i]
  BY RequestShape DEF WithStep
<1> HIDE DEF q
<1>2. q \in Request(list) /\ q.pc = x /\ q.v = r.v /\ q.seen = r.seen /\ q.children = r.children /\ q.i = r.i
  BY <1>1 DEF Request
<1> QED
  BY <1>2 DEF q

\* Another field.
LEMMA VersionSet ==
  ASSUME NEW list, NEW r \in Request(list), NEW x \in {0} \union Revisions
  PROVE  LET q == WithVersion(r, x) IN
         q \in Request(list) /\ q.v = x /\ q.pc = r.pc /\ q.seen = r.seen /\ q.children = r.children /\ q.i = r.i
<1> DEFINE q == WithVersion(r, x)
<1>1. q = [pc |-> r.pc, v |-> x, seen |-> r.seen, children |-> r.children, i |-> r.i]
  BY RequestShape DEF WithVersion
<1> HIDE DEF q
<1>2. q \in Request(list) /\ q.v = x /\ q.pc = r.pc /\ q.seen = r.seen /\ q.children = r.children /\ q.i = r.i
  BY <1>1 DEF Request
<1> QED
  BY <1>2 DEF q

\* Another field.
LEMMA SeenSet ==
  ASSUME NEW list, NEW r \in Request(list), NEW x \in SeenList
  PROVE  LET q == WithSeen(r, x) IN
         q \in Request(list) /\ q.seen = x /\ q.pc = r.pc /\ q.v = r.v /\ q.children = r.children /\ q.i = r.i
<1> DEFINE q == WithSeen(r, x)
<1>1. q = [pc |-> r.pc, v |-> r.v, seen |-> x, children |-> r.children, i |-> r.i]
  BY RequestShape DEF WithSeen
<1> HIDE DEF q
<1>2. q \in Request(list) /\ q.seen = x /\ q.pc = r.pc /\ q.v = r.v /\ q.children = r.children /\ q.i = r.i
  BY <1>1 DEF Request
<1> QED
  BY <1>2 DEF q

\* Another field.
LEMMA ChildrenSet ==
  ASSUME NEW list, NEW r \in Request(list), NEW x \in list
  PROVE  LET q == WithChildren(r, x) IN
         q \in Request(list) /\ q.children = x /\ q.pc = r.pc /\ q.v = r.v /\ q.seen = r.seen /\ q.i = r.i
<1> DEFINE q == WithChildren(r, x)
<1>1. q = [pc |-> r.pc, v |-> r.v, seen |-> r.seen, children |-> x, i |-> r.i]
  BY RequestShape DEF WithChildren
<1> HIDE DEF q
<1>2. q \in Request(list) /\ q.children = x /\ q.pc = r.pc /\ q.v = r.v /\ q.seen = r.seen /\ q.i = r.i
  BY <1>1 DEF Request
<1> QED
  BY <1>2 DEF q

\* Another field.
LEMMA ItemSet ==
  ASSUME NEW list, NEW r \in Request(list), NEW x \in Places
  PROVE  LET q == WithItem(r, x) IN
         q \in Request(list) /\ q.i = x /\ q.pc = r.pc /\ q.v = r.v /\ q.seen = r.seen /\ q.children = r.children
<1> DEFINE q == WithItem(r, x)
<1>1. q = [pc |-> r.pc, v |-> r.v, seen |-> r.seen, children |-> r.children, i |-> x]
  BY RequestShape DEF WithItem
<1> HIDE DEF q
<1>2. q \in Request(list) /\ q.i = x /\ q.pc = r.pc /\ q.v = r.v /\ q.seen = r.seen /\ q.children = r.children
  BY <1>1 DEF Request
<1> QED
  BY <1>2 DEF q

\* The same request at another step.
LEMMA RequestTurns ==
  ASSUME NEW list, NEW r \in Request(list), NEW step \in RequestSteps, NEW i \in Places,
         NEW q, q = WithItem(WithStep(r, step), i)
  PROVE  q \in Request(list) /\ q.pc = step /\ q.v = r.v /\ q.seen = r.seen /\ q.children = r.children /\ q.i = i
<1>1. PICK p : p = WithStep(r, step)
  OBVIOUS
<1>2. p \in Request(list) /\ p.pc = step /\ p.v = r.v /\ p.seen = r.seen /\ p.children = r.children
  BY <1>1, StepSet
<1>3. q = WithItem(p, i)
  BY <1>1
<1> QED
  BY <1>2, <1>3, ItemSet

\* The owner, and the steps of a request that leave the issues alone.
LEMMA RequestSimple ==
  ASSUME PlanKept, IssuesKept, RequestsKept, NEW t \in Approvals,
         Grant(t) \/ BeginAction(t) \/ List(t) \/ Order(t) \/ CompleteAction(t) \/ Decomposes(t) \/ Registers(t)
  PROVE  RequestsKept'
<1> DEFINE r == approving[t]
<1>1. r \in Request(IssueList) /\ Placed(r)
  BY DEF RequestsKept
<1>2. UNCHANGED subissues
  BY DEF Grant, BeginAction, List, Order, CompleteAction, Decomposes, Registers
<1>3. r.v \in {0} \union Revisions /\ r.seen \in SeenList /\ r.children \in IssueList /\ r.i \in Nat \ {0}
  BY <1>1 DEF Request, Places
<1>11. 1 \in Places
  BY DEF Places
<1>4. CASE UNCHANGED approving
  <2>1. Issues' = Issues /\ IssueList' = IssueList
    BY <1>2 DEF Issues, IssueList
  <2>2. Request(IssueList') = Request(IssueList) /\ \A q : Placed(q) => Placed(q)'
    BY <2>1 DEF Request, Placed
  <2> QED
    BY <1>4, <2>2 DEF RequestsKept
<1>5. CASE Grant(t) /\ approving' # approving
  <2> DEFINE q == [NoRequest EXCEPT !.pc = "begin", !.v = revision]
  <2> DEFINE p == [NoRequest EXCEPT !.pc = "begin"]
  <2>1. q = WithVersion(p, revision) /\ p = WithStep(NoRequest, "begin")
    BY DEF WithVersion, WithStep
  <2> HIDE DEF p, q
  <2>2. p \in Request(IssueList) /\ p.pc = "begin" /\ p.children = <<>> /\ p.i = 1
    <3>1. NoRequest.children = <<>> /\ NoRequest.i = 1
      BY DEF NoRequest
    <3> QED
      BY <2>1, <3>1, NoRequestPlaced, StepSet DEF RequestSteps
  <2>3. q \in Request(IssueList) /\ Placed(q)
    <3>1. revision \in {0} \union Revisions /\ revision \in Revisions
      BY DEF PlanKept
    <3>2. q \in Request(IssueList) /\ q.v = revision /\ q.pc = "begin" /\ q.children = <<>> /\ q.i = 1
      BY <2>1, <2>2, <3>1, VersionSet
    <3> QED
      BY <3>1, <3>2 DEF Placed
  <2>4. Moves(t, q)
    BY <1>5 DEF Grant, q
  <2> QED
    BY <1>2, <2>3, <2>4, RequestMovesOnly
<1>6. CASE BeginAction(t)
  <2>1. r.pc = "begin" /\ r.v \in Revisions
    BY <1>1, <1>6 DEF BeginAction, At, Placed
  <2>2. action[r.v].children \in IssueList
    BY <2>1 DEF IssuesKept, ActionRow
  <2>3. CASE action[r.v].state = "complete"
    <3> DEFINE q == [r EXCEPT !.pc = "decompose", !.children = action[r.v].children]
    <3> DEFINE p == [r EXCEPT !.pc = "decompose"]
    <3>1. q = WithChildren(p, action[r.v].children) /\ p = WithStep(r, "decompose")
      BY DEF WithChildren, WithStep
    <3> HIDE DEF p, q
    <3>2. p \in Request(IssueList) /\ p.pc = "decompose" /\ p.v = r.v
      BY <1>1, <3>1, StepSet DEF RequestSteps
    <3>3. q \in Request(IssueList) /\ Placed(q)
      <4>1. q \in Request(IssueList) /\ q.pc = "decompose" /\ q.v = r.v
        BY <2>2, <3>1, <3>2, ChildrenSet
      <4> QED
        BY <2>1, <4>1 DEF Placed
    <3>4. Moves(t, q)
      BY <1>6, <2>3 DEF BeginAction, q
    <3> QED
      BY <1>2, <3>3, <3>4, RequestMovesOnly
  <2>4. CASE action[r.v].state # "complete"
    <3> DEFINE q == [r EXCEPT !.pc = "list", !.i = 1]
    <3>1. Moves(t, q) /\ q = WithItem(WithStep(r, "list"), 1) /\ "list" \in RequestSteps
      BY <1>6, <2>4 DEF BeginAction, Turns, WithItem, WithStep, RequestSteps
    <3> HIDE DEF q, r
    <3>2. q \in Request(IssueList) /\ q.pc = "list" /\ q.v = r.v /\ q.children = r.children /\ q.i = 1
      BY <1>1, <1>11, <3>1, RequestTurns
    <3>3. Placed(q)
      BY <1>1, <2>1, <3>2 DEF Placed
    <3> QED
      BY <1>2, <3>1, <3>2, <3>3, RequestMovesOnly
  <2> QED
    BY <2>3, <2>4
<1>7. CASE List(t)
  <2> DEFINE q == [r EXCEPT !.pc = "child", !.seen = subissues]
  <2>1. r.pc = "list" /\ r.v \in Revisions /\ r.children = <<>> /\ r.i = 1
    BY <1>1, <1>7 DEF List, At, Placed
  <2> DEFINE p == [r EXCEPT !.pc = "child"]
  <2>2. q = WithSeen(p, subissues) /\ p = WithStep(r, "child")
    BY DEF WithSeen, WithStep
  <2>3. q \in Request(IssueList) /\ q.pc = "child" /\ q.v = r.v /\ q.children = r.children /\ q.i = r.i /\ q.seen = subissues
    <3> HIDE DEF p, q
    <3>1. p \in Request(IssueList) /\ p.pc = "child" /\ p.v = r.v /\ p.children = r.children /\ p.i = r.i
      BY <1>1, <2>2, StepSet DEF RequestSteps
    <3> QED
      BY <2>2, <3>1, SeenSet DEF IssuesKept
  <2>4. 1 \in Items(r.v)
    <3>1. Outline[r.v] \in Seq(Nat) /\ Outline[r.v] # <<>>
      BY <2>1, SubIssuesAssumption DEF Revisions
    <3> QED
      BY <3>1 DEF Items
  <2>5. Placed(q)
    BY <2>1, <2>3, <2>4 DEF Placed, Issues
  <2>6. Moves(t, q)
    BY <1>7 DEF List
  <2> HIDE DEF q
  <2> QED
    BY <1>2, <2>3, <2>5, <2>6, RequestMovesOnly
<1>8. CASE Order(t)
  <2>1. r.pc = "order" /\ r.v \in Revisions
    BY <1>1, <1>8 DEF Order, At, Placed
  <2>2. CASE Turns(t, "complete")
    <3> DEFINE q == [r EXCEPT !.pc = "complete", !.i = 1]
    <3>1. Moves(t, q) /\ q = WithItem(WithStep(r, "complete"), 1) /\ "complete" \in RequestSteps
      BY <2>2 DEF Turns, WithItem, WithStep, RequestSteps
    <3> HIDE DEF q, r
    <3>2. q \in Request(IssueList) /\ q.pc = "complete" /\ q.v = r.v
      BY <1>1, <1>11, <3>1, RequestTurns
    <3>3. Placed(q)
      BY <2>1, <3>2 DEF Placed
    <3> QED
      BY <1>2, <3>1, <3>2, <3>3, RequestMovesOnly
  <2>3. CASE Moves(t, [r EXCEPT !.i = @ + 1])
    <3> DEFINE q == [r EXCEPT !.i = @ + 1]
    <3>1. q = WithItem(r, r.i + 1)
      BY DEF WithItem
    <3>2. r.i + 1 \in Places
      BY <1>3 DEF Places
    <3> HIDE DEF q
    <3>3. q \in Request(IssueList) /\ q.pc = r.pc /\ q.v = r.v
      BY <1>1, <3>1, <3>2, ItemSet
    <3>4. Placed(q)
      BY <2>1, <3>3 DEF Placed
    <3> HIDE DEF q
    <3> QED
      BY <1>2, <2>3, <3>3, <3>4, RequestMovesOnly DEF q
  <2> QED
    BY <1>8, <2>2, <2>3 DEF Order
<1>9. CASE CompleteAction(t) \/ Decomposes(t)
  <2>1. PICK step \in {"decompose", "register"} : Turns(t, step)
    BY <1>9 DEF CompleteAction, Decomposes
  <2>2. r.v \in Revisions
    BY <1>1, <1>9 DEF CompleteAction, Decomposes, At, Placed
  <2> DEFINE q == [r EXCEPT !.pc = step, !.i = 1]
  <2>3. Moves(t, q) /\ q = WithItem(WithStep(r, step), 1) /\ step \in RequestSteps
    BY <2>1 DEF Turns, RequestSteps, WithItem, WithStep
  <2> HIDE DEF q, r
  <2>4. q \in Request(IssueList) /\ q.pc = step /\ q.v = r.v
    BY <1>1, <1>11, <2>3, RequestTurns
  <2>5. Placed(q)
    BY <2>1, <2>2, <2>4 DEF Placed
  <2> QED
    BY <1>2, <2>3, <2>4, <2>5, RequestMovesOnly
<1>10. CASE Registers(t)
  BY <1>2, <1>10, NoRequestPlaced, RequestMovesOnly DEF Registers
<1> QED
  BY <1>4, <1>5, <1>6, <1>7, <1>8, <1>9, <1>10

\* An item's issue is written, and the request has it.
LEMMA IssueWritten ==
  ASSUME IssuesKept, RequestsKept, NEW t \in Approvals, At(t, "child"),
         NEW w, w = Written(approving[t])
  PROVE  /\ w \in SeenList /\ Len(subissues) <= Len(w)
         /\ Marked(approving[t]) = {} => Len(subissues) + 1 \in DOMAIN w
         /\ Marked(approving[t]) # {} => Newest(Marked(approving[t])) \in Issues
<1> DEFINE r == approving[t]
<1>1. r \in Request(IssueList) /\ r.v \in Revisions /\ r.i \in Items(r.v) /\ Len(r.children) = r.i - 1
      /\ DOMAIN r.seen \subseteq Issues
  BY DEF RequestsKept, Placed, At
<1>2. r.seen \in SeenList /\ r.children \in IssueList /\ r.i \in Nat \ {0}
  BY <1>1 DEF Request, Places
<1>3. subissues \in Seq(SubIssue)
  BY DEF IssuesKept, SeenList
<1>4. CASE Marked(r) = {}
  <2>1. Outline[r.v][r.i] \in Nat /\ Outline[r.v][r.i] < r.i
    <3>1. Outline[r.v] \in Seq(Nat)
      BY <1>1, SubIssuesAssumption DEF Revisions
    <3> QED
      BY <1>1, <3>1, SubIssuesAssumption DEF Revisions, Items
  <2>2. ParentOf(r) \in Nat
    <3>1. r.children \in Seq(Issues)
      BY <1>2 DEF IssueList
    <3>2. Issues \subseteq Nat
      BY <1>3 DEF Issues
    <3>3. \A k \in 1..Len(r.children) : r.children[k] \in Nat
      <4>1. \A k \in 1..Len(r.children) : r.children[k] \in Issues
        BY <3>1
      <4> QED
        BY <3>2, <4>1
    <3>4. Outline[r.v][r.i] # 0 => Outline[r.v][r.i] \in 1..Len(r.children)
      BY <1>1, <1>2, <2>1
    <3> QED
      BY <3>3, <3>4 DEF ParentOf
  <2> DEFINE x == [item |-> r.i, text |-> r.v, parent |-> ParentOf(r)]
  <2>3. x \in SubIssue
    BY <1>1, <1>2, <2>2 DEF SubIssue
  <2>4. w = Append(subissues, x)
    BY <1>4 DEF Written, Posted
  <2> HIDE DEF x
  <2> QED
    BY <1>3, <1>4, <2>3, <2>4 DEF SeenList
<1>5. CASE Marked(r) # {}
  <2>1. \E n \in Marked(r) : \A m \in Marked(r) : m <= n
    <3>1. Marked(r) \in SUBSET (1..Len(r.seen)) /\ Len(r.seen) \in Nat
      BY <1>2 DEF Marked, SeenList
    <3> QED
      BY <1>5, <3>1, LastOf
  <2> DEFINE n == Newest(Marked(r))
  <2>2. n \in Marked(r)
    BY <2>1 DEF Newest
  <2>3. n \in Issues
    BY <1>1, <2>2 DEF Marked
  <2>4. w = subissues \/ w = [subissues EXCEPT ![n] = [subissues[n] EXCEPT !.text = r.v]]
    BY <1>5 DEF Written
  <2> HIDE DEF n
  <2>5. subissues[n] \in SubIssue
    BY <1>3, <2>3 DEF Issues
  <2> DEFINE x == [subissues[n] EXCEPT !.text = r.v]
  <2>6. x \in SubIssue
    BY <1>1, <2>5 DEF SubIssue
  <2>7. w = subissues \/ w = [subissues EXCEPT ![n] = x]
    BY <2>4
  <2> HIDE DEF x
  <2> QED
    BY <1>3, <1>5, <2>3, <2>6, <2>7 DEF SeenList, Issues, n
<1> QED
  BY <1>4, <1>5
\* A request, once an item's issue is written.
LEMMA ChildKept ==
  ASSUME IssuesKept, RequestsKept, NEW t \in Approvals, Child(t)
  PROVE  IssuesKept' /\ RequestsKept'
<1> DEFINE r == approving[t]
           n == IF Marked(r) = {} THEN Len(subissues) + 1 ELSE Newest(Marked(r))
<1>1. At(t, "child") /\ subissues' = Written(r) /\ HasChild(t, n) /\ UNCHANGED <<blocking, action, delivered>>
  BY DEF Child
<1>2. /\ subissues' \in SeenList /\ Len(subissues) <= Len(subissues')
      /\ Marked(r) = {} => Len(subissues) + 1 \in DOMAIN subissues'
      /\ Marked(r) # {} => Newest(Marked(r)) \in Issues
  BY <1>1, IssueWritten
<1>3. Issues \subseteq Issues' /\ IssueList \subseteq IssueList'
  BY <1>2, IssuesGrow DEF IssuesKept
<1>4. Issues' = DOMAIN subissues'
  BY DEF Issues
<1>5. n \in Issues'
  BY <1>2, <1>3, <1>4
<1> HIDE DEF n
<1>6. IssuesKept'
  BY <1>1, <1>2, <1>3, StillTyped DEF IssuesKept
<1>7. r \in Request(IssueList) /\ r.v \in Revisions /\ r.i \in Items(r.v) /\ Len(r.children) = r.i - 1
      /\ DOMAIN r.seen \subseteq Issues
  BY <1>1 DEF RequestsKept, Placed, At
<1>8. r.v \in {0} \union Revisions /\ r.seen \in SeenList /\ r.children \in IssueList /\ r.i \in Nat \ {0}
  BY <1>7 DEF Request, Places
<1> DEFINE c == Append(r.children, n)
           last == r.i = Len(Outline[r.v])
           step == IF last THEN "order" ELSE "child"
           i == IF last THEN 1 ELSE r.i + 1
<1>10. c \in IssueList' /\ Len(c) = r.i
  <2>1. c \in IssueList' /\ Len(c) = Len(r.children) + 1
    BY <1>3, <1>5, <1>8, OneMore
  <2> QED
    BY <1>7, <1>8, <2>1
<1>11. ~last => r.i + 1 \in Items(r.v)
  <2>1. Outline[r.v] \in Seq(Nat)
    BY <1>7, SubIssuesAssumption DEF Revisions
  <2> QED
    BY <1>7, <2>1 DEF Items
<1>12. Moves(t, [r EXCEPT !.children = c, !.i = i, !.pc = step])
  BY <1>1 DEF HasChild
<1> HIDE DEF c
<1>13. i \in Places /\ step \in RequestSteps
  BY <1>8 DEF RequestSteps, Places
<1>14. ~last => Len(c) = i - 1
  BY <1>10, <1>8
<1>15. (step = "child" => ~last) /\ step \in {"child", "order"} /\ (~last => i = r.i + 1)
  OBVIOUS
<1>9. r \in Request(IssueList')
  BY <1>3, <1>7, StillTyped
<1> HIDE DEF i, step, last, r
<1>16. PICK q : Moves(t, q) /\ q = WithStep(WithItem(WithChildren(r, c), i), step)
  BY <1>12 DEF WithStep, WithItem, WithChildren
<1>17. q \in Request(IssueList') /\ q.pc = step /\ q.v = r.v /\ q.seen = r.seen /\ q.children = c /\ q.i = i
  <2>1. PICK p1 : p1 = WithChildren(r, c)
    OBVIOUS
  <2>2. p1 \in Request(IssueList') /\ p1.v = r.v /\ p1.seen = r.seen /\ p1.children = c
    BY <1>9, <1>10, <2>1, ChildrenSet
  <2>3. PICK p2 : p2 = WithItem(p1, i)
    OBVIOUS
  <2>4. p2 \in Request(IssueList') /\ p2.v = r.v /\ p2.seen = r.seen /\ p2.children = c /\ p2.i = i
    BY <1>13, <2>2, <2>3, ItemSet
  <2>5. q = WithStep(p2, step)
    BY <1>16, <2>1, <2>3
  <2> QED
    BY <1>13, <2>4, <2>5, StepSet
<1>18. Placed(q)'
  <2>1. q.pc \in {"child", "order"} /\ q.v \in Revisions
    BY <1>7, <1>15, <1>17
  <2>2. q.pc = "child" => q.i \in Items(q.v) /\ Len(q.children) = q.i - 1
    BY <1>11, <1>14, <1>15, <1>17
  <2>3. DOMAIN q.seen \subseteq Issues'
    BY <1>3, <1>7, <1>17
  <2> QED
    BY <2>1, <2>2, <2>3 DEF Placed
<1> QED
  BY <1>3, <1>6, <1>16, <1>17, <1>18, RequestMoves

\* The blockers of an item's issue are issues.
LEMMA BlockersTyped ==
  ASSUME RequestsKept, NEW t \in Approvals, approving[t].i <= Len(approving[t].children)
  PROVE  Blockers(approving[t]) \subseteq Issues \X Issues
<1> DEFINE r == approving[t]
<1>1. r.children \in Seq(Issues) /\ r.i \in Nat \ {0}
  BY DEF RequestsKept, Request, IssueList, Places
<1>2. \A k \in 1..r.i : r.children[k] \in Issues
  BY <1>1
<1>3. Before(r.v, r.i) \subseteq 1..r.i /\ r.i \in 1..r.i
  BY <1>1 DEF Before
<1> QED
  BY <1>2, <1>3 DEF Blockers

\* What the steps of a request leave of the issues.
LEMMA IssuesStep ==
  ASSUME IssuesKept, RequestsKept, NEW t \in Approvals,
         Grant(t) \/ BeginAction(t) \/ List(t) \/ Order(t) \/ CompleteAction(t) \/ Decomposes(t) \/ Registers(t)
  PROVE  IssuesKept'
<1> DEFINE r == approving[t]
<1>1. r \in Request(IssueList) /\ Placed(r) /\ r.children \in IssueList
  BY DEF RequestsKept, Request
<1>2. UNCHANGED subissues
  BY DEF Grant, BeginAction, List, Order, CompleteAction, Decomposes, Registers
<1>3. Issues' = Issues /\ IssueList' = IssueList /\ ActionRow' = ActionRow
  BY <1>2 DEF Issues, IssueList, ActionRow
<1>4. action' \in [Revisions -> ActionRow]
  <2>1. CASE UNCHANGED action
    BY <2>1 DEF IssuesKept
  <2>2. CASE r.pc = "begin" /\ action' = [action EXCEPT ![r.v].state = "pending"]
    <3>1. r.v \in Revisions /\ action[r.v] \in ActionRow
      BY <1>1, <2>2 DEF Placed, IssuesKept
    <3> DEFINE row == [action[r.v] EXCEPT !.state = "pending"]
    <3>2. row \in ActionRow
      BY <3>1 DEF ActionRow
    <3>3. action' = [action EXCEPT ![r.v] = row]
      BY <2>2
    <3> HIDE DEF row
    <3> QED
      BY <3>2, <3>3 DEF IssuesKept
  <2>3. CASE action' = [action EXCEPT ![r.v] = [state |-> "complete", children |-> r.children]]
    <3> DEFINE row == [state |-> "complete", children |-> r.children]
    <3>1. row \in ActionRow
      BY <1>1 DEF ActionRow
    <3> HIDE DEF row
    <3> QED
      BY <2>3, <3>1 DEF IssuesKept, row
  <2> QED
    BY <2>1, <2>2, <2>3
    DEF Grant, BeginAction, List, Order, CompleteAction, Decomposes, Registers, At
<1>5. blocking' \subseteq Issues \X Issues
  <2>1. CASE UNCHANGED blocking
    BY <2>1 DEF IssuesKept
  <2>2. CASE Order(t) /\ ~UNCHANGED blocking
    <3>1. r.i <= Len(r.children)
      <4>1. r.i \in Nat /\ r.children \in Seq(Issues)
        BY <1>1 DEF Request, IssueList, Places
      <4>2. ~(r.i > Len(r.children))
        BY <2>2 DEF Order
      <4> QED
        BY <4>1, <4>2
    <3> QED
      BY <2>2, <3>1, BlockersTyped DEF Order, IssuesKept
  <2> QED
    BY <2>1, <2>2 DEF Grant, BeginAction, List, CompleteAction, Decomposes, Registers
<1>6. delivered' \in IssueList
  BY <1>1 DEF Grant, BeginAction, List, Order, CompleteAction, Decomposes, Registers, IssuesKept
<1> QED
  BY <1>2, <1>3, <1>4, <1>5, <1>6 DEF IssuesKept

\* A call fails, before or after its effect.
LEMMA FailureKept ==
  ASSUME IssuesKept, RequestsKept, NEW t \in Approvals, GitHubFails(t)
  PROVE  IssuesKept' /\ RequestsKept'
<1> DEFINE r == approving[t]
<1>1. r \in Request(IssueList) /\ r.v \in Revisions
  BY DEF RequestsKept, Placed, GitHubFails
<1>2. subissues' \in SeenList /\ Len(subissues) <= Len(subissues')
  <2>1. CASE UNCHANGED subissues
    BY <2>1 DEF IssuesKept, SeenList
  <2>2. CASE At(t, "child") /\ subissues' = Written(r)
    BY <2>2, IssueWritten
  <2> QED
    BY <2>1, <2>2 DEF GitHubFails, At
<1>3. Issues \subseteq Issues' /\ IssueList \subseteq IssueList'
  BY <1>2, IssuesGrow DEF IssuesKept
<1>4. blocking' \subseteq Issues' \X Issues'
  <2>1. CASE UNCHANGED blocking
    BY <1>3, <2>1 DEF IssuesKept
  <2>2. CASE r.i <= Len(r.children) /\ blocking' = blocking \union Blockers(r)
    <3>1. Blockers(r) \subseteq Issues \X Issues
      BY <2>2, BlockersTyped
    <3> QED
      BY <1>3, <2>2, <3>1 DEF IssuesKept
  <2> QED
    BY <2>1, <2>2 DEF GitHubFails
<1>5. action' \in [Revisions -> ActionRow']
  <2> DEFINE row == [action[r.v] EXCEPT !.state = "pending"]
  <2>1. row \in ActionRow
    <3>1. action[r.v] \in ActionRow
      BY <1>1 DEF IssuesKept
    <3> QED
      BY <3>1 DEF ActionRow
  <2>2. action' = [action EXCEPT ![r.v] = row]
    BY DEF GitHubFails
  <2>3. ActionRow \subseteq ActionRow'
    BY <1>3, StillTyped
  <2> HIDE DEF row
  <2> QED
    BY <2>1, <2>2, <2>3 DEF IssuesKept
<1>6. delivered' \in IssueList'
  BY <1>3 DEF GitHubFails, IssuesKept
<1>7. Moves(t, NoRequest) /\ NoRequest \in Request(IssueList') /\ Placed(NoRequest)'
  BY <1>3, NoRequestPlaced, StillTyped DEF GitHubFails
<1>8. RequestsKept'
  BY <1>3, <1>7, RequestMoves
<1> QED
  BY <1>2, <1>4, <1>5, <1>6, <1>8 DEF IssuesKept

\* The plan's version, its approval and its state.
LEMMA PlanStays == ASSUME PlanKept, SubIssuesNext PROVE PlanKept'
<1>1. CASE Withdraw \/ Revise
  BY <1>1 DEF Withdraw, Revise, PlanKept, IssueStages
<1>2. ASSUME NEW t \in Approvals, Grant(t) PROVE PlanKept'
  BY <1>2 DEF Grant, PlanKept, IssueStages
<1>3. ASSUME NEW t \in Approvals,
             BeginAction(t) \/ List(t) \/ Child(t) \/ Order(t) \/ CompleteAction(t) \/ Registers(t)
      PROVE  PlanKept'
  BY <1>3 DEF BeginAction, List, Child, Order, CompleteAction, Registers, PlanKept
<1>4. ASSUME NEW t \in Approvals, Decomposes(t) PROVE PlanKept'
  BY <1>4 DEF Decomposes, PlanKept, IssueStages
<1>5. CASE IssueCrash \/ \E t \in Approvals : GitHubFails(t)
  <2>1. UNCHANGED <<revision, granted, stage>> /\ issueFaults < MaxIssueFaults /\ issueFaults' = issueFaults + 1
    BY <1>5 DEF IssueCrash, GitHubFails, IssueFault
  <2> QED
    BY <2>1, SubIssuesAssumption DEF PlanKept
<1> QED
  BY <1>1, <1>2, <1>3, <1>4, <1>5 DEF SubIssuesNext

\* Every variable of the sub-issues has a value the code can give it, for every
\* number of requests of approval that are handled at the same time.
THEOREM SubIssuesTypeCorrect == SubIssuesSpec => []SubIssuesTypeOK
<1> DEFINE Inv == PlanKept /\ IssuesKept /\ RequestsKept
<1>1. SubIssuesInit => Inv
  <2> SUFFICES ASSUME SubIssuesInit PROVE Inv
    OBVIOUS
  <2>1. PlanKept
    BY SubIssuesAssumption DEF SubIssuesInit, PlanKept, IssueStages, Revisions
  <2>2. [state |-> "none", children |-> <<>>] \in ActionRow
    BY NoIssues DEF ActionRow
  <2>3. action \in [Revisions -> ActionRow]
    BY <2>2 DEF SubIssuesInit
  <2>4. IssuesKept
    BY <2>3, NoIssues DEF SubIssuesInit, IssuesKept
  <2>5. RequestsKept
    BY NoRequestPlaced DEF SubIssuesInit, RequestsKept
  <2> QED
    BY <2>1, <2>4, <2>5
<1>2. Inv /\ [SubIssuesNext]_issueVars => Inv'
  <2> SUFFICES ASSUME Inv, [SubIssuesNext]_issueVars PROVE Inv'
    OBVIOUS
  <2>1. ASSUME UNCHANGED <<subissues, blocking, action, delivered, approving>> PROVE IssuesKept' /\ RequestsKept'
    <3>1. Issues' = Issues /\ IssueList' = IssueList
      BY <2>1 DEF Issues, IssueList
    <3> QED
      BY <2>1, <3>1 DEF IssuesKept, RequestsKept, Request, ActionRow, Placed
  <2>2. CASE UNCHANGED issueVars
    BY <2>1, <2>2 DEF issueVars, PlanKept
  <2>3. CASE Withdraw \/ Revise
    BY <2>1, <2>3, PlanStays DEF Withdraw, Revise, SubIssuesNext
  <2>4. ASSUME NEW t \in Approvals,
               Grant(t) \/ BeginAction(t) \/ List(t) \/ Order(t) \/ CompleteAction(t) \/ Decomposes(t) \/ Registers(t)
        PROVE  Inv'
    BY <2>4, PlanStays, IssuesStep, RequestSimple DEF SubIssuesNext
  <2>5. ASSUME NEW t \in Approvals, Child(t) PROVE Inv'
    BY <2>5, PlanStays, ChildKept DEF SubIssuesNext
  <2>6. ASSUME NEW t \in Approvals, GitHubFails(t) PROVE Inv'
    BY <2>6, PlanStays, FailureKept DEF SubIssuesNext
  <2>7. CASE IssueCrash
    <3>1. Issues' = Issues /\ IssueList' = IssueList
      BY <2>7 DEF IssueCrash, Issues, IssueList
    <3>2. IssuesKept'
      BY <2>7, <3>1 DEF IssueCrash, IssuesKept, ActionRow
    <3>3. RequestsKept'
      BY <2>7, <3>1, NoRequestPlaced, StillTyped DEF IssueCrash, RequestsKept
    <3>4. PlanKept'
      BY <2>7, PlanStays DEF SubIssuesNext
    <3> QED
      BY <3>2, <3>3, <3>4
  <2> QED
    BY <2>2, <2>3, <2>4, <2>5, <2>6, <2>7 DEF SubIssuesNext
<1>3. Inv => SubIssuesTypeOK
  <2> SUFFICES ASSUME Inv PROVE SubIssuesTypeOK
    OBVIOUS
  <2>1. \A t \in Approvals : approving[t] \in Request(IssueList)
    BY DEF RequestsKept
  <2> QED
    BY <2>1 DEF SubIssuesTypeOK, PlanKept, IssuesKept, Request, ActionRow, RequestSteps, IssueStages, Places,
                SeenList, IssueList
<1> QED
  BY <1>1, <1>2, <1>3, PTL DEF SubIssuesSpec

-----------------------------------------------------------------------------
(* TurnTools. *)

\* The comments are a list to which texts are added.
CommentsListed == issueComments \in Seq(CommentTexts \union {"other"}) /\ SaidOnce

\* A comment is posted when the page that was read does not hold it.
LEMMA SaidOnceStep ==
  ASSUME CommentsListed, NEW c, c \in CommentTexts \union {"other"},
         issueComments' \in {issueComments, Append(issueComments, c)},
         issueComments' # issueComments =>
           c = "other" \/ (Len(issueComments) < PageSize => \A i \in DOMAIN issueComments : issueComments[i] # c)
  PROVE  CommentsListed'
<1>1. CASE issueComments' = issueComments
  BY <1>1 DEF CommentsListed, SaidOnce
<1>2. CASE issueComments' = Append(issueComments, c) /\ issueComments' # issueComments
  <2>1. issueComments' \in Seq(CommentTexts \union {"other"})
    BY <1>2 DEF CommentsListed
  <2>2. /\ Len(issueComments') = Len(issueComments) + 1 /\ Len(issueComments) \in Nat
        /\ DOMAIN issueComments = 1..Len(issueComments)
        /\ DOMAIN issueComments' = 1..(Len(issueComments) + 1)
        /\ issueComments'[Len(issueComments) + 1] = c
        /\ \A i \in 1..Len(issueComments) : issueComments'[i] = issueComments[i]
    BY <1>2 DEF CommentsListed
  <2>3. SaidOnce'
    <3> SUFFICES ASSUME Len(issueComments') <= PageSize,
                        NEW i \in DOMAIN issueComments', NEW j \in DOMAIN issueComments',
                        issueComments'[i] = issueComments'[j], issueComments'[i] # "other"
                 PROVE  i = j
      BY DEF SaidOnce
    <3>1. PageSize \in Nat
      BY TurnToolsAssumption
    <3>2. Len(issueComments) < PageSize
      BY <2>2, <3>1
    <3>3. \A k, l \in 1..Len(issueComments) :
            issueComments[k] = issueComments[l] /\ issueComments[k] # "other" => k = l
      <4>1. Len(issueComments) <= PageSize
        BY <2>2, <3>1, <3>2
      <4> QED
        BY <2>2, <4>1 DEF CommentsListed, SaidOnce
    <3>4. c # "other" => \A k \in 1..Len(issueComments) : issueComments[k] # c
      BY <1>2, <2>2, <3>2
    <3>5. i \in 1..Len(issueComments) \/ i = Len(issueComments) + 1
      BY <2>2
    <3>6. j \in 1..Len(issueComments) \/ j = Len(issueComments) + 1
      BY <2>2
    <3> QED
      BY <2>2, <3>3, <3>4, <3>5, <3>6
  <2> QED
    BY <2>1, <2>3 DEF CommentsListed
<1> QED
  BY <1>1, <1>2

\* While the comments fit the page, the page lists them all.
LEMMA PageListsAll ==
  ASSUME issueComments \in Seq(CommentTexts \union {"other"}), Len(issueComments) < PageSize, NEW text,
         ~Contains(Listed, text)
  PROVE  \A i \in DOMAIN issueComments : issueComments[i] # text
<1>1. Listed = SubSeq(issueComments, 1, Len(issueComments))
  BY DEF Listed
<1>2. Listed = issueComments
  BY <1>1
<1> QED
  BY <1>2 DEF Contains

\* The run has a call while it executes one, and an attempt left while it waits.
Phases == {"pending", "thinking", "begin", "act", "complete", "audit", "rejected", "ended", "failed"}
Run == [pc : Phases, call : {NoCall} \union Call, used : SUBSET CallIds, rounds : 0..MaxRounds]

RunTyped ==
  /\ luna \in Run
  /\ luna.pc \in {"begin", "act", "complete", "audit", "rejected"} => luna.call \in Call
  /\ attempts \in 0..MaxAttempts
  /\ luna.pc = "pending" => attempts < MaxAttempts

\* What a call fails with, or a crash: the turn is pending again, or has failed.
LEMMA NoRunTyped == ASSUME NEW step \in {"pending", "thinking", "failed"}
                    PROVE  [NoRun EXCEPT !.pc = step] \in Run
  BY TurnToolsAssumption DEF NoRun, Run, Phases, NoCall

\* A turn that fails.
LEMMA FailTurnTyped ==
  ASSUME RunTyped, FailTurn, UNCHANGED attempts, waits \in BOOLEAN
  PROVE  RunTyped' /\ waits' \in BOOLEAN
<1>1. NoRun = [NoRun EXCEPT !.pc = "pending"]
  BY DEF NoRun
<1>2. NoRun.pc = "pending" /\ [NoRun EXCEPT !.pc = "failed"].pc = "failed"
  BY DEF NoRun
<1> QED
  BY <1>1, <1>2, NoRunTyped DEF FailTurn, RunTyped

\* A step of the call.
LEMMA StepTyped ==
  ASSUME RunTyped, UNCHANGED attempts, NEW step \in Phases \ {"pending"}, Step(step),
         step \in {"begin", "act", "complete", "audit", "rejected"} => luna.call \in Call
  PROVE  RunTyped'
  BY DEF RunTyped, Step, Run

\* Every step keeps the run typed.
LEMMA RunStep == ASSUME RunTyped, waits \in BOOLEAN, TurnToolsNext PROVE RunTyped' /\ waits' \in BOOLEAN
<1>1. CASE Think
  <2>1. [NoRun EXCEPT !.pc = "thinking"].pc = "thinking"
    BY DEF NoRun
  <2> QED
    BY <1>1, <2>1, NoRunTyped, TurnToolsAssumption DEF Think, RunTyped
<1>2. CASE \E id \in CallIds, tool \in Tools, text \in CommentTexts : CallTool(id, tool, text)
  <2>1. PICK id \in CallIds, tool \in Tools, text \in CommentTexts : CallTool(id, tool, text)
    BY <1>2
  <2>2. [id |-> id, tool |-> tool, text |-> text] \in Call
    BY DEF Call
  <2>3. luna.used \in SUBSET CallIds /\ luna.rounds \in 0..MaxRounds
    BY DEF RunTyped, Run
  <2>4. luna' \in Run /\ luna'.pc = "begin" /\ luna'.call \in Call
    BY <2>1, <2>2, <2>3, TurnToolsAssumption DEF CallTool, Run, Phases
  <2> QED
    BY <2>1, <2>4 DEF CallTool, RunTyped
<1>3. CASE RunFails \/ ToolFails
  BY <1>3, FailTurnTyped DEF RunFails, ToolFails
<1>4. CASE EndRun \/ BeginCall \/ CompleteCall \/ Audit
  BY <1>4, StepTyped DEF EndRun, BeginCall, CompleteCall, Audit, RunTyped, Phases
<1>5. CASE CommentOn \/ Post \/ AsksOwner \/ Scout \/ TakeNotes
  BY <1>5, StepTyped DEF CommentOn, Post, AsksOwner, Scout, TakeNotes, RunTyped, Phases, Acts
<1>6. CASE CancelsTask \/ Packet
  BY <1>6, StepTyped, FailTurnTyped DEF CancelsTask, Packet, RunTyped, Phases, Acts
<1>7. CASE OtherComments
  BY <1>7 DEF OtherComments, RunTyped
<1>8. CASE ToolCrash
  <2>1. NoRun = [NoRun EXCEPT !.pc = "pending"] /\ NoRun.pc = "pending"
    BY DEF NoRun
  <2> QED
    BY <1>8, <2>1, NoRunTyped DEF ToolCrash, RunTyped
<1> QED
  BY <1>1, <1>2, <1>3, <1>4, <1>5, <1>6, <1>7, <1>8 DEF TurnToolsNext

\* Only a comment of a call's or of somebody else's is added.
LEMMA CommentsStep == ASSUME RunTyped, CommentsListed, TurnToolsNext PROVE CommentsListed'
<1>1. CASE UNCHANGED issueComments
  BY <1>1 DEF CommentsListed, SaidOnce
<1>2. CASE luna.pc = "act" /\ issueComments' = Commented(luna.call.text)
  <2>1. luna.call.text \in CommentTexts
    BY <1>2 DEF RunTyped, Call
  <2> QED
    BY <1>2, <2>1, SaidOnceStep, PageListsAll DEF Commented, CommentsListed
<1>3. CASE OtherComments
  BY <1>3, SaidOnceStep DEF OtherComments
<1> QED
  BY <1>1, <1>2, <1>3
  DEF TurnToolsNext, Think, CallTool, EndRun, RunFails, BeginCall, CommentOn, Acts, Post, AsksOwner,
      Scout, CancelsTask, Packet, TakeNotes, CompleteCall, Audit, ToolFails, ToolCrash

\* The run and the comments keep what is said of them.
LEMMA TurnInvariance == TurnToolsSpec => [](RunTyped /\ waits \in BOOLEAN /\ CommentsListed)
<1> DEFINE Inv == RunTyped /\ waits \in BOOLEAN /\ CommentsListed
<1>1. TurnToolsInit => Inv
  <2> SUFFICES ASSUME TurnToolsInit PROVE Inv
    OBVIOUS
  <2>1. NoRun = [NoRun EXCEPT !.pc = "pending"] /\ NoRun.pc = "pending"
    BY DEF NoRun
  <2>2. RunTyped
    BY <2>1, NoRunTyped, TurnToolsAssumption DEF TurnToolsInit, RunTyped
  <2>3. CommentsListed
    BY DEF TurnToolsInit, CommentsListed, SaidOnce
  <2> QED
    BY <2>2, <2>3 DEF TurnToolsInit
<1>2. Inv /\ [TurnToolsNext]_toolVars => Inv'
  <2>1. CASE TurnToolsNext
    BY <2>1, RunStep, CommentsStep
  <2>2. CASE UNCHANGED toolVars
    BY <2>2 DEF toolVars, RunTyped, CommentsListed, SaidOnce
  <2> QED
    BY <2>1, <2>2
<1> QED
  BY <1>1, <1>2, PTL DEF TurnToolsSpec

\* A comment of Luna's is on the issue at most once, while the comments fit one
\* page: for every number of replays, of failed calls and of comments.
THEOREM SaidOnceHolds == TurnToolsSpec => []SaidOnce
<1>1. CommentsListed => SaidOnce
  BY DEF CommentsListed
<1> QED
  BY <1>1, TurnInvariance, PTL

-----------------------------------------------------------------------------
(* The types of TurnTools.                                                  *)

\* What the calls of a turn leave behind.
CallsLeft ==
  /\ actions \subseteq CallIds \X Tools
  /\ audited \in Nat
  /\ posts \subseteq {"post", "ask"} \X CommentTexts
  /\ scouts \subseteq CommentTexts
  /\ notes \in {"none"} \union CommentTexts
  /\ toolFaults \in 0..MaxToolFaults

\* A call has an id, a tool and a text.
LEMMA CallFields ==
  ASSUME RunTyped, luna.pc \in {"begin", "act", "complete", "audit", "rejected"}
  PROVE  Key \in CallIds \X Tools /\ luna.call.text \in CommentTexts
BY DEF RunTyped, Call, Key

\* Every step leaves what is of its type.
LEMMA CallsLeftStep == ASSUME RunTyped, CallsLeft, TurnToolsNext PROVE CallsLeft'
<1>1. MaxToolFaults \in Nat /\ (toolFaults < MaxToolFaults => toolFaults + 1 \in 0..MaxToolFaults)
  BY TurnToolsAssumption DEF CallsLeft
<1>2. CASE UNCHANGED <<actions, audited, posts, scouts, notes, toolFaults>>
  BY <1>2 DEF CallsLeft
<1>3. CASE Post \/ AsksOwner
  <2>1. luna.call.text \in CommentTexts
    BY <1>3, CallFields DEF Post, AsksOwner, Acts
  <2>2. {<<"post", luna.call.text>>, <<"ask", luna.call.text>>} \subseteq {"post", "ask"} \X CommentTexts
    BY <2>1
  <2>3. posts' \subseteq {"post", "ask"} \X CommentTexts
    BY <1>3, <2>2 DEF Post, AsksOwner, CallsLeft
  <2> QED
    BY <1>3, <2>3 DEF Post, AsksOwner, CallsLeft
<1>4. CASE Scout \/ CancelsTask \/ TakeNotes
  <2>1. luna.call.text \in CommentTexts
    BY <1>4, CallFields DEF Scout, CancelsTask, TakeNotes, Acts
  <2> QED
    BY <1>4, <2>1 DEF Scout, CancelsTask, TakeNotes, CallsLeft
<1>5. CASE CompleteCall
  <2>1. Key \in CallIds \X Tools
    BY <1>5, CallFields DEF CompleteCall
  <2> QED
    BY <1>5, <2>1 DEF CompleteCall, CallsLeft
<1>6. CASE Audit
  BY <1>6 DEF Audit, CallsLeft
<1>7. CASE ToolFails
  <2>1. luna.call.text \in CommentTexts
    BY <1>7, CallFields DEF ToolFails
  <2>2. scouts' \subseteq CommentTexts
    <3>1. scouts' \in {scouts, scouts \union {luna.call.text}, scouts \ {luna.call.text}}
      BY <1>7 DEF ToolFails
    <3> QED
      BY <2>1, <3>1 DEF CallsLeft
  <2> QED
    BY <1>1, <1>7, <2>2 DEF ToolFails, CallsLeft
<1>8. CASE ToolCrash
  BY <1>1, <1>8 DEF ToolCrash, CallsLeft
<1> QED
  BY <1>2, <1>3, <1>4, <1>5, <1>6, <1>7, <1>8
  DEF TurnToolsNext, Think, CallTool, EndRun, RunFails, BeginCall, CommentOn, Packet, OtherComments

\* Every variable of a turn has a value the code can give it: it takes no more
\* attempts than there are, whatever fails.
THEOREM TurnToolsTypeCorrect == TurnToolsSpec => []TurnToolsTypeOK
<1>1. TurnToolsInit => CallsLeft
  BY TurnToolsAssumption DEF TurnToolsInit, CallsLeft
<1>2. RunTyped /\ CallsLeft /\ [TurnToolsNext]_toolVars => CallsLeft'
  <2>1. CASE UNCHANGED toolVars
    BY <2>1 DEF toolVars, CallsLeft
  <2> QED
    BY <2>1, CallsLeftStep
<1>3. RunTyped /\ waits \in BOOLEAN /\ CommentsListed /\ CallsLeft => TurnToolsTypeOK
  <2> SUFFICES ASSUME RunTyped, waits \in BOOLEAN, CommentsListed, CallsLeft PROVE TurnToolsTypeOK
    OBVIOUS
  <2>1. luna.pc \in Phases /\ luna.call \in {NoCall} \union Call /\ luna.used \subseteq CallIds
        /\ luna.rounds \in 0..MaxRounds
    BY DEF RunTyped, Run
  <2> QED
    BY <2>1 DEF TurnToolsTypeOK, RunTyped, CommentsListed, CallsLeft, Phases
<1> QED
  BY <1>1, <1>2, <1>3, TurnInvariance, PTL DEF TurnToolsSpec

-----------------------------------------------------------------------------
(* The whole: a behaviour is one of one part, and the others stand still.  *)

\* Each part's variables do what its specification says.
THEOREM RequestsArePartsOf ==
  RequestsSpec => HookSpec /\ RoomSpec /\ SubIssuesSpec /\ GateSpec /\ Spec /\ TurnToolsSpec
<1>1. RequestsInit => HookInit /\ RoomInit /\ SubIssuesInit /\ GateInit /\ Init /\ TurnToolsInit
  BY DEF RequestsInit
<1>2. [RequestsNext]_requestsVars =>
        [HookNext]_hookVars /\ [RoomNext]_roomVars /\ [SubIssuesNext]_issueVars
        /\ [GateNext]_gateVars /\ [Next]_vars /\ [TurnToolsNext]_toolVars
  BY DEF RequestsNext, requestsVars
<1> QED
  BY <1>1, <1>2, PTL DEF RequestsSpec, HookSpec, RoomSpec, SubIssuesSpec, GateSpec, Spec, TurnToolsSpec

\* Every variable of what the gateway handles has a value the code can give it,
\* for every number of deliveries, messages, requests, plans, turns and faults.
THEOREM RequestsTypeCorrect == RequestsSpec => []RequestsTypeOK
<1>1. HookTypeOK /\ RoomTypeOK /\ SubIssuesTypeOK /\ GateTypeOK /\ TypeOK /\ TurnToolsTypeOK => RequestsTypeOK
  BY DEF RequestsTypeOK
<1> QED
  BY <1>1, RequestsArePartsOf, HookTypeCorrect, RoomTypeCorrect, SubIssuesTypeCorrect, GateTypeCorrect,
     QueueTypeCorrect, TurnToolsTypeCorrect, PTL

=============================================================================
