----------------------------- MODULE MmJpegProofs -----------------------------
(***************************************************************************)
(* MmJpeg implements JpegService and loses no session handle, for any      *)
(* number of clients, slots, jobs and failures: types, the inductive       *)
(* invariant, and the refinement.                                          *)
(***************************************************************************)
EXTENDS MmJpeg, SequenceTheorems, TLAPS

-----------------------------------------------------------------------------
(* Types.                                                                   *)

OmxStates == {"Loaded", "Idle", "Executing"}
Goals     == [to : OmxStates, from : SUBSET OmxStates]
Entries   == [job : Jobs, ses : Slots]
Sessions  == [active : BOOLEAN, pending : BOOLEAN, abort : {"NONE", "INIT", "DONE"},
              error : BOOLEAN, encoding : BOOLEAN, config : BOOLEAN,
              job : Jobs \cup {None}, handles : Nat]
Components == [state : OmxStates, goal : OmxStates \cup {"none"}, bufs : BOOLEAN,
               busy : Jobs \cup {None}, cb : {"none", "error", "done"}]
Changes   == [ses : Slots \cup {None}, goals : Seq(Goals), strict : BOOLEAN,
              at : {"send", "exec", "wait", "ok", "failed"}]
Calls     == [call : {"none", "create", "abort", "destroy"}, client : Clients,
              ses : Slots \cup {None}, job : Jobs \cup {None},
              pc : {"done", "run", "purge", "abort", "aborting"}]
MgrPlaces == [pc : {"wait", "lock", "retire", "configure", "go"}, ses : Slots \cup {None}]
HalStates == [session : Slots \cup {None}, need : BOOLEAN, pc : {"run", "stop"},
              made : Nat, sessions : Nat]

TypeSlots   == ses \in [Slots -> Sessions] /\ omx \in [Slots -> Components]
TypeQueues  == todo \in Seq(Entries) /\ ongoing \in Seq(Entries)
TypeThreads ==
    /\ inprogress \in Slots \cup {None} /\ lock \in {"mgr", "api", "free"}
    /\ mgr \in MgrPlaces /\ api \in Calls
    /\ run \in [{"mgr", "api"} -> Changes]
TypeClients ==
    /\ hal \in [Clients -> HalStates]
    /\ status \in [Jobs -> {"new", "accepted", "withdrawn"}]
    /\ answers \in [Jobs -> Nat]

JpegTypes == TypeSlots /\ TypeQueues /\ TypeThreads /\ TypeClients

-----------------------------------------------------------------------------
(* The inductive invariant.                                                 *)

MgrBusy == {"retire", "configure", "go"}
Entry(s) == [job |-> ses[s].job, ses |-> s]

(* Who holds job_lock, and what the job manager has taken with it. *)
LockInv ==
    /\ lock = "mgr" <=> mgr.pc \in MgrBusy
    /\ lock = "api" <=> api.pc # "done"
    /\ mgr.pc = "lock" => ongoing = <<>>
    /\ mgr.pc = "retire" => inprogress # None
    /\ mgr.pc \in MgrBusy =>
         /\ mgr.ses \in Slots /\ ongoing = <<Entry(mgr.ses)>>
         /\ ~ses[mgr.ses].encoding /\ ses[mgr.ses].abort = "NONE"
    /\ Len(ongoing) <= 1

(* A session whose state is being changed does not encode. *)
Encodes(s) == ses[s].encoding /\ ses[s].abort = "NONE"
ChangeInv ==
    /\ run["mgr"].at # "ok" => mgr.pc \in {"retire", "configure"}
    /\ run["api"].at # "ok" => api.pc = "run"
    /\ \A t \in {"mgr", "api"} :
          run[t].at \in {"send", "exec", "wait"} =>
             run[t].ses \in Slots /\ run[t].goals # <<>> /\ ~Encodes(run[t].ses)

(* The call inside g_intf_lock. *)
NoEntry(s) == OfSession(todo, s) = {} /\ OfSession(ongoing, s) = {}
CallInv ==
    /\ IF api.pc = "done" THEN api = Idle ELSE api.ses \in Slots
    /\ api.call = "create" => api.pc = "run"
    /\ api.pc = "purge" => api.call = "destroy"
    /\ api.pc \in {"abort", "aborting"} => api.call \in {"abort", "destroy"}
    /\ api.call = "destroy" /\ api.pc # "purge" => NoEntry(api.ses)
    /\ api.call = "destroy" /\ api.pc = "run" => ses[api.ses].abort = "DONE"
    /\ api.call = "abort" =>
         /\ api.pc \in {"abort", "aborting"}
         /\ ongoing = <<>> /\ api.job \in Jobs /\ status[api.job] = "accepted"
         /\ \A i \in DOMAIN todo : todo[i].job # api.job

(* A component that encodes does so for the job in ongoing_job_q, or for the *)
(* one that a call has just taken out of it to abort it.                     *)
BeingAborted(s) == ongoing = <<>> /\ api.ses = s /\ api.pc \in {"purge", "abort", "aborting"}
EncodeInv ==
    \A s \in Slots :
        /\ omx[s].busy # None =>
             /\ ses[s].encoding /\ ses[s].abort # "DONE" /\ omx[s].busy = ses[s].job
             /\ ongoing = <<Entry(s)>> \/ BeingAborted(s)
             /\ ses[s].handles = 0 /\ omx[s].cb = "none"
        /\ Encodes(s) => omx[s].busy # None /\ omx[s].goal = "none"
        /\ ses[s].abort = "INIT" => ses[s].encoding /\ api.ses = s /\ api.pc = "aborting"
        /\ ~ses[s].active => ~ses[s].encoding

(* Jobs in the queues or in a component are accepted and not yet answered, *)
(* each in one place, in a session that exists and is still the client's.  *)
Open(j) == status[j] = "accepted" /\ answers[j] = 0
EntryOk(e) == Open(e.job) /\ ses[e.ses].active /\ e.ses = SessionOf(e.job[1])
JobsDiffer(q) == \A i, k \in DOMAIN q : i # k => q[i].job # q[k].job
QueueInv ==
    /\ \A i \in DOMAIN todo : EntryOk(todo[i])
    /\ \A i \in DOMAIN ongoing : EntryOk(ongoing[i])
    /\ JobsDiffer(todo)
    /\ \A i \in DOMAIN todo, k \in DOMAIN ongoing : todo[i].job # ongoing[k].job
    /\ \A s \in Slots : omx[s].busy # None =>
          Open(omx[s].busy) /\ \A i \in DOMAIN todo : todo[i].job # omx[s].busy

(* The clients: jobs not started are new, and a client that needs a session *)
(* has no job open.                                                         *)
ClientInv ==
    \A j \in Jobs :
        /\ j[2] > hal[j[1]].made => status[j] = "new"
        /\ status[j] = "new" => answers[j] = 0
        /\ Open(j) => ~hal[j[1]].need /\ ~(api.call = "create" /\ api.client = j[1])

(* Handles, with the users counted by cases. *)
Using(s) == (IF OfSession(ongoing, s) # {} THEN 1 ELSE 0) + (IF omx[s].cb # "none" THEN 1 ELSE 0)
HandleInv ==
    \A s \in Slots : ses[s].active =>
        \/ ses[s].handles + Using(s) = 1
        \/ /\ ses[s].handles + Using(s) = 0
           /\ ses[s].abort # "NONE" \/ (api.ses = s /\ api.pc \in {"purge", "abort", "aborting"})

JpegInv == /\ JpegTypes /\ LockInv /\ ChangeInv /\ CallInv /\ EncodeInv /\ QueueInv
           /\ ClientInv /\ HandleInv

-----------------------------------------------------------------------------
(* Jobs, slots, and the removal of a job from a queue.                      *)

(* Identifiers are pairs, and there is a slot 0 of a client 0.              *)
LEMMA Identifiers ==
  /\ \A j \in Jobs : j # None /\ j[1] \in Clients /\ j[2] \in 1 .. MaxJobs[j[1]] /\ j = <<j[1], j[2]>>
  /\ \A c \in Clients : \A k \in 1 .. MaxJobs[c] : <<c, k>> \in Jobs
  /\ \A s \in Slots : s # None /\ s[1] \in Clients
  /\ <<0, 0>> \in Slots
<1>1. NumClients \in Nat \ {0} /\ NumSlots \in Nat \ {0}
  BY MmJpegAssumption
<1>2. 0 \in Clients /\ 0 \in 0 .. NumSlots - 1
  BY <1>1 DEF Clients
<1>3. \A j \in Jobs : j # None /\ j[1] \in Clients /\ j[2] \in 1 .. MaxJobs[j[1]] /\ j = <<j[1], j[2]>>
  BY DEF Jobs, None
<1>4. \A c \in Clients : \A k \in 1 .. MaxJobs[c] : <<c, k>> \in Jobs
  BY DEF Jobs
<1>5. ASSUME NEW s \in Slots
      PROVE  s # None /\ s[1] \in Clients
  <2>1. PICK c \in Clients, k \in 0 .. NumSlots - 1 : s = <<c, k>>
    BY DEF Slots
  <2>2. Len(s) = 2 /\ Len(None) = 0
    BY <2>1 DEF None
  <2> QED
    BY <2>1, <2>2
<1> QED
  BY <1>2, <1>3, <1>4, <1>5 DEF Slots

(* RemoveAt closes the gap.                                                 *)
LEMMA Removal ==
  ASSUME NEW q \in Seq(Entries), NEW i \in DOMAIN q
  PROVE  /\ RemoveAt(q, i) \in Seq(Entries) /\ Len(RemoveAt(q, i)) = Len(q) - 1
         /\ \A k \in DOMAIN RemoveAt(q, i) :
               RemoveAt(q, i)[k] = q[IF k < i THEN k ELSE k + 1]
<1> DEFINE a == SubSeq(q, 1, i - 1)
           b == SubSeq(q, i + 1, Len(q))
<1>1. i \in 1 .. Len(q) /\ Len(q) \in Nat
  OBVIOUS
<1>2. a \in Seq(Entries) /\ Len(a) = i - 1 /\ \A k \in 1 .. i - 1 : a[k] = q[k]
  BY <1>1
<1>3. b \in Seq(Entries) /\ Len(b) = Len(q) - i /\ \A k \in 1 .. Len(q) - i : b[k] = q[i + k]
  BY <1>1
<1> HIDE DEF a, b
<1>4. /\ a \o b \in Seq(Entries) /\ Len(a \o b) = Len(q) - 1
      /\ \A k \in 1 .. Len(q) - 1 : (a \o b)[k] = IF k <= i - 1 THEN a[k] ELSE b[k - (i - 1)]
  <2>1. /\ a \o b \in Seq(Entries) /\ Len(a \o b) = Len(a) + Len(b)
        /\ \A k \in 1 .. Len(a) + Len(b) : (a \o b)[k] = IF k <= Len(a) THEN a[k] ELSE b[k - Len(a)]
    BY <1>2, <1>3, ConcatProperties
  <2>2. Len(a) = i - 1 /\ Len(a) + Len(b) = Len(q) - 1
    BY <1>1, <1>2, <1>3
  <2> QED
    BY <2>1, <2>2
<1>5. ASSUME NEW k \in 1 .. Len(q) - 1
      PROVE  (a \o b)[k] = q[IF k < i THEN k ELSE k + 1]
  <2>1. CASE k < i
    BY <2>1, <1>1, <1>2, <1>4
  <2>2. CASE ~(k < i)
    <3>1. k - (i - 1) \in 1 .. Len(q) - i /\ i + (k - (i - 1)) = k + 1 /\ ~(k <= i - 1)
      BY <2>2, <1>1
    <3>2. b[k - (i - 1)] = q[i + (k - (i - 1))]
      BY <3>1, <1>3
    <3>3. (a \o b)[k] = b[k - (i - 1)]
      BY <3>1, <1>4
    <3> QED
      BY <2>2, <3>1, <3>2, <3>3
  <2> QED
    BY <2>1, <2>2
<1>6. RemoveAt(q, i) = a \o b
  BY DEF RemoveAt, a, b
<1>7. DOMAIN (a \o b) = 1 .. Len(q) - 1
  BY <1>4
<1> QED
  BY <1>4, <1>5, <1>6, <1>7

(* A queue that only lost entries. *)
Within(r, q) == /\ r \in Seq(Entries) /\ Len(r) <= Len(q)
                /\ \A k \in DOMAIN r : \E m \in DOMAIN q : r[k] = q[m]

LEMMA RemoveOne ==
  ASSUME NEW q \in Seq(Entries), NEW i \in DOMAIN q
  PROVE  /\ Within(RemoveAt(q, i), q)
         /\ JobsDiffer(q) => /\ JobsDiffer(RemoveAt(q, i))
                             /\ \A k \in DOMAIN RemoveAt(q, i) : RemoveAt(q, i)[k].job # q[i].job
<1> DEFINE r == RemoveAt(q, i)
           From(k) == IF k < i THEN k ELSE k + 1
<1>1. r \in Seq(Entries) /\ Len(r) = Len(q) - 1 /\ \A k \in DOMAIN r : r[k] = q[From(k)]
  BY Removal
<1>2. Len(q) \in Nat /\ i \in 1 .. Len(q) /\ DOMAIN q = 1 .. Len(q) /\ DOMAIN r = 1 .. Len(q) - 1
  BY <1>1
<1>3. \A k \in DOMAIN r : From(k) \in DOMAIN q /\ From(k) # i
  BY <1>2
<1>4. \A k, m \in DOMAIN r : k # m => From(k) # From(m)
  BY <1>2
<1> HIDE DEF r, From
<1>5. Within(r, q)
  BY <1>1, <1>2, <1>3 DEF Within
<1>6. JobsDiffer(q) => JobsDiffer(r) /\ \A k \in DOMAIN r : r[k].job # q[i].job
  BY <1>1, <1>3, <1>4 DEF JobsDiffer
<1> QED
  BY <1>5, <1>6 DEF r

LEMMA WithoutJob ==
  ASSUME NEW q \in Seq(Entries), JobsDiffer(q), NEW j
  PROVE  /\ Within(Without(q, j), q) /\ JobsDiffer(Without(q, j))
         /\ \A k \in DOMAIN Without(q, j) : Without(q, j)[k].job # j
<1>1. CASE \E i \in DOMAIN q : q[i].job = j
  <2> DEFINE i == CHOOSE n \in DOMAIN q : q[n].job = j
  <2>1. i \in DOMAIN q /\ q[i].job = j
    BY <1>1
  <2>2. Without(q, j) = RemoveAt(q, i)
    BY <1>1 DEF Without
  <2> HIDE DEF i
  <2> QED
    BY <2>1, <2>2, RemoveOne
<1>2. CASE ~\E i \in DOMAIN q : q[i].job = j
  BY <1>2 DEF Without, Within
<1> QED
  BY <1>1, <1>2

LEMMA TakeHead ==
  ASSUME NEW q \in Seq(Entries), q # <<>>
  PROVE  /\ Head(q) \in Entries /\ 1 \in DOMAIN q /\ Head(q) = q[1]
         /\ Within(Tail(q), q)
         /\ JobsDiffer(q) => /\ JobsDiffer(Tail(q))
                             /\ \A k \in DOMAIN Tail(q) : Tail(q)[k].job # Head(q).job
<1>1. /\ Head(q) \in Entries /\ Tail(q) \in Seq(Entries) /\ Len(Tail(q)) = Len(q) - 1
      /\ \A k \in 1 .. Len(Tail(q)) : Tail(q)[k] = q[k + 1]
  BY HeadTailProperties
<1>2. Len(q) \in Nat \ {0} /\ DOMAIN q = 1 .. Len(q) /\ DOMAIN Tail(q) = 1 .. Len(q) - 1
  BY <1>1, EmptySeq
<1>3. 1 \in DOMAIN q /\ Head(q) = q[1]
  BY <1>2
<1>4. \A k \in DOMAIN Tail(q) : k + 1 \in DOMAIN q /\ k + 1 # 1 /\ Tail(q)[k] = q[k + 1]
  BY <1>1, <1>2
<1>5. Within(Tail(q), q)
  BY <1>1, <1>2, <1>4 DEF Within
<1>6. \A k, m \in DOMAIN Tail(q) : k # m => k + 1 # m + 1
  BY <1>2
<1>7. JobsDiffer(q) => JobsDiffer(Tail(q)) /\ \A k \in DOMAIN Tail(q) : Tail(q)[k].job # Head(q).job
  BY <1>3, <1>4, <1>6 DEF JobsDiffer
<1> QED
  BY <1>1, <1>3, <1>5, <1>7

LEMMA AppendEntry ==
  ASSUME NEW q \in Seq(Entries), NEW e \in Entries
  PROVE  /\ Append(q, e) \in Seq(Entries)
         /\ \A k \in DOMAIN Append(q, e) :
               \/ k \in DOMAIN q /\ Append(q, e)[k] = q[k]
               \/ k = Len(q) + 1 /\ Append(q, e)[k] = e
         /\ JobsDiffer(q) /\ (\A k \in DOMAIN q : q[k].job # e.job) => JobsDiffer(Append(q, e))
<1>1. /\ Append(q, e) \in Seq(Entries) /\ Len(Append(q, e)) = Len(q) + 1
      /\ \A i \in 1 .. Len(q) : Append(q, e)[i] = q[i]
      /\ Append(q, e)[Len(q) + 1] = e
  BY AppendProperties
<1>2. Len(q) \in Nat /\ DOMAIN q = 1 .. Len(q) /\ DOMAIN Append(q, e) = 1 .. Len(q) + 1
  BY <1>1
<1>3. \A k \in DOMAIN Append(q, e) :
               \/ k \in DOMAIN q /\ Append(q, e)[k] = q[k]
               \/ k = Len(q) + 1 /\ Append(q, e)[k] = e
  BY <1>1, <1>2
<1>4. JobsDiffer(q) /\ (\A k \in DOMAIN q : q[k].job # e.job) => JobsDiffer(Append(q, e))
  BY <1>3 DEF JobsDiffer
<1> QED
  BY <1>1, <1>3, <1>4

(* The only entry of a queue. *)
LEMMA Single ==
  ASSUME NEW e \in Entries
  PROVE  /\ <<e>> \in Seq(Entries) /\ <<e>> # <<>> /\ DOMAIN <<e>> = {1} /\ <<e>>[1] = e
         /\ Without(<<e>>, e.job) = <<>> /\ RemoveAt(<<e>>, 1) = <<>>
         /\ \A j : Without(<<>>, j) = <<>>
         /\ Append(<<>>, e) = <<e>>
<1>1. <<e>> \in Seq(Entries) /\ <<e>> # <<>> /\ DOMAIN <<e>> = {1} /\ <<e>>[1] = e /\ Len(<<e>>) = 1
  OBVIOUS
<1>2. RemoveAt(<<e>>, 1) \in Seq(Entries) /\ Len(RemoveAt(<<e>>, 1)) = 0
  <2>1. RemoveAt(<<e>>, 1) \in Seq(Entries) /\ Len(RemoveAt(<<e>>, 1)) = Len(<<e>>) - 1
    BY <1>1, Removal
  <2> QED
    BY <1>1, <2>1
<1>3. RemoveAt(<<e>>, 1) = <<>>
  BY <1>2, EmptySeq
<1>4. (CHOOSE i \in {1} : <<e>>[i].job = e.job) = 1
  BY <1>1
<1>5. Without(<<e>>, e.job) = <<>>
  BY <1>1, <1>3, <1>4 DEF Without
<1>6. \A j : Without(<<>>, j) = <<>>
  BY DEF Without
<1> QED
  BY <1>1, <1>3, <1>5, <1>6

LEMMA AtMostOne ==
  ASSUME NEW q \in Seq(Entries), Len(q) <= 1, q # <<>>
  PROVE  q[1] \in Entries /\ q = <<q[1]>> /\ DOMAIN q = {1}
<1>1. Len(q) = 1
  BY EmptySeq
<1> QED
  BY <1>1

-----------------------------------------------------------------------------
(* Type correctness.                                                        *)

(* The goals of mm_jpeg_session_change_state, and what GoOn and Fail leave  *)
(* of them.                                                                 *)
LEMMA ChangeTypes ==
  /\ Retire \in Seq(Goals) /\ Configure \in Seq(Goals) /\ Retire # <<>> /\ Configure # <<>>
  /\ Still \in Changes /\ Idle \in Calls /\ Fresh \in Sessions /\ Unused \in Sessions
  /\ NoComponent \in Components
  /\ \A s \in Slots, b \in BOOLEAN : /\ Change(s, Retire, b) \in Changes
                                     /\ Change(s, Configure, b) \in Changes
<1>1. Retire \in Seq(Goals) /\ Retire # <<>>
  BY DEF Retire, Goals, OmxStates
<1>2. Configure \in Seq(Goals) /\ Configure # <<>>
  BY DEF Configure, Goals, OmxStates
<1>3. <<>> \in Seq(Goals)
  BY EmptySeq
<1>4. 0 \in Clients
  BY MmJpegAssumption DEF Clients
<1> QED
  BY <1>1, <1>2, <1>3, <1>4 DEF Still, Changes, Change, Idle, Calls, Fresh, Unused, Sessions,
     NoComponent, Components, OmxStates

LEMMA ResultTypes ==
  ASSUME NEW r \in Changes, r.goals # <<>>
  PROVE  GoOn(r) \in Changes /\ Fail(r) \in Changes
<1>1. <<>> \in Seq(Goals) /\ Tail(r.goals) \in Seq(Goals)
  BY EmptySeq, HeadTailProperties DEF Changes
<1>2. GoOn(r) \in Changes
  BY <1>1 DEF GoOn, Changes
<1> QED
  BY <1>2 DEF Fail, Changes

(* Fields of sessions and components are assigned values of their types.    *)
LEMMA SessionFields ==
  ASSUME NEW r \in Sessions
  PROVE  /\ \A b \in BOOLEAN : [r EXCEPT !.pending = b] \in Sessions
         /\ \A b \in BOOLEAN : [r EXCEPT !.error = b] \in Sessions
         /\ \A b \in BOOLEAN : [r EXCEPT !.encoding = b] \in Sessions
         /\ \A b \in BOOLEAN : [r EXCEPT !.config = b] \in Sessions
         /\ \A a \in {"NONE", "INIT", "DONE"} : [r EXCEPT !.abort = a] \in Sessions
         /\ \A j \in Jobs : [r EXCEPT !.job = j] \in Sessions
         /\ \A n \in Nat : [r EXCEPT !.handles = n] \in Sessions
<1>1. \A b \in BOOLEAN : [r EXCEPT !.pending = b] \in Sessions
  BY DEF Sessions
<1>2. \A b \in BOOLEAN : [r EXCEPT !.error = b] \in Sessions
  BY DEF Sessions
<1>3. \A b \in BOOLEAN : [r EXCEPT !.encoding = b] \in Sessions
  BY DEF Sessions
<1>4. \A b \in BOOLEAN : [r EXCEPT !.config = b] \in Sessions
  BY DEF Sessions
<1>5. \A a \in {"NONE", "INIT", "DONE"} : [r EXCEPT !.abort = a] \in Sessions
  BY DEF Sessions
<1>6. \A j \in Jobs : [r EXCEPT !.job = j] \in Sessions
  BY DEF Sessions
<1>7. \A n \in Nat : [r EXCEPT !.handles = n] \in Sessions
  BY DEF Sessions
<1> QED
  BY <1>1, <1>2, <1>3, <1>4, <1>5, <1>6, <1>7

LEMMA ComponentFields ==
  ASSUME NEW r \in Components
  PROVE  /\ \A x \in OmxStates : [r EXCEPT !.state = x] \in Components
         /\ \A x \in OmxStates \cup {"none"} : [r EXCEPT !.goal = x] \in Components
         /\ \A b \in BOOLEAN : [r EXCEPT !.bufs = b] \in Components
         /\ \A j \in Jobs \cup {None} : [r EXCEPT !.busy = j] \in Components
         /\ \A x \in {"none", "error", "done"} : [r EXCEPT !.cb = x] \in Components
<1>1. \A x \in OmxStates : [r EXCEPT !.state = x] \in Components
  BY DEF Components
<1>2. \A x \in OmxStates \cup {"none"} : [r EXCEPT !.goal = x] \in Components
  BY DEF Components
<1>3. \A b \in BOOLEAN : [r EXCEPT !.bufs = b] \in Components
  BY DEF Components
<1>4. \A j \in Jobs \cup {None} : [r EXCEPT !.busy = j] \in Components
  BY DEF Components
<1>5. \A x \in {"none", "error", "done"} : [r EXCEPT !.cb = x] \in Components
  BY DEF Components
<1> QED
  BY <1>1, <1>2, <1>3, <1>4, <1>5

LEMMA SignalTypes ==
  ASSUME JpegInv, NEW s \in Slots
  PROVE  Signalled(s) \in [{"mgr", "api"} -> Changes]
<1>1. ASSUME NEW t \in {"mgr", "api"}
      PROVE  (IF run[t].at = "wait" /\ run[t].ses = s THEN GoOn(run[t]) ELSE run[t]) \in Changes
  BY ResultTypes DEF JpegInv, JpegTypes, TypeThreads, ChangeInv
<1> QED
  BY <1>1 DEF Signalled

LEMMA SendCommandTypes ==
  ASSUME JpegInv, NEW t \in {"mgr", "api"}, SendCommand(t)
  PROVE  JpegTypes'
<1> DEFINE r == run[t]
<1>1. r \in Changes /\ r.goals # <<>> /\ r.ses \in Slots /\ Head(r.goals) \in Goals
  BY HeadTailProperties DEF JpegInv, JpegTypes, TypeThreads, ChangeInv, SendCommand, Changes
<1>2. GoOn(r) \in Changes /\ Fail(r) \in Changes /\ [r EXCEPT !.at = "exec"] \in Changes
  BY <1>1, ResultTypes DEF Changes
<1>3. run' \in [{"mgr", "api"} -> Changes]
  BY <1>1, <1>2 DEF JpegInv, JpegTypes, TypeThreads, SendCommand
<1>4. ses[r.ses] \in Sessions /\ omx[r.ses] \in Components
  BY <1>1 DEF JpegInv, JpegTypes, TypeSlots
<1>5. ses' \in [Slots -> Sessions]
  <2>1. ses' = ses \/ ses' = [ses EXCEPT ![r.ses] = [ses[r.ses] EXCEPT !.pending = TRUE]]
    BY DEF SendCommand, sessionVars
  <2>2. [ses[r.ses] EXCEPT !.pending = TRUE] \in Sessions
    BY <1>4, SessionFields
  <2> QED
    BY <2>1, <2>2 DEF JpegInv, JpegTypes, TypeSlots
<1>6. omx' \in [Slots -> Components]
  <2>1. omx' = omx \/ omx' = [omx EXCEPT ![r.ses] = [omx[r.ses] EXCEPT !.goal = Head(r.goals).to]]
    BY DEF SendCommand, sessionVars
  <2>2. [omx[r.ses] EXCEPT !.goal = Head(r.goals).to] \in Components
    BY <1>1, <1>4, ComponentFields DEF Goals
  <2> QED
    BY <2>1, <2>2 DEF JpegInv, JpegTypes, TypeSlots
<1> QED
  BY <1>3, <1>5, <1>6 DEF JpegInv, JpegTypes, TypeSlots, TypeThreads, TypeQueues, TypeClients,
     SendCommand, queueVars, clientVars

LEMMA ExecTypes ==
  ASSUME JpegInv, NEW t \in {"mgr", "api"}, Exec(t)
  PROVE  JpegTypes'
<1> DEFINE r == run[t]
<1>1. r \in Changes /\ r.goals # <<>> /\ r.ses \in Slots /\ Head(r.goals) \in Goals
  BY HeadTailProperties DEF JpegInv, JpegTypes, TypeThreads, ChangeInv, Exec, Changes
<1>2. GoOn(r) \in Changes /\ Fail(r) \in Changes /\ [r EXCEPT !.at = "wait"] \in Changes
  BY <1>1, ResultTypes DEF Changes
<1>3. run' \in [{"mgr", "api"} -> Changes]
  BY <1>1, <1>2 DEF JpegInv, JpegTypes, TypeThreads, Exec
<1>4. omx[r.ses].bufs \in BOOLEAN
  BY <1>1 DEF JpegInv, JpegTypes, TypeSlots, Components
<1>5. omx' \in [Slots -> Components]
  <2> DEFINE b == IF Head(r.goals).to = "Executing" THEN omx[r.ses].bufs ELSE Head(r.goals).to = "Idle"
  <2>1. b \in BOOLEAN
    BY <1>4
  <2>2. omx' = omx \/ omx' = [omx EXCEPT ![r.ses] = [omx[r.ses] EXCEPT !.bufs = b]]
    BY DEF Exec
  <2>3. omx[r.ses] \in Components /\ omx \in [Slots -> Components]
    BY <1>1 DEF JpegInv, JpegTypes, TypeSlots
  <2> HIDE DEF b
  <2>4. [omx[r.ses] EXCEPT !.bufs = b] \in Components
    BY <2>1, <2>3, ComponentFields
  <2> QED
    BY <1>1, <2>2, <2>3, <2>4
<1> QED
  BY <1>3, <1>5 DEF JpegInv, JpegTypes, TypeSlots, TypeThreads, TypeQueues, TypeClients,
     Exec, queueVars

(* Removing the job of a session from ongoing_job_q. *)
LEMMA DoneTypes ==
  ASSUME JpegInv, NEW s \in Slots, JobDone(s)
  PROVE  ongoing' \in Seq(Entries)
<1>1. ongoing \in Seq(Entries) /\ JobsDiffer(ongoing)
  BY DEF JpegInv, JpegTypes, TypeQueues, LockInv, JobsDiffer
<1> QED
  BY <1>1, WithoutJob DEF JobDone, Within

LEMMA ComponentTypes ==
  ASSUME JpegInv, NEW s \in Slots, ComponentStep(s)
  PROVE  JpegTypes'
<1>1. ses \in [Slots -> Sessions] /\ omx \in [Slots -> Components]
      /\ omx[s].goal \in OmxStates \cup {"none"} /\ ses[s].handles \in Nat
      /\ run \in [{"mgr", "api"} -> Changes] /\ answers \in [Jobs -> Nat]
  BY DEF JpegInv, JpegTypes, TypeSlots, TypeThreads, TypeClients, Sessions, Components
<1>2. ses' \in [Slots -> Sessions]
  <2> DEFINE v == [[ses[s] EXCEPT !.error = TRUE] EXCEPT !.encoding = FALSE]
  <2>1. v \in Sessions
    BY <1>1, SessionFields
  <2>2. /\ [ses[s] EXCEPT !.abort = "DONE"] \in Sessions
        /\ [ses[s] EXCEPT !.error = TRUE] \in Sessions
        /\ [ses[s] EXCEPT !.pending = FALSE] \in Sessions
        /\ [ses[s] EXCEPT !.encoding = FALSE] \in Sessions
    BY <1>1, SessionFields
  <2>4. [ses[s] EXCEPT !.handles = ses[s].handles + 1] \in Sessions
    <3>1. ses[s].handles + 1 \in Nat
      BY <1>1
    <3> QED
      BY <3>1, <1>1, SessionFields
  <2>3. \/ ses' = ses
        \/ ses' = [ses EXCEPT ![s] = [ses[s] EXCEPT !.abort = "DONE"]]
        \/ ses' = [ses EXCEPT ![s] = [ses[s] EXCEPT !.error = TRUE]]
        \/ ses' = [ses EXCEPT ![s] = [ses[s] EXCEPT !.pending = FALSE]]
        \/ ses' = [ses EXCEPT ![s] = [ses[s] EXCEPT !.encoding = FALSE]]
        \/ ses' = [ses EXCEPT ![s] = [ses[s] EXCEPT !.handles = ses[s].handles + 1]]
        \/ ses' = [ses EXCEPT ![s] = v]
    <3>1. CASE Complete(s)
      BY <3>1 DEF Complete
    <3>2. CASE EventError(s)
      BY <3>2, <1>1 DEF EventError
    <3>3. CASE FillDone(s)
      BY <3>3 DEF FillDone
    <3>4. CASE HandleBack(s)
      BY <3>4 DEF HandleBack
    <3> QED
      BY <3>1, <3>2, <3>3, <3>4 DEF ComponentStep
  <2> HIDE DEF v
  <2> QED
    BY <1>1, <2>1, <2>2, <2>3, <2>4
<1>3. omx' \in [Slots -> Components]
  <2> DEFINE done == [[[omx[s] EXCEPT !.state = omx[s].goal] EXCEPT !.goal = "none"] EXCEPT !.busy = None]
             calm == [[omx[s] EXCEPT !.busy = None] EXCEPT !.goal = "none"]
             told == [[omx[s] EXCEPT !.busy = None] EXCEPT !.cb = "done"]
  <2>1. calm \in Components /\ told \in Components /\ [calm EXCEPT !.cb = "error"] \in Components
    BY <1>1, ComponentFields
  <2>2. CASE Complete(s)
    <3>1. done \in Components
      <4>1. omx[s].goal \in OmxStates
        BY <2>2, <1>1 DEF Complete
      <4> QED
        BY <4>1, <1>1, ComponentFields
    <3>2. omx' = [omx EXCEPT ![s] = done]
      BY <2>2, <1>1 DEF Complete
    <3> QED
      BY <3>1, <3>2, <1>1
  <2>3. CASE EventError(s)
    <3>1. omx' = [omx EXCEPT ![s] = calm] \/ omx' = [omx EXCEPT ![s] = [calm EXCEPT !.cb = "error"]]
      BY <2>3, <1>1 DEF EventError
    <3> QED
      BY <3>1, <2>1, <1>1
  <2>4. CASE FillDone(s)
    <3>1. omx' = [omx EXCEPT ![s] = [omx[s] EXCEPT !.busy = None]] \/ omx' = [omx EXCEPT ![s] = told]
      BY <2>4, <1>1 DEF FillDone
    <3>2. [omx[s] EXCEPT !.busy = None] \in Components
      BY <1>1, ComponentFields
    <3> QED
      BY <3>1, <3>2, <2>1, <1>1
  <2>5. CASE HandleBack(s)
    BY <2>5, <1>1, ComponentFields DEF HandleBack
  <2> QED
    BY <2>2, <2>3, <2>4, <2>5 DEF ComponentStep
<1>4. run' \in [{"mgr", "api"} -> Changes]
  BY <1>1, SignalTypes DEF ComponentStep, Complete, EventError, FillDone, HandleBack
<1>5. answers' \in [Jobs -> Nat]
  BY <1>1 DEF ComponentStep, Complete, EventError, FillDone, HandleBack, clientVars
<1>6. ongoing' \in Seq(Entries)
  BY DoneTypes DEF ComponentStep, Complete, EventError, FillDone, HandleBack, queueVars,
     JpegInv, JpegTypes, TypeQueues
<1>7. UNCHANGED <<todo, inprogress, lock, mgr, api, hal, status>>
  BY DEF ComponentStep, Complete, EventError, FillDone, HandleBack, queueVars, clientVars
<1> QED
  BY <1>2, <1>3, <1>4, <1>5, <1>6, <1>7
     DEF JpegInv, JpegTypes, TypeSlots, TypeThreads, TypeQueues, TypeClients

(* TakeJob takes the first job: what becomes of its session.                *)
TakenSession(n) ==
    [[[[ses[n.ses] EXCEPT !.handles = ses[n.ses].handles - 1] EXCEPT !.job = n.job]
       EXCEPT !.abort = "NONE"] EXCEPT !.encoding = FALSE]

LEMMA Taken ==
  ASSUME JpegInv, TakeJob, todo # <<>>, ses[Head(todo).ses].handles # 0
  PROVE  LET n == Head(todo) IN
         /\ n \in Entries /\ n.ses \in Slots /\ n.job \in Jobs
         /\ TakenSession(n) \in Sessions
         /\ ses' = [ses EXCEPT ![n.ses] = TakenSession(n)]
<1> DEFINE n == Head(todo)
<1>1. n \in Entries /\ n.ses \in Slots /\ n.job \in Jobs
  <2>1. todo \in Seq(Entries)
    BY DEF JpegInv, JpegTypes, TypeQueues
  <2>2. n \in Entries
    BY <2>1, TakeHead
  <2> QED
    BY <2>2 DEF Entries
<1>2. ses \in [Slots -> Sessions] /\ ses[n.ses] \in Sessions /\ ses[n.ses].handles \in Nat
  BY <1>1 DEF JpegInv, JpegTypes, TypeSlots, Sessions
<1>3. TakenSession(n) \in Sessions
  <2>1. ses[n.ses].handles - 1 \in Nat
    BY <1>2
  <2> DEFINE v1 == [ses[n.ses] EXCEPT !.handles = ses[n.ses].handles - 1]
             v2 == [v1 EXCEPT !.job = n.job]
             v3 == [v2 EXCEPT !.abort = "NONE"]
  <2>2. v1 \in Sessions
    BY <2>1, <1>2, SessionFields
  <2> HIDE DEF v1
  <2>3. v2 \in Sessions
    BY <2>2, <1>1, SessionFields
  <2> HIDE DEF v2
  <2>4. v3 \in Sessions
    BY <2>3, SessionFields
  <2> HIDE DEF v3
  <2>5. [v3 EXCEPT !.encoding = FALSE] \in Sessions
    BY <2>4, SessionFields
  <2> QED
    BY <2>5 DEF TakenSession, v1, v2, v3
<1>4. ses' = [ses EXCEPT ![n.ses] = TakenSession(n)]
  BY <1>1, <1>2 DEF TakeJob, TakenSession
<1> QED
  BY <1>1, <1>3, <1>4

LEMMA TakeJobTypes ==
  ASSUME JpegInv, TakeJob
  PROVE  JpegTypes'
<1>1. CASE todo = <<>> \/ ses[Head(todo).ses].handles = 0
  <2>1. [mgr EXCEPT !.pc = "wait"] \in MgrPlaces
    BY DEF JpegInv, JpegTypes, TypeThreads, MgrPlaces
  <2> QED
    BY <1>1, <2>1 DEF TakeJob, JpegInv, JpegTypes, TypeSlots, TypeThreads, TypeQueues, TypeClients, clientVars
<1>2. CASE ~(todo = <<>> \/ ses[Head(todo).ses].handles = 0)
  <2> DEFINE n == Head(todo)
  <2>1. n \in Entries /\ n.ses \in Slots /\ ses' \in [Slots -> Sessions]
    BY <1>2, Taken DEF JpegInv, JpegTypes, TypeSlots
  <2>2. todo' \in Seq(Entries) /\ ongoing' \in Seq(Entries)
    <3>1. todo \in Seq(Entries) /\ ongoing \in Seq(Entries)
      BY DEF JpegInv, JpegTypes, TypeQueues
    <3>2. todo' = Tail(todo) /\ ongoing' = Append(ongoing, n)
      BY <1>2 DEF TakeJob
    <3> QED
      BY <3>1, <3>2, <2>1, <1>2, TakeHead, AppendEntry DEF Within
  <2>3. mgr' \in MgrPlaces /\ lock' = "mgr"
    BY <1>2, <2>1 DEF TakeJob, MgrPlaces
  <2>4. run' \in [{"mgr", "api"} -> Changes]
    <3>1. Still \in Changes /\ Change(n.ses, Configure, TRUE) \in Changes
      BY <2>1, ChangeTypes
    <3>2. inprogress # None => Change(inprogress, Retire, TRUE) \in Changes
      BY ChangeTypes DEF JpegInv, JpegTypes, TypeThreads
    <3>3. \/ run' = [run EXCEPT !["mgr"] = Still]
          \/ run' = [run EXCEPT !["mgr"] = Change(n.ses, Configure, TRUE)]
          \/ inprogress # None /\ run' = [run EXCEPT !["mgr"] = Change(inprogress, Retire, TRUE)]
      BY <1>2 DEF TakeJob
    <3> QED
      BY <3>1, <3>2, <3>3 DEF JpegInv, JpegTypes, TypeThreads
  <2>5. UNCHANGED <<omx, inprogress, api, hal, status, answers>>
    BY DEF TakeJob, clientVars
  <2> QED
    BY <2>1, <2>2, <2>3, <2>4, <2>5 DEF JpegInv, JpegTypes, TypeSlots, TypeThreads, TypeQueues, TypeClients
<1> QED
  BY <1>1, <1>2

LEMMA MgrTypes ==
  ASSUME JpegInv, Wake \/ Retired \/ Configured \/ Encode \/ GiveUp
  PROVE  JpegTypes'
<1>1. ses \in [Slots -> Sessions] /\ omx \in [Slots -> Components]
      /\ run \in [{"mgr", "api"} -> Changes] /\ answers \in [Jobs -> Nat]
      /\ mgr \in MgrPlaces /\ inprogress \in Slots \cup {None}
  BY DEF JpegInv, JpegTypes, TypeSlots, TypeThreads, TypeClients
<1>2. CASE Wake
  <2>1. mgr' \in MgrPlaces
    BY <1>1, <1>2 DEF Wake, MgrPlaces
  <2> QED
    BY <1>2, <2>1 DEF Wake, JpegInv, JpegTypes, TypeSlots, TypeThreads, TypeQueues, TypeClients,
       sessionVars, clientVars
<1>3. ASSUME mgr.pc \in MgrBusy
      PROVE  mgr.ses \in Slots /\ ses[mgr.ses] \in Sessions /\ omx[mgr.ses] \in Components
             /\ ses[mgr.ses].handles \in Nat /\ ses[mgr.ses].job \in Jobs
  <2>1. mgr.ses \in Slots /\ ongoing = <<Entry(mgr.ses)>>
    BY <1>3 DEF JpegInv, LockInv
  <2>2. Entry(mgr.ses) \in Entries
    <3>1. 1 \in DOMAIN ongoing /\ ongoing[1] = Entry(mgr.ses)
      BY <2>1
    <3> QED
      BY <3>1 DEF JpegInv, JpegTypes, TypeQueues
  <2> QED
    BY <1>1, <2>1, <2>2 DEF Entry, Entries, Sessions
<1>4. CASE Retired
  <2>1. inprogress \in Slots /\ mgr.ses \in Slots /\ ses[inprogress] \in Sessions
    BY <1>1, <1>3, <1>4 DEF Retired, MgrBusy, JpegInv, LockInv
  <2>2. ses' = [ses EXCEPT ![inprogress] = [ses[inprogress] EXCEPT !.config = FALSE]]
    BY <1>4 DEF Retired
  <2>3. [ses[inprogress] EXCEPT !.config = FALSE] \in Sessions
    BY <2>1, SessionFields
  <2>4. ses' \in [Slots -> Sessions]
    BY <1>1, <2>1, <2>2, <2>3
  <2>5. run' \in [{"mgr", "api"} -> Changes] /\ mgr' \in MgrPlaces /\ inprogress' = None
    BY <1>1, <1>4, <2>1, ChangeTypes DEF Retired, MgrPlaces
  <2> QED
    BY <1>4, <2>4, <2>5 DEF Retired, JpegInv, JpegTypes, TypeSlots, TypeThreads, TypeQueues, TypeClients,
       queueVars, clientVars
<1>5. CASE Configured
  <2>1. mgr.ses \in Slots /\ ses[mgr.ses] \in Sessions
    BY <1>3, <1>5 DEF Configured, MgrBusy
  <2>2. ses' = [ses EXCEPT ![mgr.ses] = [ses[mgr.ses] EXCEPT !.config = TRUE]]
    BY <1>5 DEF Configured
  <2>3. [ses[mgr.ses] EXCEPT !.config = TRUE] \in Sessions
    BY <2>1, SessionFields
  <2>4. ses' \in [Slots -> Sessions]
    BY <1>1, <2>1, <2>2, <2>3
  <2>5. mgr' \in MgrPlaces /\ inprogress' \in Slots
    BY <1>1, <1>5, <2>1 DEF Configured, MgrPlaces
  <2> QED
    BY <1>5, <2>4, <2>5 DEF Configured, JpegInv, JpegTypes, TypeSlots, TypeThreads, TypeQueues, TypeClients,
       queueVars, clientVars
<1>6. CASE Encode
  <2>1. mgr.ses \in Slots /\ ses[mgr.ses] \in Sessions /\ omx[mgr.ses] \in Components /\ ses[mgr.ses].job \in Jobs
    BY <1>3, <1>6 DEF Encode, MgrBusy
  <2>2. /\ ses' = [ses EXCEPT ![mgr.ses] = [ses[mgr.ses] EXCEPT !.encoding = TRUE]]
        /\ omx' = [omx EXCEPT ![mgr.ses] = [omx[mgr.ses] EXCEPT !.busy = ses[mgr.ses].job]]
    BY <1>6 DEF Encode
  <2>3. [ses[mgr.ses] EXCEPT !.encoding = TRUE] \in Sessions
    BY <2>1, SessionFields
  <2>4. [omx[mgr.ses] EXCEPT !.busy = ses[mgr.ses].job] \in Components
    BY <2>1, ComponentFields
  <2>5. ses' \in [Slots -> Sessions] /\ omx' \in [Slots -> Components]
    BY <1>1, <2>1, <2>2, <2>3, <2>4
  <2>6. mgr' \in MgrPlaces /\ lock' = "free"
    BY <1>6 DEF Encode, MgrPlaces
  <2> QED
    BY <1>6, <2>5, <2>6 DEF Encode, JpegInv, JpegTypes, TypeSlots, TypeThreads, TypeQueues, TypeClients,
       queueVars, clientVars
<1>7. CASE GiveUp
  <2>1. mgr.ses \in Slots /\ ses[mgr.ses] \in Sessions /\ ses[mgr.ses].job \in Jobs /\ ses[mgr.ses].handles + 1 \in Nat
    BY <1>3, <1>7 DEF GiveUp, MgrBusy
  <2> DEFINE v == [ses[mgr.ses] EXCEPT !.encoding = FALSE]
  <2>2. v \in Sessions /\ v.handles = ses[mgr.ses].handles
    <3>1. v \in Sessions
      BY <2>1, SessionFields
    <3> QED
      BY <3>1, <2>1 DEF Sessions
  <2>3. ses' = [ses EXCEPT ![mgr.ses] = [v EXCEPT !.handles = ses[mgr.ses].handles + 1]]
    BY <1>1, <1>7, <2>1, <2>2 DEF GiveUp
  <2> HIDE DEF v
  <2>4. [v EXCEPT !.handles = ses[mgr.ses].handles + 1] \in Sessions
    BY <2>1, <2>2, SessionFields
  <2>5. ses' \in [Slots -> Sessions]
    BY <1>1, <2>1, <2>3, <2>4
  <2>6. ongoing' \in Seq(Entries)
    BY <1>7, <2>1, DoneTypes DEF GiveUp
  <2>7. answers' \in [Jobs -> Nat]
    BY <1>1, <1>7, <2>1 DEF GiveUp
  <2>8. mgr' \in MgrPlaces /\ lock' = "free" /\ run' \in [{"mgr", "api"} -> Changes]
    BY <1>1, <1>7, ChangeTypes DEF GiveUp, MgrPlaces
  <2> QED
    BY <1>7, <2>5, <2>6, <2>7, <2>8 DEF GiveUp, JpegInv, JpegTypes, TypeSlots, TypeThreads, TypeQueues, TypeClients
<1> QED
  BY <1>2, <1>4, <1>5, <1>6, <1>7

LEMMA ApiTypes ==
  ASSUME JpegInv, CreateReturns \/ Purge \/ SessionAbort \/ Aborted \/ DestroyReturns
  PROVE  JpegTypes'
<1>1. /\ ses \in [Slots -> Sessions] /\ omx \in [Slots -> Components]
      /\ run \in [{"mgr", "api"} -> Changes] /\ status \in [Jobs -> {"new", "accepted", "withdrawn"}]
      /\ api \in Calls /\ inprogress \in Slots \cup {None} /\ lock \in {"mgr", "api", "free"}
      /\ hal \in [Clients -> HalStates] /\ todo \in Seq(Entries) /\ ongoing \in Seq(Entries)
  BY DEF JpegInv, JpegTypes, TypeSlots, TypeThreads, TypeQueues, TypeClients
<1>2. api.ses \in Slots /\ ses[api.ses] \in Sessions /\ omx[api.ses] \in Components
  BY <1>1 DEF JpegInv, CallInv, CreateReturns, Purge, SessionAbort, Aborted, DestroyReturns
<1>3. CASE CreateReturns
  <2>1. ses' = ses \/ ses' = [ses EXCEPT ![api.ses] = [ses[api.ses] EXCEPT !.config = TRUE]]
    BY <1>3 DEF CreateReturns
  <2>2. [ses[api.ses] EXCEPT !.config = TRUE] \in Sessions
    BY <1>2, SessionFields
  <2>3. ses' \in [Slots -> Sessions]
    BY <1>1, <1>2, <2>1, <2>2
  <2>4. hal' \in [Clients -> HalStates]
    <3>1. hal' = hal \/ hal' = [hal EXCEPT ![api.client] = [hal[api.client] EXCEPT !.need = TRUE]]
      BY <1>3 DEF CreateReturns
    <3>2. api.client \in Clients /\ hal[api.client] \in HalStates
      BY <1>1 DEF Calls
    <3>3. [hal[api.client] EXCEPT !.need = TRUE] \in HalStates
      BY <3>2 DEF HalStates
    <3> QED
      BY <1>1, <3>1, <3>2, <3>3
  <2>5. inprogress' \in Slots \cup {None} /\ lock' = "free" /\ api' \in Calls
        /\ run' \in [{"mgr", "api"} -> Changes]
    BY <1>1, <1>2, <1>3, ChangeTypes DEF CreateReturns
  <2> QED
    BY <1>3, <2>3, <2>4, <2>5 DEF CreateReturns, JpegInv, JpegTypes, TypeSlots, TypeThreads, TypeQueues, TypeClients,
       queueVars
<1>4. CASE Purge
  <2>1. todo' \in Seq(Entries) /\ ongoing' \in Seq(Entries)
    <3>1. \/ todo' = todo
          \/ \E i \in DOMAIN todo : todo' = RemoveAt(todo, i)
      BY <1>4 DEF Purge
    <3>2. \/ ongoing' = ongoing
          \/ \E i \in DOMAIN ongoing : ongoing' = RemoveAt(ongoing, i)
      BY <1>4 DEF Purge
    <3> QED
      BY <1>1, <3>1, <3>2, Removal
  <2>2. api' \in Calls
    BY <1>1, <1>4 DEF Purge, Calls
  <2> QED
    BY <1>4, <2>1, <2>2 DEF Purge, JpegInv, JpegTypes, TypeSlots, TypeThreads, TypeQueues, TypeClients,
       sessionVars, clientVars
<1>5. ASSUME AfterAbort, api.call = "abort" => api.job \in Jobs
      PROVE  api' \in Calls /\ run' \in [{"mgr", "api"} -> Changes] /\ lock' \in {"mgr", "api", "free"}
             /\ status' \in [Jobs -> {"new", "accepted", "withdrawn"}]
  <2>1. Idle \in Calls /\ Change(api.ses, Retire, FALSE) \in Changes /\ [api EXCEPT !.pc = "run"] \in Calls
    BY <1>1, <1>2, ChangeTypes DEF Calls
  <2> QED
    BY <1>1, <1>5, <2>1 DEF AfterAbort
<1>6. api.call = "abort" => api.job \in Jobs
  BY DEF JpegInv, CallInv
<1>7. CASE SessionAbort
  <2> DEFINE v == [ses[api.ses] EXCEPT !.abort = "INIT"]
  <2>1. \/ ses' = ses
        \/ ses' = [ses EXCEPT ![api.ses] = [ses[api.ses] EXCEPT !.abort = "DONE"]]
        \/ ses' = [ses EXCEPT ![api.ses] = [v EXCEPT !.pending = TRUE]]
    BY <1>1, <1>2, <1>7 DEF SessionAbort
  <2>2. v \in Sessions /\ [ses[api.ses] EXCEPT !.abort = "DONE"] \in Sessions
    BY <1>2, SessionFields
  <2> HIDE DEF v
  <2>3. [v EXCEPT !.pending = TRUE] \in Sessions
    BY <2>2, SessionFields
  <2>4. ses' \in [Slots -> Sessions]
    BY <1>1, <1>2, <2>1, <2>2, <2>3
  <2>5. omx' \in [Slots -> Components]
    <3>1. omx' = omx \/ omx' = [omx EXCEPT ![api.ses] = [omx[api.ses] EXCEPT !.goal = "Idle"]]
      BY <1>7 DEF SessionAbort
    <3>2. [omx[api.ses] EXCEPT !.goal = "Idle"] \in Components
      BY <1>2, ComponentFields DEF OmxStates
    <3> QED
      BY <1>1, <1>2, <3>1, <3>2
  <2>6. api' \in Calls /\ run' \in [{"mgr", "api"} -> Changes] /\ lock' \in {"mgr", "api", "free"}
        /\ status' \in [Jobs -> {"new", "accepted", "withdrawn"}]
    <3>1. CASE AfterAbort
      BY <3>1, <1>5, <1>6
    <3>2. CASE api' = [api EXCEPT !.pc = "aborting"] /\ UNCHANGED <<run, lock, status>>
      BY <3>2, <1>1 DEF Calls
    <3> QED
      BY <3>1, <3>2, <1>7 DEF SessionAbort
  <2> QED
    BY <1>7, <2>4, <2>5, <2>6 DEF SessionAbort, JpegInv, JpegTypes, TypeSlots, TypeThreads, TypeQueues, TypeClients,
       queueVars
<1>8. CASE Aborted
  <2>1. api' \in Calls /\ run' \in [{"mgr", "api"} -> Changes] /\ lock' \in {"mgr", "api", "free"}
        /\ status' \in [Jobs -> {"new", "accepted", "withdrawn"}]
    BY <1>5, <1>6, <1>8 DEF Aborted
  <2> QED
    BY <1>8, <2>1 DEF Aborted, JpegInv, JpegTypes, TypeSlots, TypeThreads, TypeQueues, TypeClients,
       queueVars, sessionVars
<1>9. CASE DestroyReturns
  <2>1. ses' \in [Slots -> Sessions] /\ omx' \in [Slots -> Components]
    BY <1>1, <1>9, ChangeTypes DEF DestroyReturns
  <2>2. inprogress' \in Slots \cup {None} /\ lock' = "free" /\ api' \in Calls
        /\ run' \in [{"mgr", "api"} -> Changes]
    BY <1>1, <1>9, ChangeTypes DEF DestroyReturns
  <2> QED
    BY <1>9, <2>1, <2>2 DEF DestroyReturns, JpegInv, JpegTypes, TypeSlots, TypeThreads, TypeQueues, TypeClients,
       clientVars
<1> QED
  BY <1>3, <1>4, <1>7, <1>8, <1>9

(* The session a client's call is about.                                    *)
LEMMA OwnSlot ==
  ASSUME JpegTypes, NEW c \in Clients
  PROVE  SessionOf(c) \in Slots
<1>1. hal[c].session \in Slots \cup {None}
  BY DEF JpegTypes, TypeClients, HalStates
<1> QED
  BY <1>1, Identifiers DEF SessionOf

LEMMA ClientTypes ==
  ASSUME JpegInv, NEW c \in Clients, ClientStep(c)
  PROVE  JpegTypes'
<1>1. /\ ses \in [Slots -> Sessions] /\ omx \in [Slots -> Components]
      /\ run \in [{"mgr", "api"} -> Changes] /\ status \in [Jobs -> {"new", "accepted", "withdrawn"}]
      /\ api \in Calls /\ lock \in {"mgr", "api", "free"} /\ hal[c] \in HalStates
      /\ hal \in [Clients -> HalStates] /\ todo \in Seq(Entries) /\ ongoing \in Seq(Entries)
      /\ JobsDiffer(todo) /\ JobsDiffer(ongoing)
  BY DEF JpegInv, JpegTypes, TypeSlots, TypeThreads, TypeQueues, TypeClients, QueueInv, JobsDiffer, LockInv
<1>2. hal[c].made + 1 \in Nat /\ hal[c].sessions + 1 \in Nat
  BY <1>1 DEF HalStates
<1>3. CASE Create(c)
  <2>1. ASSUME NEW s \in Slots \cup {None}, Opened(c, s)
        PROVE  hal' \in [Clients -> HalStates]
    <3> DEFINE v1 == [hal[c] EXCEPT !.sessions = hal[c].sessions + 1]
               v2 == [v1 EXCEPT !.session = s]
    <3>1. hal' = [hal EXCEPT ![c] = [v2 EXCEPT !.need = FALSE]]
      BY <1>1, <2>1 DEF Opened
    <3>2. v1 \in HalStates
      BY <1>1, <1>2 DEF HalStates
    <3> HIDE DEF v1
    <3>3. v2 \in HalStates
      BY <3>2 DEF HalStates
    <3> HIDE DEF v2
    <3>4. [v2 EXCEPT !.need = FALSE] \in HalStates
      BY <3>3 DEF HalStates
    <3> QED
      BY <1>1, <3>1, <3>4
  <2>2. CASE FreeSlots(c) = {}
    <3>1. hal' \in [Clients -> HalStates]
      BY <1>3, <2>1, <2>2 DEF Create
    <3> QED
      BY <1>3, <2>2, <3>1 DEF Create, JpegInv, JpegTypes, TypeSlots, TypeThreads, TypeQueues, TypeClients,
         sessionVars, queueVars
  <2>3. CASE FreeSlots(c) # {}
    <3>1. PICK s \in FreeSlots(c) :
             /\ Opened(c, s)
             /\ ses' = [ses EXCEPT ![s] = Fresh]
             /\ omx' = [omx EXCEPT ![s] = NoComponent]
             /\ IF inprogress = None
                  THEN /\ lock' = "api" /\ Call(c, "create", s, None, "run")
                       /\ run' = [run EXCEPT !["api"] = Change(s, Configure, TRUE)]
                  ELSE UNCHANGED <<lock, api, run>>
      BY <1>3, <2>3 DEF Create
    <3>2. s \in Slots
      BY DEF FreeSlots
    <3>3. hal' \in [Clients -> HalStates] /\ ses' \in [Slots -> Sessions] /\ omx' \in [Slots -> Components]
      BY <1>1, <2>1, <3>1, <3>2, ChangeTypes
    <3>4. lock' \in {"mgr", "api", "free"} /\ api' \in Calls /\ run' \in [{"mgr", "api"} -> Changes]
      <4>1. CASE inprogress = None
        <5>1. Change(s, Configure, TRUE) \in Changes
          BY <3>2, ChangeTypes
        <5>2. [call |-> "create", client |-> c, ses |-> s, job |-> None, pc |-> "run"] \in Calls
          BY <3>2 DEF Calls
        <5> QED
          BY <1>1, <3>1, <4>1, <5>1, <5>2 DEF Call
      <4>2. CASE inprogress # None
        BY <1>1, <3>1, <4>2
      <4> QED
        BY <4>1, <4>2
    <3> QED
      BY <1>3, <3>3, <3>4 DEF Create, JpegInv, JpegTypes, TypeSlots, TypeThreads, TypeQueues, TypeClients,
         queueVars
  <2> QED
    BY <2>2, <2>3
<1>4. CASE StartJob(c)
  <2> DEFINE j == <<c, hal[c].made + 1>>
  <2>1. j \in Jobs
    <3>1. MaxJobs[c] \in Nat
      BY MmJpegAssumption DEF Clients
    <3>2. hal[c].made + 1 \in 1 .. MaxJobs[c]
      BY <1>1, <1>4, <3>1 DEF StartJob, HalStates
    <3> QED
      BY <3>2, Identifiers
  <2>2. hal' \in [Clients -> HalStates]
    <3>1. hal' = [hal EXCEPT ![c] = [hal[c] EXCEPT !.made = hal[c].made + 1]]
      BY <1>4 DEF StartJob
    <3>2. [hal[c] EXCEPT !.made = hal[c].made + 1] \in HalStates
      BY <1>1, <1>2 DEF HalStates
    <3> QED
      BY <1>1, <3>1, <3>2
  <2>3. [job |-> j, ses |-> SessionOf(c)] \in Entries
    BY <2>1, OwnSlot DEF JpegInv, Entries
  <2>4. todo' \in Seq(Entries) /\ status' \in [Jobs -> {"new", "accepted", "withdrawn"}]
    <3>1. todo' = todo \/ todo' = Append(todo, [job |-> j, ses |-> SessionOf(c)])
      BY <1>4 DEF StartJob
    <3>2. status' = status \/ status' = [status EXCEPT ![j] = "accepted"]
      BY <1>4 DEF StartJob
    <3>3. Append(todo, [job |-> j, ses |-> SessionOf(c)]) \in Seq(Entries)
      BY <1>1, <2>3, AppendEntry
    <3> HIDE DEF j
    <3> QED
      BY <1>1, <2>1, <3>1, <3>2, <3>3
  <2> QED
    BY <1>4, <2>2, <2>4 DEF StartJob, JpegInv, JpegTypes, TypeSlots, TypeThreads, TypeQueues, TypeClients,
       sessionVars
<1>5. CASE Stop(c)
  <2>1. hal' \in [Clients -> HalStates]
    <3>1. [hal[c] EXCEPT !.pc = "stop"] \in HalStates
      BY <1>1 DEF HalStates
    <3> QED
      BY <1>1, <1>5, <3>1 DEF Stop
  <2> QED
    BY <1>5, <2>1 DEF Stop, JpegInv, JpegTypes, TypeSlots, TypeThreads, TypeQueues, TypeClients,
       sessionVars, queueVars
<1>6. CASE AbortJob(c)
  <2>1. PICK j \in Pending(c) :
           IF \E i \in DOMAIN ongoing : ongoing[i].job = j
             THEN /\ ongoing' = Without(ongoing, j)
                  /\ lock' = "api" /\ Call(c, "abort", SessionOf(c), j, "abort")
                  /\ UNCHANGED <<todo, status>>
             ELSE /\ todo' = Without(todo, j)
                  /\ status' = [status EXCEPT ![j] = "withdrawn"]
                  /\ UNCHANGED <<ongoing, lock, api>>
    BY <1>6 DEF AbortJob
  <2>2. j \in Jobs
    BY DEF Pending
  <2>3. todo' \in Seq(Entries) /\ ongoing' \in Seq(Entries)
        /\ status' \in [Jobs -> {"new", "accepted", "withdrawn"}]
    BY <1>1, <2>1, <2>2, WithoutJob DEF Within
  <2>4. lock' \in {"mgr", "api", "free"} /\ api' \in Calls
    <3>1. [call |-> "abort", client |-> c, ses |-> SessionOf(c), job |-> j, pc |-> "abort"] \in Calls
      BY <2>2, OwnSlot DEF JpegInv, Calls
    <3> QED
      BY <1>1, <2>1, <3>1 DEF Call
  <2> QED
    BY <1>6, <2>3, <2>4 DEF AbortJob, JpegInv, JpegTypes, TypeSlots, TypeThreads, TypeQueues, TypeClients,
       sessionVars
<1>7. CASE EndStop(c)
  <2>1. hal' \in [Clients -> HalStates]
    <3> DEFINE v1 == [hal[c] EXCEPT !.pc = "run"]
               v2 == [v1 EXCEPT !.need = TRUE]
    <3>1. hal' = [hal EXCEPT ![c] = [v2 EXCEPT !.session = None]]
      BY <1>1, <1>7 DEF EndStop
    <3>2. v1 \in HalStates
      BY <1>1 DEF HalStates
    <3> HIDE DEF v1
    <3>3. v2 \in HalStates
      BY <3>2 DEF HalStates
    <3> HIDE DEF v2
    <3>4. [v2 EXCEPT !.session = None] \in HalStates
      BY <3>3 DEF HalStates
    <3> QED
      BY <1>1, <3>1, <3>4
  <2>2. lock' \in {"mgr", "api", "free"} /\ api' \in Calls
    <3>1. hal[c].session # None =>
             [call |-> "destroy", client |-> c, ses |-> hal[c].session, job |-> None, pc |-> "purge"] \in Calls
      BY <1>1 DEF Calls, HalStates
    <3> QED
      BY <1>1, <1>7, <3>1 DEF EndStop, Call
  <2> QED
    BY <1>7, <2>1, <2>2 DEF EndStop, JpegInv, JpegTypes, TypeSlots, TypeThreads, TypeQueues, TypeClients,
       sessionVars, queueVars
<1> QED
  BY <1>3, <1>4, <1>5, <1>6, <1>7 DEF ClientStep

LEMMA StepTypes ==
  ASSUME JpegInv, [Next]_vars
  PROVE  JpegTypes'
<1>1. CASE UNCHANGED vars
  BY <1>1 DEF vars, sessionVars, queueVars, clientVars, JpegInv, JpegTypes, TypeSlots, TypeThreads, TypeQueues, TypeClients
<1> QED
  BY <1>1, SendCommandTypes, ExecTypes, ComponentTypes, TakeJobTypes, MgrTypes, ApiTypes, ClientTypes
     DEF Next, MgrStep, ApiStep
=============================================================================
