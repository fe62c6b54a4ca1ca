------------------------------- MODULE MmJpeg -------------------------------
(* mm-jpeg-interface: several clients (post-processors) share one job       *)
(* manager thread that feeds the jobs of their sessions to OMX components,  *)
(* one at a time.  Calls of the clients are serialised by g_intf_lock; the  *)
(* components call back on threads of their own.                            *)
(*                                                                          *)
(* A session holds one component (burst mode asks for                       *)
(* MM_JPEG_CONCURRENT_SESSIONS_COUNT = 1 of them).  Buffers, EXIF data,     *)
(* rotation and decoding are abstracted.                                    *)
EXTENDS Naturals, Sequences, SequencesExt, FiniteSets

CONSTANTS
    NumClients,     \* opened clients
    NumSlots,       \* MM_JPEG_MAX_SESSION
    MaxJobs,        \* jobs each client starts (bound)
    MaxCreates,     \* sessions each client asks for (bound)
    SkipDestroy,    \* persist.camera.nx549j.skip_jpeg_destroy_on_stop
    MaxFailures     \* failures of components (bound)

ASSUME MmJpegAssumption ==
    /\ {NumClients, NumSlots} \subseteq Nat \ {0}
    /\ {MaxJobs, MaxCreates} \subseteq [0 .. NumClients - 1 -> Nat]
    /\ SkipDestroy \in BOOLEAN
    /\ MaxFailures \in Nat

Clients == 0 .. NumClients - 1
Slots   == Clients \X (0 .. NumSlots - 1)
Jobs    == UNION {{c} \X (1 .. MaxJobs[c]) : c \in Clients}
None    == <<>>

VARIABLES
    ses,        \* mm_jpeg_job_session_t of each slot
    omx,        \* the component of each slot
    todo,       \* job_mgr.job_queue: [job, ses]
    ongoing,    \* ongoing_job_q
    sem,        \* job_mgr.job_sem
    inprogress, \* p_session_inprogress
    lock,       \* who holds job_lock: "mgr", "api" or "free"
    mgr,        \* the job manager thread: where it is and its job
    api,        \* the one call inside g_intf_lock
    run,        \* the state changes each of the two is going through
    hal,        \* the clients
    failures,   \* failures so far
    status, answers

vars == <<ses, omx, todo, ongoing, sem, inprogress, lock, mgr, api, run, hal, failures,
          status, answers>>
sessionVars == <<ses, omx>>
queueVars   == <<todo, ongoing, sem>>
clientVars  == <<hal, failures, status, answers>>

Idle == [call |-> "none", client |-> 0, ses |-> None, job |-> None, pc |-> "done"]
Still == [ses |-> None, goals |-> <<>>, strict |-> TRUE, at |-> "ok"]

(* mm_jpeg_session_create; handles counts the session in session_handle_q. *)
Fresh == [active |-> TRUE, pending |-> FALSE, abort |-> "NONE", error |-> FALSE,
          encoding |-> FALSE, config |-> FALSE, job |-> None, handles |-> 1]
Unused == [Fresh EXCEPT !.active = FALSE, !.handles = 0]

(* The component: its state, the one it is on its way to, whether it has    *)
(* its buffers, the job it encodes, and how far its thread is inside        *)
(* mm_jpegenc_job_done, with the session's lock held.                       *)
NoComponent == [state |-> "Loaded", goal |-> "none", bufs |-> FALSE, busy |-> None, cb |-> "none"]

Init ==
    /\ ses = [s \in Slots |-> Unused]
    /\ omx = [s \in Slots |-> NoComponent]
    /\ todo = <<>> /\ ongoing = <<>> /\ sem = 0
    /\ inprogress = None /\ lock = "free"
    /\ mgr = [pc |-> "wait", ses |-> None]
    /\ api = Idle
    /\ run = [t \in {"mgr", "api"} |-> Still]
    /\ hal = [c \in Clients |-> [session |-> None, need |-> TRUE, pc |-> "run", made |-> 0, sessions |-> 0]]
    /\ failures = 0
    /\ status = [j \in Jobs |-> "new"]
    /\ answers = [j \in Jobs |-> 0]

-----------------------------------------------------------------------------
Fails == failures < MaxFailures /\ failures' = failures + 1

(* mm_jpeg_session_change_state, for either thread.  A goal is a state and  *)
(* those in which the caller asks for it.                                   *)
Retire    == <<[to |-> "Idle", from |-> {"Executing"}], [to |-> "Loaded", from |-> {"Idle"}]>>
Configure == <<[to |-> "Idle", from |-> {"Loaded", "Executing"}],
               [to |-> "Executing", from |-> {"Loaded", "Idle"}]>>

Change(s, goals, strict) == [ses |-> s, goals |-> goals, strict |-> strict, at |-> "send"]

GoOn(r) ==
    IF Len(r.goals) = 1 THEN [r EXCEPT !.goals = <<>>, !.at = "ok"]
                        ELSE [r EXCEPT !.goals = Tail(@), !.at = "send"]
Fail(r) == IF r.strict THEN [r EXCEPT !.at = "failed"] ELSE GoOn(r)

Legal == {<<"Loaded", "Idle">>, <<"Idle", "Executing">>, <<"Executing", "Idle">>, <<"Idle", "Loaded">>}

(* OMX_SendCommand: a component takes one command at a time. *)
Accepts(s, to) == omx[s].goal = "none" /\ <<omx[s].state, to>> \in Legal

SendCommand(t) ==
    LET r == run[t] s == r.ses IN
    /\ r.at = "send" /\ omx[s].cb = "none"
    /\ IF omx[s].state \notin Head(r.goals).from
         THEN run' = [run EXCEPT ![t] = GoOn(r)] /\ UNCHANGED sessionVars
         ELSE /\ ses' = [ses EXCEPT ![s].pending = TRUE]
              /\ IF Accepts(s, Head(r.goals).to)
                   THEN /\ omx' = [omx EXCEPT ![s].goal = Head(r.goals).to]
                        /\ run' = [run EXCEPT ![t].at = "exec"]
                   ELSE run' = [run EXCEPT ![t] = Fail(r)] /\ UNCHANGED omx
    /\ UNCHANGED <<queueVars, inprogress, lock, mgr, api, clientVars>>

(* The rest of it: an error reported earlier ends the change, else the      *)
(* buffers are given or freed and, unless it is over, the change awaited.   *)
Exec(t) ==
    LET r == run[t] s == r.ses IN
    /\ r.at = "exec" /\ omx[s].cb = "none"
    /\ \/ /\ ses[s].error
          /\ run' = [run EXCEPT ![t] = Fail(r)]
          /\ UNCHANGED <<omx, failures>>
       \/ /\ ~ses[s].error /\ omx[s].state = "Loaded" /\ Fails
          /\ run' = [run EXCEPT ![t] = Fail(r)]
          /\ UNCHANGED omx
       \/ /\ ~ses[s].error /\ UNCHANGED failures
          /\ omx' = [omx EXCEPT ![s].bufs = IF Head(r.goals).to = "Executing" THEN @
                                            ELSE Head(r.goals).to = "Idle"]
          /\ run' = [run EXCEPT ![t] = IF ses[s].pending THEN [r EXCEPT !.at = "wait"] ELSE GoOn(r)]
    /\ UNCHANGED <<ses, queueVars, inprogress, lock, mgr, api, hal, status, answers>>

(* pthread_cond_signal: the thread that waits for this session goes on. *)
Signalled(s) ==
    [t \in {"mgr", "api"} |->
        IF run[t].at = "wait" /\ run[t].ses = s THEN GoOn(run[t]) ELSE run[t]]

-----------------------------------------------------------------------------
(* The components.                                                          *)

(* mm_jpeg_queue_remove_job_by_job_id: a job is in a queue once at most.     *)
Without(q, j) ==
    IF \E i \in DOMAIN q : q[i].job = j
      THEN RemoveAt(q, CHOOSE i \in DOMAIN q : q[i].job = j)
      ELSE q

(* mm_jpegenc_job_done up to the session handle. *)
JobDone(s) == ongoing' = Without(ongoing, ses[s].job)

(* mm_jpeg_event_handler, a command has completed.  Going idle ends an      *)
(* encoding; going to or from Loaded waits for the buffers.                 *)
Complete(s) ==
    /\ omx[s].goal # "none" /\ omx[s].cb = "none"
    /\ omx[s].state = "Loaded" => omx[s].bufs
    /\ omx[s].goal = "Loaded" => ~omx[s].bufs
    /\ omx' = [omx EXCEPT ![s].state = omx[s].goal, ![s].goal = "none", ![s].busy = None]
    /\ IF ses[s].abort = "INIT"
         THEN ses' = [ses EXCEPT ![s].abort = "DONE"] /\ UNCHANGED run
         ELSE ses' = [ses EXCEPT ![s].pending = FALSE]
              /\ run' = IF ses[s].pending THEN Signalled(s) ELSE run
    /\ UNCHANGED <<queueVars, inprogress, lock, mgr, api, clientVars>>

(* mm_jpeg_event_handler, OMX_EventError: while the component encodes, or   *)
(* instead of the end of a command.  (An error of a component that is freed *)
(* after an abort is left out: encoding is still set then, and the callback *)
(* would be for the aborted job.)                                           *)
EventError(s) ==
    /\ omx[s].busy # None \/ (omx[s].goal # "none" /\ ses[s].abort # "DONE")
    /\ omx[s].cb = "none" /\ Fails
    /\ LET calm == [omx EXCEPT ![s].busy = None, ![s].goal = "none"]
       IN  \/ /\ ses[s].abort = "INIT"
              /\ ses' = [ses EXCEPT ![s].abort = "DONE"]
              /\ omx' = calm
              /\ UNCHANGED <<run, ongoing, answers>>
           \/ /\ ses[s].abort # "INIT" /\ ~ses[s].encoding
              /\ ses' = [ses EXCEPT ![s].error = TRUE]
              /\ omx' = calm /\ run' = Signalled(s)
              /\ UNCHANGED <<ongoing, answers>>
           \/ /\ ses[s].abort # "INIT" /\ ses[s].encoding
              /\ ses' = [ses EXCEPT ![s].error = TRUE, ![s].encoding = FALSE]
              /\ omx' = [calm EXCEPT ![s].cb = "error"]
              /\ answers' = [answers EXCEPT ![ses[s].job] = @ + 1]
              /\ JobDone(s) /\ UNCHANGED run
    /\ UNCHANGED <<todo, sem, inprogress, lock, mgr, api, hal, status>>

(* mm_jpeg_fbd: the picture is done; nobody is told once the job is being   *)
(* aborted.                                                                 *)
FillDone(s) ==
    /\ omx[s].busy # None /\ omx[s].cb = "none"
    /\ IF ses[s].abort # "NONE"
         THEN /\ omx' = [omx EXCEPT ![s].busy = None]
              /\ UNCHANGED <<ses, ongoing, answers>>
         ELSE /\ answers' = [answers EXCEPT ![ses[s].job] = @ + 1]
              /\ ses' = [ses EXCEPT ![s].encoding = FALSE]
              /\ omx' = [omx EXCEPT ![s].busy = None, ![s].cb = "done"]
              /\ JobDone(s)
    /\ UNCHANGED <<todo, sem, inprogress, lock, mgr, api, run, hal, status, failures>>

(* The end of mm_jpegenc_job_done: the handle goes back and the job manager *)
(* may look for work; after an error whoever waits for the session goes on. *)
HandleBackSlip(s) ==    \* the handle is not given back
    /\ omx[s].cb # "none"
    /\ sem' = sem + 1
    /\ omx' = [omx EXCEPT ![s].cb = "none"]
    /\ run' = IF omx[s].cb = "error" THEN Signalled(s) ELSE run
    /\ UNCHANGED <<ses, todo, ongoing, inprogress, lock, mgr, api, clientVars>>

HandleBack(s) ==
    /\ omx[s].cb # "none"
    /\ ses' = [ses EXCEPT ![s].handles = @ + 1]
    /\ sem' = sem + 1
    /\ omx' = [omx EXCEPT ![s].cb = "none"]
    /\ run' = IF omx[s].cb = "error" THEN Signalled(s) ELSE run
    /\ UNCHANGED <<todo, ongoing, inprogress, lock, mgr, api, clientVars>>

-----------------------------------------------------------------------------
(* mm_jpeg_jobmgr_thread.                                                   *)

(* A token is used up also when a job is under way. *)
Wake ==
    /\ mgr.pc = "wait" /\ sem > 0
    /\ sem' = sem - 1
    /\ mgr' = IF ongoing = <<>> THEN [mgr EXCEPT !.pc = "lock"] ELSE mgr
    /\ UNCHANGED <<sessionVars, todo, ongoing, inprogress, lock, api, run, clientVars>>

(* mm_jpeg_process_encoding_job: without a session handle the job stays at  *)
(* the head of the queue; else its session is configured, and the one that  *)
(* was is first brought back to Loaded.                                     *)
TakeJob ==
    /\ mgr.pc = "lock" /\ lock = "free"
    /\ IF todo = <<>> \/ ses[Head(todo).ses].handles = 0
         THEN /\ mgr' = [mgr EXCEPT !.pc = "wait"]
              /\ UNCHANGED <<lock, ses, todo, ongoing, run>>
         ELSE LET n == Head(todo) IN
              /\ omx[n.ses].cb = "none"
              /\ lock' = "mgr"
              /\ todo' = Tail(todo) /\ ongoing' = Append(ongoing, n)
              /\ ses' = [ses EXCEPT ![n.ses].handles = @ - 1, ![n.ses].job = n.job,
                                    ![n.ses].abort = "NONE", ![n.ses].encoding = FALSE]
              /\ mgr' = [ses |-> n.ses, pc |-> IF ses[n.ses].config THEN "go"
                                               ELSE IF inprogress = None THEN "configure" ELSE "retire"]
              /\ run' = [run EXCEPT !["mgr"] =
                            IF ses[n.ses].config THEN Still
                            ELSE IF inprogress = None THEN Change(n.ses, Configure, TRUE)
                            ELSE Change(inprogress, Retire, TRUE)]
    /\ UNCHANGED <<omx, sem, inprogress, api, clientVars>>

Retired ==
    /\ mgr.pc = "retire" /\ run["mgr"].at = "ok"
    /\ ses' = [ses EXCEPT ![inprogress].config = FALSE]
    /\ inprogress' = None
    /\ mgr' = [mgr EXCEPT !.pc = "configure"]
    /\ run' = [run EXCEPT !["mgr"] = Change(mgr.ses, Configure, TRUE)]
    /\ UNCHANGED <<omx, queueVars, lock, api, clientVars>>

Configured ==
    /\ mgr.pc = "configure" /\ run["mgr"].at = "ok"
    /\ ses' = [ses EXCEPT ![mgr.ses].config = TRUE]
    /\ inprogress' = mgr.ses
    /\ mgr' = [mgr EXCEPT !.pc = "go"]
    /\ UNCHANGED <<omx, queueVars, lock, api, run, clientVars>>

(* OMX_EmptyThisBuffer and OMX_FillThisBuffer. *)
Encode ==
    /\ mgr.pc = "go" /\ omx[mgr.ses].cb = "none"
    /\ omx[mgr.ses].state = "Executing" /\ omx[mgr.ses].goal = "none"
    /\ ses' = [ses EXCEPT ![mgr.ses].encoding = TRUE]
    /\ omx' = [omx EXCEPT ![mgr.ses].busy = ses[mgr.ses].job]
    /\ mgr' = [pc |-> "wait", ses |-> None] /\ lock' = "free"
    /\ UNCHANGED <<queueVars, inprogress, api, run, clientVars>>

(* Whatever failed, the client is told and the job is done with. *)
GiveUpSlip ==       \* the job manager is not woken for the next job
    /\ \/ /\ mgr.pc \in {"retire", "configure"} /\ run["mgr"].at = "failed"
          /\ UNCHANGED failures
       \/ /\ mgr.pc = "go"
          /\ \/ Fails
             \/ /\ omx[mgr.ses].state # "Executing" \/ omx[mgr.ses].goal # "none"
                /\ UNCHANGED failures
    /\ answers' = [answers EXCEPT ![ses[mgr.ses].job] = @ + 1]
    /\ JobDone(mgr.ses)
    /\ ses' = [ses EXCEPT ![mgr.ses].encoding = FALSE, ![mgr.ses].handles = @ + 1]
    /\ mgr' = [pc |-> "wait", ses |-> None] /\ lock' = "free"
    /\ run' = [run EXCEPT !["mgr"] = Still]
    /\ UNCHANGED <<omx, sem, todo, inprogress, api, hal, status>>

GiveUp ==
    /\ \/ /\ mgr.pc \in {"retire", "configure"} /\ run["mgr"].at = "failed"
          /\ UNCHANGED failures
       \/ /\ mgr.pc = "go"
          /\ \/ Fails
             \/ /\ omx[mgr.ses].state # "Executing" \/ omx[mgr.ses].goal # "none"
                /\ UNCHANGED failures
    /\ answers' = [answers EXCEPT ![ses[mgr.ses].job] = @ + 1]
    /\ JobDone(mgr.ses)
    /\ ses' = [ses EXCEPT ![mgr.ses].encoding = FALSE, ![mgr.ses].handles = @ + 1]
    /\ sem' = sem + 1
    /\ mgr' = [pc |-> "wait", ses |-> None] /\ lock' = "free"
    /\ run' = [run EXCEPT !["mgr"] = Still]
    /\ UNCHANGED <<omx, todo, inprogress, api, hal, status>>

-----------------------------------------------------------------------------
(* Calls of the clients, one at a time.  What a call does before it holds   *)
(* job_lock touches nothing that others use, so a call starts with it.      *)
Call(c, call, s, j, pc) ==
    api' = [call |-> call, client |-> c, ses |-> s, job |-> j, pc |-> pc]

CanCall(c, pc) == api = Idle /\ lock = "free" /\ hal[c].pc = pc

(* mm_jpeg_create_session: a slot, a component and a handle, and the first  *)
(* session is configured at once.  Without a free slot it returns 0 all the *)
(* same, and session id 0.                                                  *)
FreeSlots(c) == {s \in Slots : s[1] = c /\ ~ses[s].active}
Opened(c, s) ==
    hal' = [hal EXCEPT ![c].sessions = @ + 1, ![c].session = s, ![c].need = FALSE]

Create(c) ==
    /\ CanCall(c, "run") /\ hal[c].need /\ hal[c].sessions < MaxCreates[c]
    /\ IF FreeSlots(c) = {}
         THEN Opened(c, None) /\ UNCHANGED <<sessionVars, lock, api, run>>
         ELSE \E s \in FreeSlots(c) :
             /\ \A u \in FreeSlots(c) : s[2] <= u[2]
             /\ Opened(c, s)
             /\ ses' = [ses EXCEPT ![s] = Fresh]
             /\ omx' = [omx EXCEPT ![s] = NoComponent]
             /\ IF inprogress = None
                  THEN /\ lock' = "api" /\ Call(c, "create", s, None, "run")
                       /\ run' = [run EXCEPT !["api"] = Change(s, Configure, TRUE)]
                  ELSE UNCHANGED <<lock, api, run>>
    /\ UNCHANGED <<queueVars, inprogress, mgr, status, answers, failures>>

(* When the configuration fails the call fails; the slot stays taken. *)
CreateReturns ==
    /\ api.call = "create" /\ run["api"].at \in {"ok", "failed"}
    /\ IF run["api"].at = "ok"
         THEN ses' = [ses EXCEPT ![api.ses].config = TRUE] /\ inprogress' = api.ses /\ UNCHANGED hal
         ELSE hal' = [hal EXCEPT ![api.client].need = TRUE] /\ UNCHANGED <<ses, inprogress>>
    /\ lock' = "free" /\ api' = Idle
    /\ run' = [run EXCEPT !["api"] = Still]
    /\ UNCHANGED <<omx, queueVars, mgr, status, answers, failures>>

(* mm_jpeg_start_job.  Session id 0 is read as slot 0 of client 0. *)
SessionOf(c) == IF hal[c].session = None THEN <<0, 0>> ELSE hal[c].session

StartJob(c) ==
    LET j == <<c, hal[c].made + 1>> IN
    /\ api = Idle /\ hal[c].pc = "run" /\ ~hal[c].need /\ hal[c].made < MaxJobs[c]
    /\ hal' = [hal EXCEPT ![c].made = @ + 1]
    /\ IF ses[SessionOf(c)].active
         THEN /\ todo' = Append(todo, [job |-> j, ses |-> SessionOf(c)])
              /\ sem' = sem + 1
              /\ status' = [status EXCEPT ![j] = "accepted"]
         ELSE UNCHANGED <<todo, sem, status>>
    /\ UNCHANGED <<sessionVars, ongoing, inprogress, lock, mgr, api, run, answers, failures>>

Pending(c) == {j \in Jobs : j[1] = c /\ status[j] = "accepted" /\ answers[j] = 0}

(* The client's stop (dataProcessRoutine): abort what was not answered, and *)
(* then destroy the session, or leave it.                                   *)
Stop(c) ==
    /\ api = Idle /\ hal[c].pc = "run" /\ ~hal[c].need
    /\ hal' = [hal EXCEPT ![c].pc = "stop"]
    /\ UNCHANGED <<sessionVars, queueVars, inprogress, lock, mgr, api, run, status, answers, failures>>

(* mm_jpeg_abort_job: a job that waits is removed; the one under way is     *)
(* removed and its session aborted, whose handle does not come back.        *)
AbortJob(c) ==
    /\ CanCall(c, "stop")
    /\ \E j \in Pending(c) :
           IF \E i \in DOMAIN ongoing : ongoing[i].job = j
             THEN /\ ongoing' = Without(ongoing, j)
                  /\ lock' = "api" /\ Call(c, "abort", SessionOf(c), j, "abort")
                  /\ UNCHANGED <<todo, status>>
             ELSE /\ todo' = Without(todo, j)
                  /\ status' = [status EXCEPT ![j] = "withdrawn"]
                  /\ UNCHANGED <<ongoing, lock, api>>
    /\ UNCHANGED <<sessionVars, sem, inprogress, mgr, run, hal, answers, failures>>

(* mm_jpeg_destroy_session: remove the session's jobs, one by one from      *)
(* either queue, abort it, bring its component back to Loaded, free         *)
(* component, slot and handle queue, and wake the job manager.              *)
EndStop(c) ==
    /\ CanCall(c, "stop") /\ Pending(c) = {}
    /\ hal' = [hal EXCEPT ![c].pc = "run", ![c].need = TRUE, ![c].session = None]
    /\ IF SkipDestroy \/ hal[c].session = None
         THEN UNCHANGED <<lock, api>>
         ELSE lock' = "api" /\ Call(c, "destroy", hal[c].session, None, "purge")
    /\ UNCHANGED <<sessionVars, queueVars, inprogress, mgr, run, status, answers, failures>>

OfSession(q, s) == {i \in DOMAIN q : q[i].ses = s}
IsFirst(q, s, i) == i \in OfSession(q, s) /\ \A k \in OfSession(q, s) : i <= k

Purge ==
    /\ api.pc = "purge"
    /\ IF OfSession(todo, api.ses) # {}
         THEN /\ \E i \in DOMAIN todo : IsFirst(todo, api.ses, i) /\ todo' = RemoveAt(todo, i)
              /\ UNCHANGED <<ongoing, api>>
         ELSE IF OfSession(ongoing, api.ses) # {}
         THEN /\ \E i \in DOMAIN ongoing : IsFirst(ongoing, api.ses, i) /\ ongoing' = RemoveAt(ongoing, i)
              /\ UNCHANGED <<todo, api>>
         ELSE api' = [api EXCEPT !.pc = "abort"] /\ UNCHANGED <<todo, ongoing>>
    /\ UNCHANGED <<sessionVars, sem, inprogress, lock, mgr, run, clientVars>>

(* mm_jpeg_session_abort: the command to stop is sent, its end awaited.     *)
(* (OMX_SendCommand does not fail here: the call would return with the      *)
(* component still encoding.)                                               *)
AfterAbort ==
    IF api.call = "abort"
      THEN /\ api' = Idle /\ lock' = "free"
           /\ status' = [status EXCEPT ![api.job] = "withdrawn"]
           /\ UNCHANGED run
      ELSE /\ api' = [api EXCEPT !.pc = "run"]
           /\ run' = [run EXCEPT !["api"] = Change(api.ses, Retire, FALSE)]
           /\ UNCHANGED <<lock, status>>

SessionAbortSlip ==     \* the end of the command is not awaited
    LET s == api.ses IN
    /\ api.pc = "abort" /\ omx[s].cb = "none"
    /\ IF ses[s].abort = "NONE" /\ ses[s].encoding
         THEN /\ ses' = [ses EXCEPT ![s].abort = "DONE", ![s].pending = TRUE]
              /\ omx' = [omx EXCEPT ![s].goal = "Idle"]
         ELSE /\ ses' = IF ses[s].abort = "NONE" THEN [ses EXCEPT ![s].abort = "DONE"] ELSE ses
              /\ UNCHANGED omx
    /\ AfterAbort
    /\ UNCHANGED <<queueVars, inprogress, mgr, hal, answers, failures>>

SessionAbort ==
    LET s == api.ses IN
    /\ api.pc = "abort" /\ omx[s].cb = "none"
    /\ IF ses[s].abort = "NONE" /\ ses[s].encoding
         THEN /\ ses' = [ses EXCEPT ![s].abort = "INIT", ![s].pending = TRUE]
              /\ omx' = [omx EXCEPT ![s].goal = "Idle"]
              /\ api' = [api EXCEPT !.pc = "aborting"]
              /\ UNCHANGED <<run, lock, status>>
         ELSE /\ ses' = IF ses[s].abort = "NONE" THEN [ses EXCEPT ![s].abort = "DONE"] ELSE ses
              /\ AfterAbort
              /\ UNCHANGED omx
    /\ UNCHANGED <<queueVars, inprogress, mgr, hal, answers, failures>>

Aborted ==
    /\ api.pc = "aborting" /\ ses[api.ses].abort = "DONE" /\ omx[api.ses].cb = "none"
    /\ AfterAbort
    /\ UNCHANGED <<sessionVars, queueVars, inprogress, mgr, hal, answers, failures>>

DestroyReturns ==
    /\ api.call = "destroy" /\ api.pc = "run" /\ run["api"].at = "ok"
    /\ ses' = [ses EXCEPT ![api.ses] = Unused]
    /\ omx' = [omx EXCEPT ![api.ses] = NoComponent]
    /\ inprogress' = IF inprogress = api.ses THEN None ELSE inprogress
    /\ lock' = "free" /\ sem' = sem + 1
    /\ run' = [run EXCEPT !["api"] = Still] /\ api' = Idle
    /\ UNCHANGED <<todo, ongoing, mgr, clientVars>>

-----------------------------------------------------------------------------
ComponentStep(s) == Complete(s) \/ EventError(s) \/ FillDone(s) \/ HandleBack(s)
MgrStep == Wake \/ TakeJob \/ Retired \/ Configured \/ Encode \/ GiveUp \/ SendCommand("mgr") \/ Exec("mgr")
ApiStep == CreateReturns \/ Purge \/ SessionAbort \/ Aborted \/ DestroyReturns \/ SendCommand("api") \/ Exec("api")
ClientStep(c) == Create(c) \/ StartJob(c) \/ Stop(c) \/ AbortJob(c) \/ EndStop(c)

Next == (\E s \in Slots : ComponentStep(s)) \/ MgrStep \/ ApiStep \/ (\E c \in Clients : ClientStep(c))

Spec == Init /\ [][Next]_vars

(* The threads run, components answer, and a stop that was begun goes on. *)
Fairness ==
    /\ WF_vars(MgrStep) /\ WF_vars(ApiStep)
    /\ \A s \in Slots : WF_vars(Complete(s) \/ FillDone(s) \/ HandleBack(s))
    /\ \A c \in Clients : WF_vars(AbortJob(c) \/ EndStop(c))

FairSpec == Spec /\ Fairness

-----------------------------------------------------------------------------
(* Correctness.                                                             *)

(* The encoder keeps its promises: at most one callback for a job, none     *)
(* once abort_job has returned, and buffers read one job at a time and only *)
(* while it is the encoder's.                                               *)
Reading == {omx[s].busy : s \in Slots} \ {None}
Service == INSTANCE JpegService WITH reading <- Reading
ServiceSpec == Service!Spec

(* Every job that was accepted is answered, or withdrawn by its client:     *)
(* no wake-up of the job manager is lost, whatever the other clients do.    *)
JobsAnswered ==
    \A j \in Jobs : status[j] = "accepted" ~> answers[j] > 0 \/ status[j] = "withdrawn"

(* A session's handle is in its queue, or with the one job that uses it, or *)
(* went down with an abort; and a job under way has one.                    *)
UsersOf(s) ==
    Cardinality({i \in DOMAIN ongoing : ongoing[i].ses = s})
    + (IF omx[s].cb # "none" THEN 1 ELSE 0)

HandlesConserved ==
    /\ Len(ongoing) <= 1
    /\ \A s \in Slots : ses[s].active =>
           \/ ses[s].handles + UsersOf(s) = 1
           \/ ses[s].handles + UsersOf(s) = 0
              /\ (ses[s].abort # "NONE" \/ (api.ses = s /\ api.pc \in {"purge", "abort", "aborting"}))

(* A session that was created, as far as the client can tell, is its own.   *)
SessionsAreOwn ==
    \A c \in Clients : ~hal[c].need /\ hal[c].pc = "run" => hal[c].session # None
=============================================================================
