------------------------------- MODULE Proxy -------------------------------
(* The relay between an MCP client and the server process it supervises      *)
(* (brain_mcp/proxy.py): the main thread takes the client's requests, the    *)
(* reader forwards the child's answers, the recovery thread replaces a lost  *)
(* or outdated child.  Children are numbered in the order they are started.  *)
(*                                                                           *)
(* A message has only the identity of its request.  The writer thread sends  *)
(* the queued answers in their order: `answers[r]` is what the client gets.  *)
EXTENDS Naturals, FiniteSets, Sequences

CONSTANTS Calls,       \* tools/call requests: commands
          Protocol,    \* other requests: lists, reads of resources, prompts
          Controls,    \* requests for a refresh of the server
          None,
          MaxChildren, MaxVersion, MaxAsked,   \* bounds
          Slots,       \* length of the backoff schedule
          MaxReplay,   \* _MAX_REPLAY_DEPTH
          MayCrash     \* may the recovery thread die of an error?

Requests == Calls \union Protocol \union Controls
ASSUME ProxyAssumption ==
    /\ Calls \intersect Protocol = {} /\ (Calls \union Protocol) \intersect Controls = {}
    /\ None \notin Requests /\ IsFiniteSet(Requests)
    /\ MaxChildren \in Nat \ {0} /\ MaxVersion \in Nat \ {0} /\ MaxAsked \in Nat
    /\ Slots \in Nat /\ MaxReplay \in Nat /\ MayCrash \in BOOLEAN

VARIABLES
    disk,        \* the installed VERSION
    child,       \* child[g]: its state, the requests it holds, its answers in the pipe
    cur,         \* _child: the published child, 0 is None
    launched,    \* _last_launched_version
    blocked,     \* _refresh_blocked_version, 0 is None
    restarting,  \* _restart_in_progress
    exit,        \* _recovery_exit_code
    slot,        \* _backoff_slot
    gaveUp,      \* _gave_up
    resetAsked,  \* _version_reset_requested
    trigger,     \* _recovery_trigger
    depth,       \* _replay_depth
    inflight,    \* keys of _inflight_requests
    accepted,    \* keys of _accepted_calls
    replay,      \* _pending_replay
    unexpected,  \* _pending_unexpected
    held,        \* the request of _pending_lifecycle
    shutdown,    \* _shutdown
    main,        \* main thread: where it is, its request, the child it read
    reading,     \* reader thread: the answer it has taken from the pipe
    rec,         \* recovery thread: where it is, why, the child it prepares
    asked, answers,   \* the client: what it asked, what it was answered
    sent         \* history: how often children have received r; for a request that may
                 \* be replayed, since the last answer of a child

supervision == <<cur, restarting, exit, slot, gaveUp, resetAsked, trigger, depth>>
tracked == <<inflight, accepted, replay, unexpected>>
client == <<asked, answers>>
vars == <<disk, child, launched, blocked, supervision, tracked, held, shutdown, main,
          reading, rec, client, sent>>

Children == 1 .. MaxChildren
NoChild == [st |-> "none", got |-> {}, out |-> {}]
Dead(g) == child[g].st \in {"clean", "drift", "crash"}
Put(g, r) == [child EXCEPT ![g].got = @ \union {r}]

MainIdle == [pc |-> "idle", req |-> None, kid |-> 0]
RecIdle == [pc |-> "idle", why |-> "none", kid |-> 0, seen |-> 0, any |-> FALSE]
\* Mutant: nobody notices that the recovery thread has died.
RecDead_Unnoticed == FALSE
\* _recovery_thread_failed or _recovery_thread_is_dead()
RecDead == rec.pc \in {"flagged", "dead"}

Init ==
    /\ disk = 1 /\ launched = 1 /\ blocked = 0 /\ cur = 1
    /\ child = [g \in Children |-> IF g = 1 THEN [NoChild EXCEPT !.st = "up"] ELSE NoChild]
    /\ restarting = FALSE /\ exit = "none" /\ slot = 0 /\ gaveUp = FALSE
    /\ resetAsked = FALSE /\ trigger = FALSE /\ depth = 0
    /\ inflight = {} /\ accepted = {} /\ replay = {} /\ unexpected = {}
    /\ held = None /\ shutdown = FALSE
    /\ main = MainIdle /\ reading = None /\ rec = RecIdle
    /\ asked = {} /\ answers = [r \in Requests |-> <<>>] /\ sent = [r \in Requests |-> 0]

----------------------------------------------------------------------------
(* Answering.                                                                *)

\* _send_to_client for every request of S, after the answers in ans.
Reply(ans, S, kind) == [r \in Requests |-> IF r \in S THEN Append(ans[r], kind) ELSE ans[r]]

\* A request that is answered because no child will: an accepted call may
\* have been executed, and its answer says so; any other may be retried.
Refused(ans, requests, calls) == Reply(Reply(ans, requests, "error"), calls, "unknown")

\* Mutant: the calls are dropped with the requests.
FailPending_DropCalls ==
    /\ answers' = Refused(answers, replay, {})
    /\ replay' = {} /\ unexpected' = {}
    /\ depth' = IF replay = {} THEN depth ELSE 0

\* _fail_pending_replay
FailPending ==
    /\ answers' = Refused(answers, replay, unexpected)
    /\ replay' = {} /\ unexpected' = {}
    /\ depth' = IF replay = {} THEN depth ELSE 0

----------------------------------------------------------------------------
(* The loss of a child is claimed once: the claim takes it out of service,   *)
(* drains the requests it owed and wakes the recovery thread.                *)

\* _drain_inflight, and what each drained request becomes.
Drained == [replay |-> IF exit' = "drift" /\ depth < MaxReplay THEN inflight \ accepted ELSE {},
            unexpected |-> inflight \intersect accepted]

CanClaim(g) == ~shutdown /\ ~restarting /\ cur = g

\* _signal_recovery, for the published child g.  With the recovery thread dead
\* nobody will serve what was drained: it is failed at once.
Claim(g) ==
    /\ CanClaim(g)
    /\ cur' = 0 /\ restarting' = TRUE /\ trigger' = TRUE /\ exit' = child[g].st
    /\ inflight' = {} /\ accepted' = accepted \ inflight
    /\ replay' = IF RecDead THEN {} ELSE Drained.replay
    /\ unexpected' = IF RecDead THEN {} ELSE Drained.unexpected
    /\ depth' = IF RecDead \/ Drained.replay = {} THEN 0 ELSE depth + 1
    /\ answers' = Refused(answers, inflight \ (accepted \union replay'),
                          (inflight \intersect accepted) \ unexpected')
    /\ UNCHANGED <<slot, gaveUp, resetAsked>>

----------------------------------------------------------------------------
(* The main thread.                                                          *)

Answer(r, kind) ==
    /\ answers' = Reply(answers, {r}, kind) /\ main' = MainIdle
    /\ UNCHANGED <<supervision, tracked, held>>

\* Mutant: a refresh is admitted while the child owes answers.
Admissible_Busy == held = None /\ ~restarting /\ ~RecDead
Admissible == held = None /\ ~restarting /\ inflight = {} /\ ~RecDead

\* _admit_lifecycle, its checks: they are made under _restart_lock, which the
\* main thread keeps (at "admit") until r is held.
Admit(r) ==
    \/ ~Admissible /\ Answer(r, "error")
    \/ /\ Admissible /\ main' = [pc |-> "admit", req |-> r, kid |-> 0]
       /\ UNCHANGED <<supervision, tracked, held, answers>>

\* Steps of other threads that take _restart_lock and may meet it there.
Free == main.pc # "admit"

\* _admit_lifecycle, its end: hold r until the recovery thread has refreshed
\* the server.
Hold ==
    /\ main.pc = "admit" /\ main' = MainIdle
    /\ held' = main.req /\ restarting' = TRUE /\ trigger' = TRUE
    /\ UNCHANGED <<cur, exit, slot, gaveUp, resetAsked, depth, tracked, answers>>

\* run: a request arrives.  A published child that has exited is claimed here
\* when the reader has not yet seen the end of its output.
Take(r) ==
    /\ main.pc = "idle" /\ ~shutdown /\ r \notin asked /\ Cardinality(asked) < MaxAsked
    /\ asked' = asked \union {r}
    /\ \/ r \in Controls /\ Admit(r)
       \/ r \notin Controls /\ held # None /\ Answer(r, "error")
       \/ /\ r \notin Controls /\ held = None
          /\ IF cur # 0 /\ Dead(cur)
             THEN /\ main' = [pc |-> "look", req |-> r, kid |-> 0]
                  /\ \/ Claim(cur)
                     \/ ~CanClaim(cur) /\ UNCHANGED <<supervision, tracked, answers>>
             ELSE /\ main' = [pc |-> "look", req |-> r, kid |-> cur]
                  /\ UNCHANGED <<supervision, tracked, answers>>
          /\ UNCHANGED held
    /\ UNCHANGED <<disk, child, launched, blocked, shutdown, reading, rec, sent>>

\* run, _signal_version_reset: no child will take the request.  A call that
\* meets a relay that gave up asks for the installed version to be looked at.
Unserved ==
    /\ main.pc = "look" /\ (restarting \/ main.kid = 0)
    /\ answers' = Reply(IF rec.pc = "dead" THEN Refused(answers, replay, unexpected) ELSE answers,
                        {main.req}, "error")
    /\ replay' = IF rec.pc = "dead" THEN {} ELSE replay
    /\ unexpected' = IF rec.pc = "dead" THEN {} ELSE unexpected
    /\ resetAsked' = (resetAsked \/ (gaveUp /\ main.req \in Calls /\ rec.pc # "dead"))
    /\ trigger' = (trigger \/ (gaveUp /\ main.req \in Calls /\ rec.pc # "dead"))
    /\ main' = MainIdle
    /\ UNCHANGED <<cur, restarting, exit, slot, gaveUp, depth, inflight, accepted, held>>

\* run: a call that finds another version installed waits for a refresh,
\* unless a refresh to that version has failed before.
Outdated ==
    /\ main.pc = "look" /\ ~restarting /\ main.kid # 0
    /\ main.req \in Calls /\ disk # launched
    /\ \/ blocked = disk /\ Answer(main.req, "error")
       \/ blocked # disk /\ Admit(main.req)

Current ==
    /\ main.pc = "look" /\ ~restarting /\ main.kid # 0
    /\ main.req \in Calls => disk = launched
    /\ main' = [main EXCEPT !.pc = "insert"]
    /\ UNCHANGED <<supervision, tracked, held, answers>>

\* _forward_to_child, before the send: the request is tracked.
Insert ==
    /\ main.pc = "insert"
    /\ inflight' = inflight \union {main.req}
    /\ accepted' = accepted \union ({main.req} \intersect Calls)
    /\ main' = [main EXCEPT !.pc = "send"]
    /\ UNCHANGED <<supervision, replay, unexpected, held, answers>>

\* _forward_to_child, the send: it fails when the child has exited.
Send ==
    /\ main.pc = "send"
    /\ IF child[main.kid].st = "up"
       THEN /\ child' = Put(main.kid, main.req) /\ main' = MainIdle
            /\ sent' = [sent EXCEPT ![main.req] = @ + 1]
       ELSE main' = [main EXCEPT !.pc = "owed"] /\ UNCHANGED <<child, sent>>
    /\ UNCHANGED <<supervision, tracked, held, answers>>

\* _recover_owed_client, after the failed send: claim the loss, or, where it
\* was claimed already, answer the request if it is still tracked.
RecoverOwed ==
    /\ main.pc = "owed" /\ main' = MainIdle
    /\ \/ Claim(main.kid)
       \/ /\ ~CanClaim(main.kid)
          /\ inflight' = inflight \ {main.req} /\ accepted' = accepted \ {main.req}
          /\ answers' = Refused(answers, {main.req} \intersect (inflight \ accepted),
                                {main.req} \intersect inflight \intersect accepted)
          /\ UNCHANGED <<supervision, replay, unexpected>>
    /\ UNCHANGED held

Serve ==
    /\ \/ /\ Unserved \/ Outdated \/ Hold \/ Current \/ Insert \/ RecoverOwed
          /\ UNCHANGED <<child, sent>>
       \/ Send
    /\ UNCHANGED <<disk, launched, blocked, shutdown, reading, rec, asked>>

\* run: the client closes its end.
ClientLeaves ==
    /\ main.pc = "idle" /\ ~shutdown /\ shutdown' = TRUE
    /\ UNCHANGED <<disk, child, launched, blocked, supervision, tracked, held, main,
                   reading, rec, client, sent>>

----------------------------------------------------------------------------
(* The reader thread.  It works under the publication gate, from its check   *)
(* that the child is still the published one until the answer is queued.     *)

Read(r) ==
    /\ ~shutdown /\ reading = None /\ cur # 0 /\ r \in child[cur].out
    /\ reading' = r /\ child' = [child EXCEPT ![cur].out = @ \ {r}]
    /\ UNCHANGED <<supervision, tracked, answers>>

\* The answer is forwarded whether or not its request is still tracked.
Forward ==
    /\ reading # None /\ reading' = None
    /\ inflight' = inflight \ {reading} /\ accepted' = accepted \ {reading}
    /\ depth' = 0
    /\ answers' = Reply(answers, {reading}, "result")
    /\ sent' = [r \in Requests |-> IF r \in Protocol THEN 0 ELSE sent[r]]
    /\ UNCHANGED <<child, cur, restarting, exit, slot, gaveUp, resetAsked, trigger,
                   replay, unexpected>>

\* The output has ended: claim the loss.
Eof ==
    /\ Free /\ reading = None /\ cur # 0 /\ child[cur].out = {} /\ Dead(cur)
    /\ Claim(cur) /\ UNCHANGED <<child, reading>>

\* _HANG_CONSECUTIVE_LIMIT timeouts with requests in flight: kill the child.
Hang ==
    /\ ~shutdown /\ reading = None /\ cur # 0 /\ child[cur].st = "up"
    /\ child[cur].out = {} /\ inflight # {}
    /\ child' = [child EXCEPT ![cur].st = "crash"]
    /\ UNCHANGED <<reading, supervision, tracked, answers>>

Reader ==
    /\ \/ /\ (\E r \in Requests : Read(r)) \/ Eof \/ Hang
          /\ UNCHANGED sent
       \/ Forward
    /\ UNCHANGED <<disk, launched, blocked, held, shutdown, main, rec, asked>>

----------------------------------------------------------------------------
(* The recovery thread.                                                      *)

RecGo(pc, why) == [rec EXCEPT !.pc = pc, !.why = why]

\* _finish_recovery_cycle
FinishCycle == restarting' = FALSE /\ resetAsked' = FALSE /\ exit' = "none"

\* _recovery_thread: a woken thread looks whether a refresh is held and, if not,
\* whether a relay that gave up was asked to look at the installed version.
Wake ==
    /\ rec.pc = "idle" /\ trigger /\ ~shutdown /\ trigger' = FALSE
    /\ rec' = IF held # None THEN RecGo("prepare", "refresh")
              ELSE RecGo(IF gaveUp /\ resetAsked THEN "reset" ELSE "decide", "none")
    /\ UNCHANGED <<cur, restarting, exit, slot, gaveUp, resetAsked, depth, tracked, answers, held,
                   shutdown, child, launched, blocked>>

\* _maybe_begin_version_reset, after its look at the disk: when another version
\* is installed the relay tries again, though a refresh may be held by now; a
\* look too soon after the last one is not made.
VersionReset ==
    /\ rec.pc = "reset" /\ Free
    /\ resetAsked' = FALSE /\ rec' = RecGo("decide", "none")
    /\ \/ UNCHANGED <<gaveUp, slot, restarting, exit>>
       \/ /\ disk # launched
          /\ gaveUp' = FALSE /\ slot' = 0 /\ restarting' = TRUE /\ exit' = "crash"
    /\ UNCHANGED <<cur, trigger, depth, tracked, answers, held, shutdown, child, launched, blocked>>

\* _recovery_thread, _recover_from_exit: go back to wait, or to the work there
\* is.  A child that had been healthy for long resets the backoff.
Decide ==
    /\ rec.pc = "decide" /\ Free
    /\ \/ /\ held # None \/ ~restarting
          /\ rec' = RecIdle
          /\ UNCHANGED <<restarting, exit, slot, resetAsked, replay, unexpected, depth, answers,
                         shutdown>>
       \/ /\ held = None /\ restarting /\ exit = "clean"
          /\ FailPending /\ FinishCycle /\ shutdown' = TRUE /\ rec' = RecIdle
          /\ UNCHANGED slot
       \/ /\ held = None /\ restarting /\ exit # "clean"
          /\ slot' \in {slot, 0}
          /\ rec' = IF exit = "drift" THEN RecGo("start", "drift") ELSE RecGo("attempt", "backoff")
          /\ UNCHANGED <<restarting, exit, resetAsked, replay, unexpected, depth, answers, shutdown>>
    /\ UNCHANGED <<cur, gaveUp, trigger, inflight, accepted, held, child, launched, blocked>>

\* _recover_from_exit: the next place of the backoff schedule.  The wait
\* consumes a trigger that is set.
Attempt ==
    /\ rec.pc = "attempt" /\ trigger' \in {trigger, FALSE}
    /\ \/ /\ shutdown /\ FailPending /\ FinishCycle /\ rec' = RecIdle
          /\ UNCHANGED <<slot, gaveUp>>
       \/ /\ ~shutdown /\ slot < Slots
          /\ slot' = slot + 1 /\ rec' = RecGo("start", rec.why)
          /\ UNCHANGED <<restarting, exit, gaveUp, resetAsked, replay, unexpected, depth, answers>>
       \/ /\ ~shutdown /\ slot = Slots
          /\ gaveUp' = TRUE /\ restarting' = FALSE /\ exit' = "none"
          /\ rec' = RecGo("giveup", rec.why)
          /\ UNCHANGED <<slot, resetAsked, replay, unexpected, depth, answers>>
    /\ UNCHANGED <<cur, inflight, accepted, held, shutdown, child, launched, blocked>>

GiveUp ==
    /\ rec.pc = "giveup" /\ Free /\ FailPending /\ rec' = RecIdle
    /\ UNCHANGED <<cur, restarting, exit, slot, gaveUp, resetAsked, trigger, inflight,
                   accepted, held, shutdown, child, launched, blocked>>

\* _prepare_lifecycle: is there anything to refresh?
Prepare ==
    /\ rec.pc = "prepare"
    /\ rec' = IF cur = 0 \/ Dead(cur) \/ launched # disk
              THEN RecGo("start", "refresh") ELSE RecGo("resume", "refresh")
    /\ UNCHANGED <<supervision, tracked, answers, held, shutdown, child, launched, blocked>>

\* _start_child fails: what its caller does then.  A failed refresh is
\* answered, and its version is not tried again on a call's behalf.
NotStarted(seen) ==
    \/ /\ rec.why = "refresh" /\ rec' = RecGo("refused", "refresh") /\ blocked' = seen
       /\ UNCHANGED slot
    \/ /\ rec.why # "refresh" /\ rec' = RecGo("attempt", "backoff")
       /\ slot' = IF rec.why = "drift" THEN 0 ELSE slot
       /\ UNCHANGED blocked

\* _start_child: the new child is private to the recovery thread; the process of an
\* earlier one, dead and published no more, is of no consequence now ("gone").
StartChild ==
    /\ rec.pc = "start"
    /\ \/ \E g \in Children :
             /\ child[g].st = "none" /\ \A k \in 1 .. (g - 1) : child[k].st # "none"
             /\ child' = [k \in Children |->
                  CASE k = g -> [NoChild EXCEPT !.st = "up"]
                    [] k < g /\ k # cur -> [NoChild EXCEPT !.st = "gone"]
                    [] OTHER -> child[k]]
             /\ rec' = [pc |-> "resolve", why |-> rec.why, kid |-> g, seen |-> disk, any |-> FALSE]
             /\ UNCHANGED <<slot, blocked>>
       \/ NotStarted(disk) /\ UNCHANGED child
    /\ UNCHANGED <<cur, restarting, exit, gaveUp, resetAsked, trigger, depth, tracked,
                   answers, held, shutdown, launched>>

\* _resolve_pending_unexpected: the private child is asked for the receipts of
\* the calls its predecessor took along.
ResolveUnexpected ==
    /\ rec.pc = "resolve"
    /\ \E known \in SUBSET unexpected :
          /\ child[rec.kid].st # "up" => known = {}
          /\ answers' = Reply(Reply(answers, known, "resolved"), unexpected \ known, "unknown")
    /\ unexpected' = {} /\ rec' = RecGo("publish", rec.why)
    /\ UNCHANGED <<supervision, inflight, accepted, replay, held, shutdown, child, launched, blocked>>

\* _start_child, its end: publish the child under the publication gate, unless
\* the installed version has changed meanwhile; the previous child is killed.
Publish ==
    /\ rec.pc = "publish" /\ reading = None
    /\ \/ /\ ~shutdown /\ disk = rec.seen
          /\ cur' = rec.kid /\ launched' = rec.seen
          /\ child' = IF cur # 0 /\ child[cur].st = "up"
                      THEN [child EXCEPT ![cur].st = "crash"] ELSE child
          /\ IF rec.why = "refresh"
             THEN /\ gaveUp' = FALSE /\ slot' = 0 /\ blocked' = 0 /\ rec' = RecGo("resume", "refresh")
             ELSE rec' = RecGo("replay", rec.why) /\ UNCHANGED <<gaveUp, slot, blocked>>
       \/ /\ shutdown \/ disk # rec.seen
          /\ child' = [child EXCEPT ![rec.kid].st = IF @ = "up" THEN "crash" ELSE @]
          /\ NotStarted(rec.seen) /\ UNCHANGED <<cur, launched, gaveUp>>
    /\ UNCHANGED <<restarting, exit, resetAsked, trigger, depth, tracked, answers, held, shutdown>>

\* _replay_requests: one saved request is sent to the new child, a command
\* among them is refused.
Replay(r) ==
    /\ rec.pc = "replay" /\ r \in replay /\ replay' = replay \ {r}
    /\ IF child[cur].st = "up" /\ r \notin Calls
       THEN /\ inflight' = inflight \union {r} /\ child' = Put(cur, r)
            /\ rec' = [rec EXCEPT !.any = TRUE]
            /\ sent' = [sent EXCEPT ![r] = @ + 1] /\ UNCHANGED answers
       ELSE answers' = Reply(answers, {r}, "error") /\ UNCHANGED <<inflight, child, rec, sent>>
    /\ UNCHANGED <<supervision, accepted, unexpected, held, shutdown, launched, blocked>>

ReplayDone ==
    /\ rec.pc = "replay" /\ replay = {}
    /\ FinishCycle /\ depth' = (IF rec.any THEN depth ELSE 0) /\ rec' = RecIdle
    /\ UNCHANGED <<cur, slot, gaveUp, trigger, tracked, answers, held, shutdown, child,
                   launched, blocked>>

\* _complete_lifecycle: the held call goes to the refreshed server.  A send
\* that fails cannot claim the loss (restarting): the call is answered here.
Resume ==
    /\ rec.pc = "resume" /\ reading = None /\ ~shutdown
    /\ \/ /\ held \in Calls /\ child[cur].st = "up"
          /\ inflight' = inflight \union {held} /\ accepted' = accepted \union {held}
          /\ child' = Put(cur, held) /\ sent' = [sent EXCEPT ![held] = @ + 1]
          /\ UNCHANGED answers
       \/ /\ held \in Calls /\ child[cur].st # "up" /\ answers' = Reply(answers, {held}, "unknown")
          /\ UNCHANGED <<inflight, accepted, child, sent>>
       \/ /\ held \notin Calls /\ answers' = Reply(answers, {held}, "result")
          /\ UNCHANGED <<inflight, accepted, child, sent>>
    /\ rec' = RecGo("release", "refresh")
    /\ UNCHANGED <<supervision, replay, unexpected, held, shutdown, launched, blocked>>

\* Mutant: the lifecycle stays pending.
Release_KeepHeld ==
    /\ rec.pc \in {"release", "refused"}
    /\ restarting' = FALSE /\ rec' = RecIdle
    /\ answers' = IF rec.pc = "refused" THEN Reply(answers, {held}, "error") ELSE answers
    /\ UNCHANGED <<cur, exit, slot, gaveUp, resetAsked, trigger, depth, tracked, held, shutdown,
                   child, launched, blocked>>

\* _complete_lifecycle, its end.
Release ==
    /\ rec.pc \in {"release", "refused"}
    /\ restarting' = FALSE /\ held' = None /\ rec' = RecIdle
    /\ answers' = IF rec.pc = "refused" THEN Reply(answers, {held}, "error") ELSE answers
    /\ UNCHANGED <<cur, exit, slot, gaveUp, resetAsked, trigger, depth, tracked, shutdown, child,
                   launched, blocked>>

\* ... and of one that finds the relay ending.
Abandon ==
    /\ rec.pc \in {"resume", "refused"} /\ shutdown /\ rec' = RecIdle
    /\ UNCHANGED <<supervision, tracked, answers, held, shutdown, child, launched, blocked>>

Recovery ==
    /\ \/ /\ \/ Wake \/ VersionReset \/ Decide \/ Attempt \/ GiveUp \/ Prepare \/ StartChild \/ ResolveUnexpected
             \/ Publish \/ ReplayDone \/ Release \/ Abandon
          /\ UNCHANGED sent
       \/ (\E r \in Requests : Replay(r)) \/ Resume
    /\ UNCHANGED <<disk, main, reading, asked>>

\* _handle_recovery_thread_crash: an error outside every handler, while a child
\* is being started, ends the thread.
Crash ==
    /\ MayCrash /\ rec.pc = "start"
    /\ FailPending /\ FinishCycle /\ rec' = RecGo("crashed", rec.why)
    /\ UNCHANGED <<disk, child, cur, launched, blocked, slot, gaveUp, trigger, inflight,
                   accepted, held, shutdown, main, reading, asked, sent>>

\* The flag is set without _restart_lock: an admission may be past its checks.
Flag ==
    /\ rec.pc = "crashed" /\ rec' = [RecIdle EXCEPT !.pc = "flagged", !.any = ~Free]
    /\ UNCHANGED <<disk, child, launched, blocked, supervision, tracked, held, shutdown, main,
                   reading, client, sent>>

\* A refresh that is held by now is refused.
Crashed ==
    /\ rec.pc = "flagged" /\ rec' = [rec EXCEPT !.pc = "dead"]
    /\ IF held = None \/ shutdown THEN UNCHANGED <<held, restarting, answers>>
       ELSE held' = None /\ restarting' = FALSE /\ answers' = Reply(answers, {held}, "error")
    /\ UNCHANGED <<disk, child, cur, launched, blocked, exit, slot, gaveUp, resetAsked, trigger,
                   depth, tracked, shutdown, main, reading, asked, sent>>

----------------------------------------------------------------------------
(* The children and the installed files.                                     *)

ChildAnswers(g, r) ==
    /\ child[g].st = "up" /\ r \in child[g].got
    /\ child' = [child EXCEPT ![g].got = @ \ {r}, ![g].out = @ \union {r}]
    /\ UNCHANGED disk

\* A child exits of itself (clean), because it has found another version
\* installed (drift), or is lost (crash).
ChildExits(g, how) ==
    /\ child[g].st = "up" /\ child' = [child EXCEPT ![g].st = how] /\ UNCHANGED disk

Install == disk < MaxVersion /\ disk' = disk + 1 /\ UNCHANGED child

Environment ==
    /\ \/ \E g \in Children, r \in Requests : ChildAnswers(g, r)
       \/ \E g \in Children, how \in {"clean", "drift", "crash"} : ChildExits(g, how)
       \/ Install
    /\ UNCHANGED <<launched, blocked, supervision, tracked, held, shutdown, main, reading,
                   rec, client, sent>>

Next ==
    \/ (\E r \in Requests : Take(r)) \/ Serve \/ ClientLeaves
    \/ Reader \/ Recovery \/ Crash \/ Flag \/ Crashed \/ Environment

Spec == Init /\ [][Next]_vars
FairSpec == Spec /\ WF_vars(Serve) /\ WF_vars(Reader) /\ WF_vars(Recovery) /\ WF_vars(Flag \/ Crashed)

----------------------------------------------------------------------------
(* Properties.                                                               *)

\* Types, and the sets of _inflight_requests, _accepted_calls and the pending
\* work stay within what each may hold.
TypeOK ==
    /\ disk \in 1 .. MaxVersion /\ launched \in 1 .. MaxVersion /\ blocked \in 0 .. MaxVersion
    /\ cur \in 0 .. MaxChildren /\ slot \in 0 .. Slots /\ depth \in 0 .. MaxReplay
    /\ {restarting, gaveUp, resetAsked, trigger, shutdown} \subseteq BOOLEAN
    /\ accepted \subseteq Calls \intersect inflight /\ inflight \subseteq Calls \union Protocol
    /\ replay \subseteq Protocol /\ unexpected \subseteq Calls
    /\ held \in Calls \union Controls \union {None}
    /\ reading \in Requests \union {None} /\ asked \subseteq Requests

\* A command is received by a child at most once: neither a drift, nor a replay, nor a
\* call held for a refresh executes it twice (_signal_recovery's comment).
CommandsSentOnce == \A r \in Calls : sent[r] <= 1

\* A command some child has taken is never answered with an error, which
\* invites a retry: it is answered by its outcome, or as unknown.
NoRetryInvited ==
    \A r \in Calls : sent[r] > 0 => \A i \in DOMAIN answers[r] : answers[r][i] # "error"

\* Until it is answered, a request is in somebody's hands: a thread's, the
\* tracked ones, or those saved for the next child.
NeverForgotten ==
    \A r \in asked : answers[r] = <<>> =>
        r \in inflight \union replay \union unexpected \union {held, main.req, reading}

\* A replaced child owed nothing: a refresh never kills one that does.
RefreshLosesNothing ==
    [][cur # 0 /\ cur' # 0 /\ cur' # cur => inflight = {} /\ reading = None]_vars

\* A loss is recorded and nobody works at it: the refresh that was admitted while
\* the version reset looked at the disk has ended, and with it the reset.
Overtaken == exit = "crash" /\ ~restarting

\* Without a child the relay is being recovered, has given up, has lost its
\* recovery thread or ends, unless a refresh has overtaken a version reset; a
\* relay that gave up holds nothing for later.
OutageIsOwned ==
    /\ cur = 0 => restarting \/ gaveUp \/ shutdown \/ Overtaken \/ rec.pc \in {"crashed", "flagged", "dead"}
    /\ gaveUp /\ held = None /\ rec.pc # "giveup" => replay = {} /\ unexpected = {}

\* Between two answers of a child a request is sent at most once and replayed
\* MaxReplay times, or, when it was saved before the first of the two was
\* forwarded, replayed once more: a request that makes every child drift does
\* not go round for ever.
ReplayBounded == \A r \in Protocol : sent[r] <= 1 + MaxReplay

\* The refresh whose admission was past its checks when the recovery thread was
\* marked as failed, and which the thread has not seen: nobody answers it.
Overlooked(r) == held = r /\ rec.pc = "dead" /\ rec.any

\* Every other request is answered, whatever the children do and even if the
\* recovery thread dies, as long as the relay runs.
EveryRequestAnswered ==
    \A r \in Requests : r \in asked ~> answers[r] # <<>> \/ shutdown \/ Overlooked(r)

\* A child that has exited is taken out of service.
LossIsClaimed == \A g \in Children : cur = g /\ Dead(g) ~> cur # g \/ shutdown

\* No command is executed twice, by the relay or at its invitation, and replays end.
SentOnce == CommandsSentOnce /\ NoRetryInvited /\ ReplayBounded

\* Who is owed an answer, or a child, is in somebody's care.
OwedIsHeld == TypeOK /\ NeverForgotten /\ OutageIsOwned

\* Requests are answered and lost children are taken out of service.
RelayServes == EveryRequestAnswered /\ LossIsClaimed
=============================================================================
