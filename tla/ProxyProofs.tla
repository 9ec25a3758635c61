------------------------------ MODULE ProxyProofs ------------------------------
(***************************************************************************)
(* For any requests, bounds and replay depth, whatever the children, the   *)
(* installed files and the threads' steps between them do: no command is   *)
(* sent twice, nor is its caller told to repeat it, replays end, whoever   *)
(* asked is answered or in somebody's care, and a refresh loses nothing.   *)
(*                                                                         *)
(* The inductive invariant has a part for each actor and one for what they *)
(* share.  MainInv says what the main thread knows of the child it read    *)
(* before, though the reader may have claimed its loss since; RecInv what  *)
(* each place of the recovery thread means for the flags of the            *)
(* supervision; SavedInv that there is nothing saved for a next child      *)
(* unless one is to come; CallInv and ReplayInv count what was sent.       *)
(* Every action has a lemma <Action>Step that it keeps all of it, the      *)
(* branches of Take, RecoverOwed, VersionReset and Decide one each.        *)
(***************************************************************************)
EXTENDS Proxy, TLAPS

MainPcs == {"idle", "look", "insert", "send", "owed", "admit"}
RecPcs == {"idle", "prepare", "start", "resolve", "publish", "replay", "attempt", "giveup",
           "resume", "release", "refused", "reset", "decide", "crashed", "flagged", "dead"}
Exits == {"clean", "drift", "crash"}
HasError(s) == \E i \in DOMAIN s : s[i] = "error"
Kinds == {"error", "unknown", "resolved", "result"}
States == {"none", "up", "gone"} \union Exits
MainType == [pc : MainPcs, req : Requests \union {None}, kid : 0 .. MaxChildren]
Whys == {"none", "refresh", "drift", "backoff"}
RecType == [pc : RecPcs, why : Whys, kid : 0 .. MaxChildren, seen : 0 .. MaxVersion, any : BOOLEAN]
Process == [st : States, got : SUBSET Requests, out : SUBSET Requests]

\* The types of all variables.
Flags ==
    /\ restarting \in BOOLEAN /\ gaveUp \in BOOLEAN /\ resetAsked \in BOOLEAN
    /\ trigger \in BOOLEAN /\ shutdown \in BOOLEAN
Typed ==
    /\ Flags
    /\ disk \in 1 .. MaxVersion /\ launched \in 1 .. MaxVersion /\ blocked \in 0 .. MaxVersion
    /\ child \in [Children -> Process]
    /\ cur \in 0 .. MaxChildren /\ slot \in 0 .. Slots /\ depth \in 0 .. MaxReplay
    /\ exit \in Exits \union {"none"}
    /\ inflight \subseteq Calls \union Protocol /\ accepted = inflight \intersect Calls
    /\ replay \subseteq Protocol /\ unexpected \subseteq Calls
    /\ held \in Calls \union Controls \union {None}
    /\ main \in MainType
    /\ reading \in Requests \union {None}
    /\ rec \in RecType
    /\ asked \subseteq Requests
    /\ answers \in [Requests -> Seq(Kinds)] /\ sent \in [Requests -> Nat]

\* Where the main thread is: what it has read of the child stays true of that child,
\* which is the published one until it is lost.
MainInv ==
    /\ main.pc = "idle" => main.req = None /\ main.kid = 0
    /\ main.pc # "idle" => main.req \in asked \ {None} /\ held = None
    /\ main.pc \notin {"idle", "admit"} => main.req \in Calls \union Protocol
    /\ main.pc = "admit" =>
          main.req \in Calls \union Controls /\ main.kid = 0 /\ ~restarting /\ inflight = {}
    /\ main.pc \in {"insert", "send", "owed"} => main.kid # 0
    /\ main.pc \in {"look", "insert"} =>
          main.req \notin inflight \union replay \union unexpected
    /\ main.pc = "send" /\ main.kid = cur => main.req \notin replay
    /\ main.kid # 0 => child[main.kid].st # "none"
    /\ main.kid # 0 /\ main.kid # cur => child[main.kid].st # "up"
    /\ main.pc = "owed" => child[main.kid].st # "up"
    /\ main.pc \in {"send", "owed"} =>
          \/ answers[main.req] # <<>>
          \/ main.req \in inflight \union replay \union unexpected
    /\ cur = 0 => inflight \subseteq {main.req} /\ (inflight # {} => main.pc \in {"send", "owed"})

Started(g) == child[g].st # "none" /\ child[g].st # "gone"
Preparing == {"start", "resolve", "publish"}
Lifecycle == {"prepare", "resume", "release", "refused"}
Failing == {"crashed", "flagged"}
Ending == Failing \union {"dead"}

\* Where the recovery thread is, and what each place means for the rest.
RecInv ==
    /\ rec.pc \in Lifecycle => rec.why = "refresh"
    /\ rec.pc \in {"attempt", "replay"} => rec.why # "refresh"
    /\ rec.why = "refresh" /\ rec.pc \in Preparing \union Lifecycle => held # None
    /\ rec.why # "refresh" /\ rec.pc \in Preparing \union {"attempt", "replay"} =>
          restarting /\ held = None /\ ~gaveUp
    /\ rec.pc \in {"resolve", "publish"} =>
          /\ rec.kid # 0 /\ rec.kid # cur /\ rec.kid # main.kid /\ rec.seen # 0
          /\ Started(rec.kid)
    /\ rec.pc = "replay" =>
          /\ main.pc \in {"insert", "send", "owed"} => main.kid # cur
    /\ rec.pc \in {"replay", "resume", "release"} => cur # 0
    /\ rec.pc \in Failing /\ cur # 0 => held # None
    /\ rec.pc \in {"giveup", "reset"} => gaveUp
    /\ held # None /\ ~restarting => rec.pc \in Failing \/ (rec.pc = "dead" /\ shutdown)
    /\ restarting /\ held = None /\ rec.pc # "replay" => cur = 0
    /\ gaveUp => cur = 0
    /\ gaveUp /\ restarting => held # None
    /\ cur # 0 => Started(cur)

\* What is saved for the next child, and who takes care of an outage.
SavedInv ==
    /\ (~restarting \/ held # None \/ rec.pc \in Ending) /\ rec.pc # "giveup" =>
          replay = {} /\ unexpected = {}
    /\ rec.pc \in {"publish", "replay"} => unexpected = {}
    /\ held # None /\ rec.pc # "release" => inflight = {}
    /\ rec.pc = "release" => answers[held] # <<>> \/ held \in inflight
    /\ cur = 0 /\ (~restarting \/ held # None) =>
          gaveUp \/ shutdown \/ exit = "crash" \/ rec.pc \in Ending
    /\ held # None => held \in asked
    /\ inflight \union replay \union unexpected \subseteq asked

\* How often a command was sent.
CallInv ==
    \A r \in Calls :
        /\ sent[r] <= 1
        /\ sent[r] > 0 => r \in asked /\ r # main.req /\ ~HasError(answers[r])
        /\ sent[r] > 0 /\ r = held => rec.pc = "release"
        /\ HasError(answers[r]) => r \in asked /\ r # main.req /\ r # held

\* How often another request was sent since the last answer of a child.
ReplayInv ==
    \A r \in Protocol :
        /\ sent[r] <= 1 + MaxReplay
        /\ sent[r] > 0 => r \in asked
        /\ r \in inflight => sent[r] <= 1 + depth
        /\ r \in replay => sent[r] <= depth
        /\ r = main.req /\ main.pc \in {"look", "insert"} => sent[r] = 0
        /\ r = main.req /\ main.pc = "send" /\ main.kid = cur => sent[r] = 0
        /\ r \in inflight /\ cur = 0 => sent[r] = 0
        /\ r \in inflight /\ rec.pc = "replay" /\ ~rec.any => sent[r] = 0

Inv == Typed /\ MainInv /\ RecInv /\ SavedInv /\ CallInv /\ ReplayInv /\ NeverForgotten

-----------------------------------------------------------------------------
(* Answers, the places of the threads, the processes.                        *)

\* The answers old became new: all of S are answered, only E with an error.
Extended(old, new, S, E) ==
    /\ new \in [Requests -> Seq(Kinds)]
    /\ \A r \in Requests :
         /\ old[r] # <<>> \/ r \in S => new[r] # <<>>
         /\ HasError(new[r]) => HasError(old[r]) \/ r \in E

LEMMA AppendFacts ==
    ASSUME NEW s \in Seq(Kinds), NEW k \in Kinds
    PROVE  /\ Append(s, k) \in Seq(Kinds) /\ Append(s, k) # <<>>
           /\ HasError(Append(s, k)) => HasError(s) \/ k = "error"
  BY DEF HasError, Kinds

LEMMA ReplyExtends ==
    ASSUME NEW a \in [Requests -> Seq(Kinds)], NEW S, NEW k \in Kinds
    PROVE  /\ Extended(a, Reply(a, S, k), S, S)
           /\ k # "error" => Extended(a, Reply(a, S, k), S, {})
  BY AppendFacts DEF Extended, Reply

LEMMA RefusedExtends ==
    ASSUME NEW a \in [Requests -> Seq(Kinds)], NEW S, NEW T
    PROVE  Extended(a, Refused(a, S, T), S \union T, S)
<1>1. "error" \in Kinds /\ "unknown" \in Kinds
  BY DEF Kinds
<1>2. Extended(a, Reply(a, S, "error"), S, S)
  BY <1>1, ReplyExtends
<1>3. Reply(a, S, "error") \in [Requests -> Seq(Kinds)]
  BY <1>2 DEF Extended
<1>4. Extended(Reply(a, S, "error"), Refused(a, S, T), T, {})
  BY <1>1, <1>3, ReplyExtends DEF Refused
<1> QED BY <1>2, <1>4 DEF Extended

LEMMA SameExtends ==
    ASSUME Typed, answers' = answers
    PROVE  Extended(answers, answers', {}, {})
  BY DEF Typed, Extended

\* One kind of answer for all of S.
LEMMA ReplyNow ==
    ASSUME Typed, NEW S, NEW k \in Kinds
    PROVE  /\ Extended(answers, Reply(answers, S, k), S, S)
           /\ k # "error" => Extended(answers, Reply(answers, S, k), S, {})
  BY ReplyExtends DEF Typed, Extended

LEMMA MainIdleFacts ==
    MainIdle \in MainType /\ MainIdle.pc = "idle" /\ MainIdle.req = None /\ MainIdle.kid = 0
  BY ProxyAssumption DEF MainIdle, MainType, MainPcs

LEMMA RecIdleFacts ==
    /\ RecIdle \in RecType /\ RecIdle.pc = "idle" /\ RecIdle.why = "none"
  BY ProxyAssumption DEF RecIdle, RecType, RecPcs, Whys

LEMMA RecGoFacts ==
    ASSUME Typed, NEW pc \in RecPcs, NEW why \in Whys
    PROVE  /\ RecGo(pc, why) \in RecType /\ RecGo(pc, why).pc = pc /\ RecGo(pc, why).why = why
           /\ RecGo(pc, why).kid = rec.kid /\ RecGo(pc, why).seen = rec.seen
           /\ RecGo(pc, why).any = rec.any
  BY DEF RecGo, Typed, RecType

\* The processes stay processes, and each is in the state it was in.
SameStates == child' \in [Children -> Process] /\ \A g \in Children : child'[g].st = child[g].st

LEMMA PutFacts ==
    ASSUME Typed, NEW g, NEW r \in Requests, child' = Put(g, r)
    PROVE  SameStates
  BY DEF Put, SameStates, Typed, Process

\* ... but g's is s.
LEMMA StateFacts ==
    ASSUME Typed, NEW g \in Children, NEW s \in States, child' = [child EXCEPT ![g].st = s]
    PROVE  /\ child' \in [Children -> Process] /\ child'[g].st = s
           /\ \A k \in Children \ {g} : child'[k].st = child[k].st
  BY DEF Typed, Process

\* ... g's answers move, from what it holds to its output or out of it.
LEMMA AnswersFacts ==
    ASSUME Typed, NEW g \in Children, NEW r \in Requests,
           \/ child' = [child EXCEPT ![g].out = @ \ {r}]
           \/ child' = [child EXCEPT ![g].got = @ \ {r}, ![g].out = @ \union {r}]
    PROVE  SameStates
<1>1. child[g].got \ {r} \in SUBSET Requests /\ child[g].out \ {r} \in SUBSET Requests
      /\ child[g].out \union {r} \in SUBSET Requests
  BY DEF Typed, Process
<1>2. child'[g] \in Process /\ child'[g].st = child[g].st
  BY <1>1 DEF Typed, Process
<1>3. child' \in [Children -> Process] /\ \A k \in Children \ {g} : child'[k] = child[k]
  BY <1>2 DEF Typed
<1> QED BY <1>2, <1>3 DEF SameStates

-----------------------------------------------------------------------------
(* What the actions of each actor leave alone, and what a claim does.        *)

MainFrame == UNCHANGED <<disk, launched, blocked, shutdown, reading, rec, asked>>
ReaderFrame == UNCHANGED <<disk, launched, blocked, held, shutdown, main, rec, asked>>
RecFrame == UNCHANGED <<disk, main, reading, asked>>
EnvFrame == UNCHANGED <<launched, blocked, supervision, tracked, held, shutdown, main, reading,
                        rec, client, sent>>
TakeFrame == UNCHANGED <<disk, child, launched, blocked, shutdown, reading, rec, sent>>

\* What a claim of the lost child comes to.
ClaimDone ==
    /\ cur # 0 /\ ~shutdown /\ ~restarting /\ child[cur].st # "up" /\ ~gaveUp
    /\ replay = {} /\ unexpected = {}
    /\ cur' = 0 /\ restarting' = TRUE /\ trigger' = TRUE /\ exit' \in Exits
    /\ UNCHANGED <<slot, gaveUp, resetAsked>>
    /\ inflight' = {} /\ accepted' = {}
    /\ replay' \subseteq inflight \intersect Protocol
       /\ unexpected' \subseteq inflight \intersect Calls
    /\ depth' \in 0 .. MaxReplay /\ (replay' # {} => depth' = depth + 1)
    /\ rec.pc \in {"flagged", "dead"} => replay' = {} /\ unexpected' = {}
    /\ held # None => rec.pc \in Failing
    /\ rec.pc \in Failing => held # None /\ inflight = {}
    /\ Extended(answers, answers', inflight \ (replay' \union unexpected'), Protocol)

LEMMA ClaimFacts ==
    ASSUME ProxyAssumption, Inv, Claim(cur), child[cur].st \in Exits, cur # 0
    PROVE  ClaimDone
<1> USE ProxyAssumption DEF Requests, Children
<1>0. Typed /\ RecInv /\ SavedInv
  BY DEF Inv
<1>1. /\ cur' = 0 /\ restarting' = TRUE /\ trigger' = TRUE /\ exit' = child[cur].st
      /\ UNCHANGED <<slot, gaveUp, resetAsked>> /\ inflight' = {} /\ ~shutdown /\ ~restarting
  BY DEF Claim, CanClaim
<1>2. accepted' = {} /\ accepted = inflight \intersect Calls
      /\ inflight \ accepted \subseteq Protocol
  BY <1>0 DEF Claim, Typed
<1>3. /\ replay' = {} \/ (replay' = inflight \ accepted /\ depth < MaxReplay
         /\ Drained.replay = replay')
      /\ unexpected' = {} \/ unexpected' = inflight \intersect accepted
      /\ RecDead => replay' = {} /\ unexpected' = {}
  BY DEF Claim, Drained
<1>4. /\ depth' = 0 \/ (depth' = depth + 1 /\ replay' = Drained.replay)
      /\ replay' # {} => depth' = depth + 1
  BY <1>3 DEF Claim
<1>5. depth' \in 0 .. MaxReplay
  <2>1. CASE replay' = {}
    <3>1. depth' = 0 \/ Drained.replay # {}
      BY DEF Claim
    <3>2. Drained.replay # {} => depth < MaxReplay
      BY DEF Drained
    <3> QED BY <1>0, <1>4, <3>1, <3>2 DEF Typed
  <2>2. CASE replay' # {}
    BY <1>0, <1>3, <1>4, <2>2 DEF Typed
  <2> QED BY <2>1, <2>2
<1>6. Extended(answers, answers', inflight \ (replay' \union unexpected'), Protocol)
  <2> DEFINE S == inflight \ (accepted \union replay')
             T == (inflight \intersect accepted) \ unexpected'
  <2>1. answers' = Refused(answers, S, T)
    BY DEF Claim
  <2>2. Extended(answers, answers', S \union T, S)
    BY <1>0, <2>1, RefusedExtends DEF Typed
  <2>3. S \subseteq Protocol /\ S \union T = inflight \ (replay' \union unexpected')
    BY <1>2, <1>3
  <2> QED BY <2>2, <2>3 DEF Extended
<1>7. /\ ~gaveUp /\ (held # None => rec.pc \in Failing)
      /\ rec.pc \in Failing => held # None /\ inflight = {}
  BY <1>0, <1>1 DEF RecInv, SavedInv, Failing
<1>8. replay = {} /\ unexpected = {} /\ child[cur].st # "up"
  BY <1>0, <1>1, <1>7 DEF RecInv, SavedInv, Exits, Failing
<1> QED BY <1>1, <1>2, <1>3, <1>4, <1>5, <1>6, <1>7, <1>8 DEF ClaimDone, RecDead

-----------------------------------------------------------------------------
(* Every action keeps the invariant.                                         *)

LEMMA UnservedStep ==
    ASSUME ProxyAssumption, Inv, Unserved, MainFrame, UNCHANGED <<child, sent>>
    PROVE  Inv'
<1> USE ProxyAssumption DEF Requests, Children
<1>0. Typed /\ MainInv /\ RecInv /\ SavedInv /\ CallInv /\ ReplayInv /\ NeverForgotten
  BY DEF Inv
<1>a. Extended(answers, answers', {main.req}, {main.req} \union replay)
  <2>1. "error" \in Kinds
    BY DEF Kinds
  <2>2. CASE rec.pc = "dead"
    <3>1. Extended(answers, Refused(answers, replay, unexpected), replay \union unexpected, replay)
      BY <1>0, RefusedExtends DEF Typed
    <3>2. /\ Refused(answers, replay, unexpected) \in [Requests -> Seq(Kinds)]
          /\ answers' = Reply(Refused(answers, replay, unexpected), {main.req}, "error")
      BY <2>2, <3>1 DEF Extended, Unserved
    <3>3. Extended(Refused(answers, replay, unexpected), answers', {main.req}, {main.req})
      BY <2>1, <3>2, ReplyExtends
    <3> QED BY <3>1, <3>3 DEF Extended
  <2>3. CASE rec.pc # "dead"
    BY <1>0, <2>1, <2>3, ReplyNow DEF Unserved, Extended
  <2> QED BY <2>2, <2>3
<1>b. main' \in MainType /\ main'.pc = "idle" /\ main'.req = None /\ main'.kid = 0
  BY MainIdleFacts DEF Unserved
<1>1. Flags'
  BY <1>0, Zenon DEF Typed, Flags, Unserved, MainFrame
<1>2. Typed'
  BY <1>0, <1>a, <1>b, <1>1 DEF Typed, Flags, Extended, Unserved, MainFrame, supervision,
     tracked, client
<1>3. MainInv'
  BY <1>0, <1>b DEF MainInv, Unserved, MainFrame
<1>4. RecInv'
  BY <1>0, <1>b DEF RecInv, Started, Unserved, MainFrame
<1>5. SavedInv'
  BY <1>0, <1>b DEF SavedInv, RecInv, MainInv, Lifecycle, Unserved, MainFrame
<1>6. CallInv'
  BY <1>0, <1>a, <1>b DEF CallInv, MainInv, Typed, Extended, Unserved, MainFrame
<1>7. ReplayInv'
  BY <1>0, <1>b DEF ReplayInv, Unserved, MainFrame
<1>8. NeverForgotten'
  BY <1>0, <1>a DEF NeverForgotten, SavedInv, Typed, Ending, Extended, Unserved, MainFrame
<1> QED BY <1>2, <1>3, <1>4, <1>5, <1>6, <1>7, <1>8 DEF Inv

LEMMA InsertStep ==
    ASSUME ProxyAssumption, Inv, Insert, MainFrame, UNCHANGED <<child, sent>>
    PROVE  Inv'
<1> USE ProxyAssumption DEF Requests, Children
<1>0. Typed /\ MainInv /\ RecInv /\ SavedInv /\ CallInv /\ ReplayInv /\ NeverForgotten
  BY DEF Inv
<1>a. Extended(answers, answers', {}, {})
  BY <1>0, SameExtends DEF Insert, MainFrame, client
<1>b. main' \in MainType /\ main'.pc = "send" /\ main'.req = main.req /\ main'.kid = main.kid
      /\ main.req \in Calls \union Protocol /\ accepted' = inflight' \intersect Calls
  BY <1>0 DEF Insert, MainInv, Typed, MainType, MainPcs
<1>1. Flags'
  BY <1>0, Zenon DEF Typed, Flags, Insert, MainFrame, supervision
<1>2. Typed'
  BY <1>0, <1>a, <1>b, <1>1 DEF Typed, Flags, Extended, Insert, MainFrame, supervision, tracked,
     client
<1>3. MainInv'
  BY <1>0, <1>b DEF MainInv, Insert, MainFrame, supervision
<1>4. RecInv'
  BY <1>0, <1>b DEF RecInv, Started, Insert, MainFrame, supervision
<1>5. SavedInv'
  BY <1>0, <1>b DEF SavedInv, MainInv, Insert, MainFrame, supervision
<1>6. CallInv'
  BY <1>0, <1>b DEF CallInv, MainInv, Insert, MainFrame
<1>7. ReplayInv'
  BY <1>0, <1>b, <1>2 DEF ReplayInv, MainInv, Typed, Insert, MainFrame, supervision
<1>8. NeverForgotten'
  BY <1>0, <1>b DEF NeverForgotten, Insert, MainFrame
<1> QED BY <1>2, <1>3, <1>4, <1>5, <1>6, <1>7, <1>8 DEF Inv

LEMMA CurrentStep ==
    ASSUME ProxyAssumption, Inv, Current, MainFrame, UNCHANGED <<child, sent>>
    PROVE  Inv'
<1> USE ProxyAssumption DEF Requests, Children
<1>0. Typed /\ MainInv /\ RecInv /\ SavedInv /\ CallInv /\ ReplayInv /\ NeverForgotten
  BY DEF Inv
<1>b. main' \in MainType /\ main'.pc = "insert" /\ main'.req = main.req /\ main'.kid = main.kid
  BY <1>0 DEF Current, Typed, MainType, MainPcs
<1>2. Typed'
  BY <1>0, <1>b DEF Typed, Flags, Current, MainFrame, supervision, tracked
<1>3. MainInv'
  BY <1>0, <1>b DEF MainInv, Current, MainFrame, supervision, tracked
<1>4. RecInv'
  BY <1>0, <1>b DEF RecInv, Started, Current, MainFrame, supervision
<1>5. SavedInv'
  BY <1>0, <1>b DEF SavedInv, Current, MainFrame, supervision, tracked
<1>6. CallInv'
  BY <1>0, <1>b DEF CallInv, Current, MainFrame
<1>7. ReplayInv'
  BY <1>0, <1>b DEF ReplayInv, MainInv, Current, MainFrame, supervision, tracked
<1>8. NeverForgotten'
  BY <1>0, <1>b DEF NeverForgotten, Current, MainFrame, tracked
<1> QED BY <1>2, <1>3, <1>4, <1>5, <1>6, <1>7, <1>8 DEF Inv

LEMMA SendStep ==
    ASSUME ProxyAssumption, Inv, Send, MainFrame
    PROVE  Inv'
<1> USE ProxyAssumption DEF Requests, Children
<1>0. Typed /\ MainInv /\ RecInv /\ SavedInv /\ CallInv /\ ReplayInv /\ NeverForgotten
  BY DEF Inv
<1>1. CASE child[main.kid].st = "up"
  <2>b. /\ SameStates /\ main.kid = cur /\ cur # 0 /\ main.req \in Calls \union Protocol
        /\ main.req \in asked /\ sent[main.req] = 0 /\ sent'[main.req] = 1
        /\ sent' \in [Requests -> Nat] /\ \A r \in Requests \ {main.req} : sent'[r] = sent[r]
        /\ main' \in MainType /\ main'.pc = "idle" /\ main'.req = None /\ main'.kid = 0
        /\ main.pc = "send" /\ main.req \notin replay
        /\ answers[main.req] # <<>> \/ main.req \in inflight \union replay \union unexpected
    <3>1. main.kid = cur /\ cur # 0 /\ main.req \in Calls \union Protocol /\ main.req \in asked
      BY <1>0, <1>1 DEF Send, MainInv, Typed, MainType
    <3>2. sent[main.req] = 0 /\ sent[main.req] \in Nat
      BY <1>0, <3>1 DEF Send, CallInv, ReplayInv, Typed
    <3>3. sent' = [sent EXCEPT ![main.req] = @ + 1] /\ main' = MainIdle
          /\ child' = Put(main.kid, main.req)
      BY <1>1 DEF Send
    <3>4. sent' \in [Requests -> Nat] /\ sent'[main.req] = 1
          /\ \A r \in Requests \ {main.req} : sent'[r] = sent[r]
      BY <1>0, <3>1, <3>2, <3>3 DEF Typed
    <3>5. /\ main.pc = "send" /\ main.req \notin replay
          /\ answers[main.req] # <<>> \/ main.req \in inflight \union replay \union unexpected
      BY <1>0, <1>1, <3>1 DEF Send, MainInv
    <3> QED BY <3>5, <1>0, <3>1, <3>2, <3>3, <3>4, PutFacts, MainIdleFacts
  <2>u. UNCHANGED <<disk, cur, launched, blocked, restarting, exit, slot, gaveUp, resetAsked,
                    trigger, depth, inflight, accepted, replay, unexpected, held, shutdown,
                    reading, rec, asked, answers>>
    BY <1>1 DEF Send, MainFrame, supervision, tracked, client
  <2>1. Flags'
    BY <1>0, <2>u, Zenon DEF Typed, Flags
  <2>2. Typed'
    BY <1>0, <2>b, <2>u, <2>1 DEF Typed, SameStates
  <2>3. MainInv'
    BY <1>0, <2>b, <2>u DEF MainInv
  <2>4. RecInv'
    BY <1>0, <2>b, <2>u DEF RecInv, Started, Typed, RecType, SameStates
  <2>5. SavedInv'
    BY <1>0, <2>b, <2>u DEF SavedInv
  <2>6. CallInv'
    BY <1>0, <2>b, <2>u DEF CallInv, MainInv
  <2>7. ReplayInv'
      <3> SUFFICES ASSUME NEW q \in Protocol
                   PROVE  /\ sent'[q] <= 1 + MaxReplay
                          /\ q \in inflight => sent'[q] <= 1 + depth
                          /\ q \in replay => sent'[q] <= depth
                          /\ q \in inflight /\ rec.pc = "replay" /\ ~rec.any => sent'[q] = 0
        BY <1>0, <2>b, <2>u DEF ReplayInv, Typed
      <3>1. CASE q # main.req
        <4>1. sent'[q] = sent[q]
          BY <2>b, <3>1
        <4> QED BY <1>0, <4>1 DEF ReplayInv
      <3>2. CASE q = main.req
        <4>1. sent'[q] = 1 /\ q \notin replay /\ rec.pc # "replay"
          BY <1>0, <2>b, <3>2 DEF RecInv
        <4> QED BY <1>0, <4>1 DEF Typed
      <3> QED BY <3>1, <3>2
  <2>8. NeverForgotten'
    BY <1>0, <2>b, <2>u DEF NeverForgotten
  <2> QED BY <2>2, <2>3, <2>4, <2>5, <2>6, <2>7, <2>8 DEF Inv
<1>2. CASE child[main.kid].st # "up"
  <2>b. main' \in MainType /\ main'.pc = "owed" /\ main'.req = main.req /\ main'.kid = main.kid
    BY <1>0, <1>2 DEF Send, Typed, MainType, MainPcs
  <2>1. Flags'
    BY <1>0, Zenon DEF Typed, Flags, Send, MainFrame, supervision
  <2>2. Typed'
    BY <1>0, <2>b, <1>2, <2>1 DEF Typed, Send, MainFrame, supervision, tracked
  <2>3. MainInv'
    BY <1>0, <2>b, <1>2 DEF MainInv, Send, MainFrame, supervision, tracked
  <2>4. RecInv'
    BY <1>0, <2>b, <1>2 DEF RecInv, Started, Send, MainFrame, supervision
  <2>5. SavedInv'
    BY <1>0, <2>b DEF SavedInv, Send, MainFrame, supervision, tracked
  <2>6. CallInv'
    BY <1>0, <2>b, <1>2 DEF CallInv, MainInv, Send, MainFrame
  <2>7. ReplayInv'
    BY <1>0, <2>b, <1>2 DEF ReplayInv, Send, MainFrame, supervision, tracked
  <2>8. NeverForgotten'
    BY <1>0, <2>b DEF NeverForgotten, Send, MainFrame, tracked
  <2> QED BY <2>2, <2>3, <2>4, <2>5, <2>6, <2>7, <2>8 DEF Inv
<1> QED BY <1>1, <1>2 DEF Send

LEMMA ReadStep ==
    ASSUME ProxyAssumption, Inv, NEW r \in Requests, Read(r), ReaderFrame, UNCHANGED sent
    PROVE  Inv'
<1> USE ProxyAssumption DEF Requests, Children
<1>0. Typed /\ MainInv /\ RecInv /\ SavedInv /\ CallInv /\ ReplayInv /\ NeverForgotten
  BY DEF Inv
<1>b. SameStates /\ reading' = r
  <2>1. cur \in Children
    BY <1>0 DEF Read, Typed
  <2> QED BY <1>0, <2>1, AnswersFacts DEF Read
<1>1. Flags'
  BY <1>0, Zenon DEF Typed, Flags, Read, ReaderFrame, supervision
<1>2. Typed'
  BY <1>0, <1>b, <1>1 DEF Typed, Read, SameStates, ReaderFrame, supervision, tracked
<1>3. MainInv'
  BY <1>0, <1>b DEF MainInv, Read, ReaderFrame, supervision, tracked
<1>4. RecInv'
  BY <1>0, <1>b DEF RecInv, Started, Read, ReaderFrame, supervision
<1>5. SavedInv'
  BY <1>0, <1>b DEF SavedInv, Read, ReaderFrame, supervision, tracked
<1>6. CallInv'
  BY <1>0, <1>b DEF CallInv, Read, ReaderFrame
<1>7. ReplayInv'
  BY <1>0, <1>b DEF ReplayInv, Read, ReaderFrame, supervision, tracked
<1>8. NeverForgotten'
  BY <1>0, <1>b DEF NeverForgotten, Typed, Read, ReaderFrame, tracked
<1> QED BY <1>2, <1>3, <1>4, <1>5, <1>6, <1>7, <1>8 DEF Inv

LEMMA ForwardStep ==
    ASSUME ProxyAssumption, Inv, Forward, ReaderFrame
    PROVE  Inv'
<1> USE ProxyAssumption DEF Requests, Children
<1>0. Typed /\ MainInv /\ RecInv /\ SavedInv /\ CallInv /\ ReplayInv /\ NeverForgotten
  BY DEF Inv
<1>a. Extended(answers, answers', {reading}, {})
  BY <1>0, ReplyNow DEF Forward, Kinds
<1>b. accepted' = inflight' \intersect Calls /\ sent' \in [Requests -> Nat]
  <2>1. sent' \in [Requests -> Nat]
    BY <1>0 DEF Forward, Typed
  <2>2. accepted' = inflight' \intersect Calls
    BY <1>0 DEF Forward, Typed
  <2> QED BY <2>1, <2>2
<1>1. Flags'
  BY <1>0, Zenon DEF Typed, Flags, Forward, ReaderFrame
<1>2. Typed'
  <2>1. (Flags)'
    BY <1>0, <1>a, <1>b, <1>1 DEF Typed, Flags, Extended, Forward, ReaderFrame, supervision,
       tracked, client
  <2>2. (disk \in 1 .. MaxVersion /\ launched \in 1 .. MaxVersion /\ blocked \in 0 .. MaxVersion)'
    BY <1>0, <1>a, <1>b, <1>1 DEF Typed, Flags, Extended, Forward, ReaderFrame, supervision,
       tracked, client
  <2>3. (child \in [Children -> Process])'
    BY <1>0, <1>a, <1>b, <1>1 DEF Typed, Flags, Extended, Forward, ReaderFrame, supervision,
       tracked, client
  <2>4. (cur \in 0 .. MaxChildren /\ slot \in 0 .. Slots /\ depth \in 0 .. MaxReplay)'
    BY <1>0, <1>a, <1>b, <1>1 DEF Typed, Flags, Extended, Forward, ReaderFrame, supervision,
       tracked, client
  <2>5. (exit \in Exits \union {"none"})'
    BY <1>0, <1>a, <1>b, <1>1 DEF Typed, Flags, Extended, Forward, ReaderFrame, supervision,
       tracked, client
  <2>6. (inflight \subseteq Calls \union Protocol /\ accepted = inflight \intersect Calls)'
    BY <1>0, <1>a, <1>b, <1>1 DEF Typed, Flags, Extended, Forward, ReaderFrame, supervision,
       tracked, client
  <2>7. (replay \subseteq Protocol /\ unexpected \subseteq Calls)'
    BY <1>0, <1>a, <1>b, <1>1 DEF Typed, Flags, Extended, Forward, ReaderFrame, supervision,
       tracked, client
  <2>8. (held \in Calls \union Controls \union {None})'
    BY <1>0, <1>a, <1>b, <1>1 DEF Typed, Flags, Extended, Forward, ReaderFrame, supervision,
       tracked, client
  <2>9. (main \in MainType)'
    BY <1>0, <1>a, <1>b, <1>1 DEF Typed, Flags, Extended, Forward, ReaderFrame, supervision,
       tracked, client
  <2>10. (reading \in Requests \union {None})'
    BY <1>0, <1>a, <1>b, <1>1 DEF Typed, Flags, Extended, Forward, ReaderFrame, supervision,
       tracked, client
  <2>11. (rec \in RecType)'
    BY <1>0, <1>a, <1>b, <1>1 DEF Typed, Flags, Extended, Forward, ReaderFrame, supervision,
       tracked, client
  <2>12. (asked \subseteq Requests)'
    BY <1>0, <1>a, <1>b, <1>1 DEF Typed, Flags, Extended, Forward, ReaderFrame, supervision,
       tracked, client
  <2>13. (answers \in [Requests -> Seq(Kinds)] /\ sent \in [Requests -> Nat])'
    BY <1>0, <1>a, <1>b, <1>1 DEF Typed, Flags, Extended, Forward, ReaderFrame, supervision,
       tracked, client
  <2> QED BY <2>1, <2>2, <2>3, <2>4, <2>5, <2>6, <2>7, <2>8, <2>9, <2>10, <2>11, <2>12,
             <2>13 DEF Typed
<1>3. MainInv'
  BY <1>0, <1>a, <1>b, <1>2 DEF MainInv, Typed, MainType, RecType, Extended, Forward, ReaderFrame,
     supervision, tracked, client
<1>4. RecInv'
  BY <1>0, <1>b DEF RecInv, Started, Forward, ReaderFrame
<1>5. SavedInv'
  BY <1>0, <1>a, <1>b, <1>2 DEF SavedInv, RecInv, MainInv, Typed, Preparing, Lifecycle, Ending,
     Extended, Forward, ReaderFrame, supervision, tracked, client
<1>6. CallInv'
  BY <1>0, <1>a DEF CallInv, Extended, Forward, ReaderFrame
<1>7. ReplayInv'
  BY <1>0, <1>b DEF ReplayInv, Forward, ReaderFrame
<1>8. NeverForgotten'
  BY <1>0, <1>a DEF NeverForgotten, Typed, Extended, Forward, ReaderFrame
<1> QED BY <1>2, <1>3, <1>4, <1>5, <1>6, <1>7, <1>8 DEF Inv

LEMMA HangStep ==
    ASSUME ProxyAssumption, Inv, Hang, ReaderFrame, UNCHANGED sent
    PROVE  Inv'
<1> USE ProxyAssumption DEF Requests, Children
<1>0. Typed /\ MainInv /\ RecInv /\ SavedInv /\ CallInv /\ ReplayInv /\ NeverForgotten
  BY DEF Inv
<1>b. /\ cur \in Children /\ child' \in [Children -> Process] /\ child'[cur].st = "crash"
      /\ \A k \in Children \ {cur} : child'[k].st = child[k].st
  <2>1. cur \in Children /\ "crash" \in States
    BY <1>0 DEF Hang, Typed, States, Exits
  <2> QED BY <1>0, <2>1, StateFacts DEF Hang
<1>1. Flags'
  BY <1>0, Zenon DEF Typed, Flags, Hang, ReaderFrame, supervision
<1>2. Typed'
  BY <1>0, <1>b, <1>1 DEF Typed, Hang, ReaderFrame, supervision, tracked
<1>3. MainInv'
  BY <1>0, <1>b DEF MainInv, Hang, ReaderFrame, supervision, tracked
<1>4. RecInv'
  BY <1>0, <1>b DEF RecInv, Started, Hang, ReaderFrame, supervision
<1>5. SavedInv'
  BY <1>0, <1>b DEF SavedInv, Hang, ReaderFrame, supervision, tracked
<1>6. CallInv'
  BY <1>0, <1>b DEF CallInv, Hang, ReaderFrame
<1>7. ReplayInv'
  BY <1>0, <1>b DEF ReplayInv, Hang, ReaderFrame, supervision, tracked
<1>8. NeverForgotten'
  BY <1>0, <1>b DEF NeverForgotten, Hang, ReaderFrame, tracked
<1> QED BY <1>2, <1>3, <1>4, <1>5, <1>6, <1>7, <1>8 DEF Inv

LEMMA GiveUpStep ==
    ASSUME ProxyAssumption, Inv, GiveUp, RecFrame, UNCHANGED sent
    PROVE  Inv'
<1> USE ProxyAssumption DEF Requests, Children
<1>0. Typed /\ MainInv /\ RecInv /\ SavedInv /\ CallInv /\ ReplayInv /\ NeverForgotten
  BY DEF Inv
<1>a. Extended(answers, answers', replay \union unexpected, replay)
  BY <1>0, RefusedExtends DEF GiveUp, FailPending, Typed
<1>b. rec' \in RecType /\ rec'.pc = "idle" /\ rec'.why = "none"
  BY RecIdleFacts DEF GiveUp
<1>1. Flags'
  BY <1>0, Zenon DEF Typed, Flags, GiveUp
<1>2. Typed'
  BY <1>0, <1>a, <1>b, <1>1 DEF Typed, Extended, GiveUp, FailPending, RecFrame
<1>3. MainInv'
  BY <1>0, <1>a, <1>b DEF MainInv, Typed, Extended, GiveUp, FailPending, RecFrame
<1>4. RecInv'
  BY <1>0, <1>b DEF RecInv, Preparing, Lifecycle, GiveUp, FailPending, RecFrame, Failing
<1>5. SavedInv'
  BY <1>0, <1>b DEF SavedInv, Ending, GiveUp, FailPending, RecFrame, Failing
<1>6. CallInv'
  BY <1>0, <1>a, <1>b, <1>2 DEF CallInv, SavedInv, Typed, Extended, GiveUp, FailPending, RecFrame
<1>7. ReplayInv'
  BY <1>0, <1>b DEF ReplayInv, RecInv, GiveUp, FailPending, RecFrame
<1>8. NeverForgotten'
  BY <1>0, <1>a, <1>b DEF NeverForgotten, Typed, Extended, GiveUp, FailPending, RecFrame
<1> QED BY <1>2, <1>3, <1>4, <1>5, <1>6, <1>7, <1>8 DEF Inv

LEMMA PrepareStep ==
    ASSUME ProxyAssumption, Inv, Prepare, RecFrame, UNCHANGED sent
    PROVE  Inv'
<1> USE ProxyAssumption DEF Requests, Children
<1>0. Typed /\ MainInv /\ RecInv /\ SavedInv /\ CallInv /\ ReplayInv /\ NeverForgotten
  BY DEF Inv
<1>b. /\ rec' \in RecType /\ rec'.why = "refresh" /\ rec'.pc \in {"start", "resume"}
      /\ rec'.pc = "resume" => cur # 0
  BY <1>0, RecGoFacts DEF Prepare, RecPcs, Whys
<1>1. Flags'
  BY <1>0, Zenon DEF Typed, Flags, Prepare, supervision
<1>2. Typed'
  BY <1>0, <1>b, <1>1 DEF Typed, Prepare, RecFrame, supervision, tracked
<1>3. MainInv'
  BY <1>0, <1>b DEF MainInv, Prepare, RecFrame, supervision, tracked
<1>4. RecInv'
  BY <1>0, <1>b DEF RecInv, Started, Lifecycle, Prepare, RecFrame, supervision, Failing
<1>5. SavedInv'
  BY <1>0, <1>b DEF SavedInv, Ending, Prepare, RecFrame, supervision, tracked, Failing
<1>6. CallInv'
  BY <1>0, <1>b DEF CallInv, Prepare, RecFrame
<1>7. ReplayInv'
  BY <1>0, <1>b DEF ReplayInv, Prepare, RecFrame, supervision, tracked
<1>8. NeverForgotten'
  BY <1>0, <1>b DEF NeverForgotten, Prepare, RecFrame, tracked
<1> QED BY <1>2, <1>3, <1>4, <1>5, <1>6, <1>7, <1>8 DEF Inv

LEMMA StartChildStep ==
    ASSUME ProxyAssumption, Inv, StartChild, RecFrame, UNCHANGED sent
    PROVE  Inv'
<1> USE ProxyAssumption DEF Requests, Children
<1>0. Typed /\ MainInv /\ RecInv /\ SavedInv /\ CallInv /\ ReplayInv /\ NeverForgotten
  BY DEF Inv
<1>p. \/ /\ rec' \in RecType /\ rec'.pc = "resolve" /\ rec'.why = rec.why /\ rec'.seen = disk
         /\ rec'.kid \in Children /\ child[rec'.kid].st = "none" /\ UNCHANGED <<slot, blocked>>
         /\ child' \in [Children -> Process] /\ child'[rec'.kid].st = "up"
         /\ \A k \in Children : child[k].st = "none" /\ k # rec'.kid => child'[k].st = "none"
         /\ \A k \in Children : child[k].st # "none" => child'[k].st # "none"
         /\ \A k \in Children : child[k].st # "up" /\ k # rec'.kid => child'[k].st # "up"
         /\ cur # 0 /\ cur # rec'.kid => child'[cur] = child[cur]
      \/ /\ rec' \in RecType /\ UNCHANGED child
         /\ \/ /\ rec.why = "refresh" /\ rec'.why = "refresh" /\ rec'.pc = "refused"
               /\ blocked' = disk /\ UNCHANGED slot
            \/ /\ rec.why # "refresh" /\ rec'.why = "backoff" /\ rec'.pc = "attempt"
               /\ slot' \in {slot, 0} /\ UNCHANGED blocked
  <2>1. CASE NotStarted(disk) /\ UNCHANGED child
    BY <1>0, <2>1, RecGoFacts DEF NotStarted, RecPcs, Whys
  <2>2. CASE ~(NotStarted(disk) /\ UNCHANGED child)
    <3>1. PICK g \in Children :
             /\ child[g].st = "none" /\ \A k \in 1 .. (g - 1) : child[k].st # "none"
             /\ child' = [k \in Children |->
                  CASE k = g -> [NoChild EXCEPT !.st = "up"]
                    [] k < g /\ k # cur -> [NoChild EXCEPT !.st = "gone"]
                    [] OTHER -> child[k]]
             /\ rec' = [pc |-> "resolve", why |-> rec.why, kid |-> g, seen |-> disk, any |-> FALSE]
             /\ UNCHANGED <<slot, blocked>>
      BY <2>2 DEF StartChild
    <3>2. rec' \in RecType /\ rec'.pc = "resolve" /\ rec'.why = rec.why /\ rec'.seen = disk
          /\ rec'.kid = g
      BY <1>0, <3>1 DEF Typed, RecType, RecPcs
    <3>3. [NoChild EXCEPT !.st = "up"] = [st |-> "up", got |-> {}, out |-> {}]
          /\ [NoChild EXCEPT !.st = "gone"] = [st |-> "gone", got |-> {}, out |-> {}]
      BY DEF NoChild
    <3>4. child'[g] \in Process /\ child'[g].st = "up"
      <4>1. child'[g] = [st |-> "up", got |-> {}, out |-> {}]
        BY <3>1, <3>3
      <4> QED BY <4>1 DEF Process, States
    <3>5. ASSUME NEW k \in Children, k # g
          PROVE  /\ child'[k] \in Process
                 /\ child'[k] = child[k] \/ (k < g /\ k # cur /\ child'[k].st = "gone")
      <4>1. \/ child'[k] = [NoChild EXCEPT !.st = "gone"] /\ k < g /\ k # cur
            \/ child'[k] = child[k]
        BY <3>1, <3>5
      <4>2. [st |-> "gone", got |-> {}, out |-> {}] \in Process
        BY DEF Process, States
      <4>3. child[k] \in Process
        BY <1>0 DEF Typed
      <4> QED BY <3>3, <4>1, <4>2, <4>3
    <3>6. child' \in [Children -> Process]
      BY <3>1, <3>4, <3>5
    <3>7. /\ \A k \in Children : child[k].st = "none" /\ k # g => child'[k].st = "none"
          /\ \A k \in Children : child[k].st # "none" => child'[k].st # "none"
          /\ \A k \in Children : child[k].st # "up" /\ k # g => child'[k].st # "up"
          /\ cur # 0 /\ cur # g => child'[cur] = child[cur]
      <4>1. ASSUME NEW k \in Children, k # g, child[k].st = "none" PROVE child'[k].st = "none"
        <5>1. ~(k < g)
          BY <3>1, <4>1
        <5> QED BY <3>5, <4>1, <5>1
      <4>2. ASSUME cur # 0, cur # g PROVE child'[cur] = child[cur]
        BY <1>0, <3>5, <4>2 DEF Typed
      <4> QED BY <3>1, <3>4, <3>5, <4>1, <4>2
    <3> QED BY <3>1, <3>2, <3>4, <3>6, <3>7
  <2> QED BY <2>1, <2>2
<1>1. CASE /\ rec' \in RecType /\ rec'.pc = "resolve" /\ rec'.why = rec.why /\ rec'.seen = disk
           /\ rec'.kid \in Children /\ child[rec'.kid].st = "none" /\ UNCHANGED <<slot, blocked>>
           /\ child' \in [Children -> Process] /\ child'[rec'.kid].st = "up"
           /\ \A k \in Children : child[k].st = "none" /\ k # rec'.kid => child'[k].st = "none"
           /\ \A k \in Children : child[k].st # "none" => child'[k].st # "none"
           /\ \A k \in Children : child[k].st # "up" /\ k # rec'.kid => child'[k].st # "up"
           /\ cur # 0 /\ cur # rec'.kid => child'[cur] = child[cur]
  <2>u. UNCHANGED <<disk, cur, launched, blocked, restarting, exit, slot, gaveUp, resetAsked,
                    trigger, depth, inflight, accepted, replay, unexpected, held, shutdown, main,
                    reading, asked, answers, sent>> /\ rec.pc = "start"
    BY <1>1 DEF StartChild, RecFrame, supervision, tracked, client
  <2>1. Flags'
    BY <1>0, <2>u, Zenon DEF Typed, Flags
  <2>2. Typed'
    BY <1>0, <2>u, <1>1, <2>1 DEF Typed
  <2>3. MainInv'
    BY <1>0, <2>u, <1>1 DEF MainInv, Typed, MainType
  <2>4. RecInv'
    BY <1>0, <2>u, <1>1 DEF RecInv, Started, MainInv, Typed, Preparing, Lifecycle, Failing
  <2>5. SavedInv'
    BY <1>0, <2>u, <1>1 DEF SavedInv, Ending, Failing
  <2>6. CallInv'
    BY <1>0, <2>u DEF CallInv
  <2>7. ReplayInv'
    BY <1>0, <2>u, <1>1 DEF ReplayInv
  <2>8. NeverForgotten'
    BY <1>0, <2>u DEF NeverForgotten
  <2> QED BY <2>2, <2>3, <2>4, <2>5, <2>6, <2>7, <2>8 DEF Inv
<1>2. CASE /\ rec' \in RecType /\ UNCHANGED child
           /\ \/ /\ rec.why = "refresh" /\ rec'.why = "refresh" /\ rec'.pc = "refused"
                 /\ blocked' = disk /\ UNCHANGED slot
              \/ /\ rec.why # "refresh" /\ rec'.why = "backoff" /\ rec'.pc = "attempt"
                 /\ slot' \in {slot, 0} /\ UNCHANGED blocked
  <2>u. UNCHANGED <<disk, child, cur, launched, restarting, exit, gaveUp, resetAsked, trigger,
                    depth, inflight, accepted, replay, unexpected, held, shutdown, main, reading,
                    asked, answers, sent>> /\ rec.pc = "start"
    BY <1>2 DEF StartChild, RecFrame, supervision, tracked, client
  <2>1. Flags'
    BY <1>0, <2>u, Zenon DEF Typed, Flags
  <2>2. Typed'
    BY <1>0, <2>u, <1>2, <2>1 DEF Typed
  <2>3. MainInv'
    BY <1>0, <2>u DEF MainInv
  <2>4. RecInv'
    BY <1>0, <2>u, <1>2 DEF RecInv, Started, Preparing, Lifecycle, Failing
  <2>5. SavedInv'
    BY <1>0, <2>u, <1>2 DEF SavedInv, Ending, Failing
  <2>6. CallInv'
    BY <1>0, <2>u DEF CallInv
  <2>7. ReplayInv'
    BY <1>0, <2>u, <1>2 DEF ReplayInv
  <2>8. NeverForgotten'
    BY <1>0, <2>u DEF NeverForgotten
  <2> QED BY <2>2, <2>3, <2>4, <2>5, <2>6, <2>7, <2>8 DEF Inv
<1> QED BY <1>1, <1>2, <1>p DEF StartChild

LEMMA ResolveUnexpectedStep ==
    ASSUME ProxyAssumption, Inv, ResolveUnexpected, RecFrame, UNCHANGED sent
    PROVE  Inv'
<1> USE ProxyAssumption DEF Requests, Children
<1>0. Typed /\ MainInv /\ RecInv /\ SavedInv /\ CallInv /\ ReplayInv /\ NeverForgotten
  BY DEF Inv
<1>a. Extended(answers, answers', unexpected, {})
  <2>1. PICK known \in SUBSET unexpected :
            answers' = Reply(Reply(answers, known, "resolved"), unexpected \ known, "unknown")
    BY DEF ResolveUnexpected
  <2>2. Extended(answers, Reply(answers, known, "resolved"), known, {})
    BY <1>0, ReplyNow DEF Kinds
  <2>3. Reply(answers, known, "resolved") \in [Requests -> Seq(Kinds)] /\ "unknown" \in Kinds
    BY <2>2 DEF Extended, Kinds
  <2>4. Extended(Reply(answers, known, "resolved"), answers', unexpected \ known, {})
    BY <2>1, <2>3, ReplyExtends
  <2> QED BY <2>2, <2>4 DEF Extended
<1>b. /\ rec' \in RecType /\ rec'.pc = "publish" /\ rec'.why = rec.why /\ rec'.kid = rec.kid
      /\ rec'.seen = rec.seen
  <2>1. rec.why \in Whys /\ "publish" \in RecPcs
    BY <1>0 DEF Typed, RecType, RecPcs
  <2> QED BY <1>0, <2>1, RecGoFacts DEF ResolveUnexpected
<1>1. Flags'
  BY <1>0, Zenon DEF Typed, Flags, ResolveUnexpected, supervision
<1>2. Typed'
  BY <1>0, <1>a, <1>b, <1>1 DEF Typed, Flags, Extended, ResolveUnexpected, RecFrame, supervision,
     tracked, client
<1>3. MainInv'
  BY <1>0, <1>a, <1>b, <1>2 DEF MainInv, Typed, MainType, RecType, Extended, ResolveUnexpected,
     RecFrame, supervision, tracked, client
<1>4. RecInv'
  BY <1>0, <1>b DEF RecInv, Started, Preparing, Lifecycle, ResolveUnexpected, RecFrame, supervision, Failing
<1>5. SavedInv'
  BY <1>0, <1>b DEF SavedInv, Ending, ResolveUnexpected, RecFrame, supervision, Failing
<1>6. CallInv'
  BY <1>0, <1>a DEF CallInv, Extended, ResolveUnexpected, RecFrame
<1>7. ReplayInv'
  BY <1>0, <1>b DEF ReplayInv, ResolveUnexpected, RecFrame, supervision
<1>8. NeverForgotten'
  BY <1>0, <1>a DEF NeverForgotten, Typed, Extended, ResolveUnexpected, RecFrame
<1> QED BY <1>2, <1>3, <1>4, <1>5, <1>6, <1>7, <1>8 DEF Inv

LEMMA PublishStep ==
    ASSUME ProxyAssumption, Inv, Publish, RecFrame, UNCHANGED sent
    PROVE  Inv'
<1> USE ProxyAssumption DEF Requests, Children
<1>0. Typed /\ MainInv /\ RecInv /\ SavedInv /\ CallInv /\ ReplayInv /\ NeverForgotten
  BY DEF Inv
<1>p. /\ rec' \in RecType /\ rec.kid \in Children /\ child' \in [Children -> Process]
      /\ \A k \in Children : child[k].st # "none" => child'[k].st # "none"
      /\ \A k \in Children : child[k].st # "gone" => child'[k].st # "gone"
      /\ \A k \in Children : child[k].st # "up" => child'[k].st # "up"
      /\ rec.seen \in 1 .. MaxVersion /\ rec.kid # main.kid /\ rec.kid # cur
      /\ rec.why = "refresh" => held # None /\ main.pc = "idle"
      /\ rec.why # "refresh" => cur = 0
      /\ \/ /\ ~shutdown /\ cur' = rec.kid /\ launched' = rec.seen /\ rec.why = "refresh"
            /\ cur # 0 => child'[cur].st # "up"
            /\ rec'.why = "refresh" /\ rec'.pc = "resume" /\ gaveUp' = FALSE /\ slot' = 0
               /\ blocked' = 0
         \/ /\ ~shutdown /\ cur' = rec.kid /\ launched' = rec.seen /\ rec.why # "refresh"
            /\ cur # 0 => child'[cur].st # "up"
            /\ rec'.why = rec.why /\ rec'.pc = "replay" /\ rec'.any = rec.any
            /\ UNCHANGED <<gaveUp, slot, blocked>>
         \/ /\ UNCHANGED <<cur, launched, gaveUp>> /\ rec.why = "refresh"
            /\ rec'.why = "refresh" /\ rec'.pc = "refused" /\ blocked' = rec.seen /\ UNCHANGED slot
         \/ /\ UNCHANGED <<cur, launched, gaveUp>> /\ rec.why # "refresh"
            /\ rec'.why = "backoff" /\ rec'.pc = "attempt" /\ slot' \in {slot, 0}
               /\ UNCHANGED blocked
  <2>1. rec.kid \in Children /\ rec.why \in Whys /\ "crash" \in States
    BY <1>0 DEF Publish, RecInv, Typed, RecType, States, Exits
  <2>0. /\ rec.seen \in 1 .. MaxVersion /\ rec.kid # main.kid /\ rec.kid # cur
        /\ rec.why = "refresh" => held # None /\ main.pc = "idle"
        /\ rec.why # "refresh" => cur = 0
    BY <1>0 DEF Publish, RecInv, MainInv, Preparing, Typed, RecType
  <2>2. /\ "resume" \in RecPcs /\ "replay" \in RecPcs /\ "refused" \in RecPcs
        /\ "attempt" \in RecPcs /\ "refresh" \in Whys /\ "backoff" \in Whys
    BY DEF RecPcs, Whys
  <2>3. CASE ~shutdown /\ disk = rec.seen /\ cur' = rec.kid /\ launched' = rec.seen
             /\ child' = (IF cur # 0 /\ child[cur].st = "up"
                          THEN [child EXCEPT ![cur].st = "crash"] ELSE child)
             /\ IF rec.why = "refresh"
                THEN gaveUp' = FALSE /\ slot' = 0 /\ blocked' = 0
                /\ rec' = RecGo("resume", "refresh")
                ELSE rec' = RecGo("replay", rec.why) /\ UNCHANGED <<gaveUp, slot, blocked>>
    <3>1. CASE cur # 0 /\ child[cur].st = "up"
      <4>1. cur \in Children /\ child' = [child EXCEPT ![cur].st = "crash"]
        BY <1>0, <2>3, <3>1 DEF Typed
      <4>2. /\ child' \in [Children -> Process] /\ child'[cur].st = "crash"
            /\ \A k \in Children \ {cur} : child'[k].st = child[k].st
        BY <1>0, <2>1, <4>1, StateFacts
      <4> QED BY <1>0, <2>0, <2>1, <2>2, <2>3, <4>2, RecGoFacts
    <3>2. CASE ~(cur # 0 /\ child[cur].st = "up")
      <4>1. child' = child /\ child \in [Children -> Process]
        BY <1>0, <2>3, <3>2 DEF Typed
      <4> QED BY <1>0, <2>0, <2>1, <2>2, <2>3, <3>2, <4>1, RecGoFacts
    <3> QED BY <3>1, <3>2
  <2>4. CASE UNCHANGED <<cur, launched, gaveUp>> /\ NotStarted(rec.seen)
             /\ child' = [child EXCEPT ![rec.kid].st = IF @ = "up" THEN "crash" ELSE @]
    <3>1. PICK s \in States : /\ child' = [child EXCEPT ![rec.kid].st = s] /\ s # "up"
                              /\ s \in {"none", "gone"} => child[rec.kid].st = s
      <4> DEFINE now == IF child[rec.kid].st = "up" THEN "crash" ELSE child[rec.kid].st
      <4>1. now \in States /\ now # "up" /\ (now \in {"none", "gone"} => child[rec.kid].st = now)
        BY <1>0, <2>1 DEF Typed, Process
      <4>2. child' = [child EXCEPT ![rec.kid].st = now]
        BY <2>4
      <4> QED BY <4>1, <4>2
    <3>2. /\ child' \in [Children -> Process] /\ child'[rec.kid].st = s
          /\ \A k \in Children \ {rec.kid} : child'[k].st = child[k].st
      BY <1>0, <2>1, <3>1, StateFacts
    <3>3. /\ child' \in [Children -> Process]
          /\ \A k \in Children : child[k].st # "none" => child'[k].st # "none"
          /\ \A k \in Children : child[k].st # "gone" => child'[k].st # "gone"
          /\ \A k \in Children : child[k].st # "up" => child'[k].st # "up"
      BY <2>1, <3>1, <3>2
    <3> QED BY <1>0, <2>0, <2>1, <2>2, <2>4, <3>3, RecGoFacts DEF NotStarted
  <2> QED BY <2>3, <2>4 DEF Publish
<1>1. CASE /\ ~shutdown /\ cur' = rec.kid /\ launched' = rec.seen /\ rec.why = "refresh"
           /\ cur # 0 => child'[cur].st # "up"
           /\ rec'.why = "refresh" /\ rec'.pc = "resume" /\ gaveUp' = FALSE /\ slot' = 0
              /\ blocked' = 0
  <2>u. /\ rec.pc = "publish" /\ reading = None /\ rec' \in RecType /\ rec.kid \in Children
           /\ child' \in [Children -> Process]
        /\ \A k \in Children : child[k].st # "none" => child'[k].st # "none"
        /\ \A k \in Children : child[k].st # "gone" => child'[k].st # "gone"
        /\ \A k \in Children : child[k].st # "up" => child'[k].st # "up"
        /\ rec.seen \in 1 .. MaxVersion /\ rec.kid # main.kid /\ rec.kid # cur
        /\ rec.why = "refresh" => held # None /\ main.pc = "idle"
        /\ rec.why # "refresh" => cur = 0
        /\ UNCHANGED <<disk, restarting, exit, resetAsked, trigger, depth, inflight, accepted,
                       replay, unexpected, held, shutdown, main, reading, asked, answers, sent>>
    BY <1>0, <1>p, <1>1 DEF Publish, RecFrame, client, supervision, tracked, client
  <2>1. Flags'
    BY <1>0, <2>u, <1>1, Zenon DEF Typed, Flags
  <2>2. Typed'
    BY <1>0, <2>u, <1>1, <2>1 DEF Typed
  <2>3. MainInv'
    BY <1>0, <2>u, <1>1 DEF MainInv
  <2>4. RecInv'
    BY <1>0, <2>u, <1>1 DEF RecInv, Started, Failing
  <2>5. SavedInv'
    BY <1>0, <2>u, <1>1 DEF SavedInv
  <2>6. CallInv'
    BY <1>0, <2>u DEF CallInv
  <2>7. ReplayInv'
    BY <1>0, <2>u, <1>1 DEF ReplayInv
  <2>8. NeverForgotten'
    BY <1>0, <2>u DEF NeverForgotten
  <2> QED BY <2>2, <2>3, <2>4, <2>5, <2>6, <2>7, <2>8 DEF Inv
<1>2. CASE /\ ~shutdown /\ cur' = rec.kid /\ launched' = rec.seen /\ rec.why # "refresh"
           /\ cur # 0 => child'[cur].st # "up"
           /\ rec'.why = rec.why /\ rec'.pc = "replay" /\ rec'.any = rec.any
           /\ UNCHANGED <<gaveUp, slot, blocked>>
  <2>u. /\ rec.pc = "publish" /\ reading = None /\ rec' \in RecType /\ rec.kid \in Children
           /\ child' \in [Children -> Process]
        /\ \A k \in Children : child[k].st # "none" => child'[k].st # "none"
        /\ \A k \in Children : child[k].st # "gone" => child'[k].st # "gone"
        /\ \A k \in Children : child[k].st # "up" => child'[k].st # "up"
        /\ rec.seen \in 1 .. MaxVersion /\ rec.kid # main.kid /\ rec.kid # cur
        /\ rec.why = "refresh" => held # None /\ main.pc = "idle"
        /\ rec.why # "refresh" => cur = 0
        /\ UNCHANGED <<disk, blocked, restarting, exit, slot, gaveUp, resetAsked, trigger, depth,
                       inflight, accepted, replay, unexpected, held, shutdown, main, reading,
                       asked, answers, sent>>
    BY <1>0, <1>p, <1>2 DEF Publish, RecFrame, client, supervision, tracked, client
  <2>1. Flags'
    BY <1>0, <2>u, Zenon DEF Typed, Flags
  <2>2. Typed'
    BY <1>0, <2>u, <1>2, <2>1 DEF Typed
  <2>3. MainInv'
    BY <1>0, <2>u, <1>2 DEF MainInv, Typed, MainType
  <2>4. RecInv'
    BY <1>0, <2>u, <1>2 DEF RecInv, Started, Preparing, Lifecycle, Failing
  <2>5. SavedInv'
    BY <1>0, <2>u, <1>2 DEF SavedInv, Ending, Failing
  <2>6. CallInv'
    BY <1>0, <2>u DEF CallInv
  <2>7. ReplayInv'
    BY <1>0, <2>u, <1>2 DEF ReplayInv
  <2>8. NeverForgotten'
    BY <1>0, <2>u DEF NeverForgotten
  <2> QED BY <2>2, <2>3, <2>4, <2>5, <2>6, <2>7, <2>8 DEF Inv
<1>3. CASE /\ UNCHANGED <<cur, launched, gaveUp>> /\ rec.why = "refresh"
           /\ rec'.why = "refresh" /\ rec'.pc = "refused" /\ blocked' = rec.seen /\ UNCHANGED slot
  <2>u. /\ rec.pc = "publish" /\ reading = None /\ rec' \in RecType /\ rec.kid \in Children
           /\ child' \in [Children -> Process]
        /\ \A k \in Children : child[k].st # "none" => child'[k].st # "none"
        /\ \A k \in Children : child[k].st # "gone" => child'[k].st # "gone"
        /\ \A k \in Children : child[k].st # "up" => child'[k].st # "up"
        /\ rec.seen \in 1 .. MaxVersion /\ rec.kid # main.kid /\ rec.kid # cur
        /\ rec.why = "refresh" => held # None /\ main.pc = "idle"
        /\ rec.why # "refresh" => cur = 0
        /\ UNCHANGED <<disk, cur, launched, restarting, exit, slot, gaveUp, resetAsked, trigger,
                       depth, inflight, accepted, replay, unexpected, held, shutdown, main,
                       reading, asked, answers, sent>>
    BY <1>0, <1>p, <1>3 DEF Publish, RecFrame, client, supervision, tracked, client
  <2>1. Flags'
    BY <1>0, <2>u, Zenon DEF Typed, Flags
  <2>2. Typed'
    BY <1>0, <2>u, <1>3, <2>1 DEF Typed
  <2>3. MainInv'
    BY <1>0, <2>u, <1>3 DEF MainInv
  <2>4. RecInv'
    BY <1>0, <2>u, <1>3 DEF RecInv, Started, Typed, Failing
  <2>5. SavedInv'
    BY <1>0, <2>u, <1>3 DEF SavedInv, Ending, Failing
  <2>6. CallInv'
    BY <1>0, <2>u DEF CallInv
  <2>7. ReplayInv'
    BY <1>0, <2>u, <1>3 DEF ReplayInv
  <2>8. NeverForgotten'
    BY <1>0, <2>u DEF NeverForgotten
  <2> QED BY <2>2, <2>3, <2>4, <2>5, <2>6, <2>7, <2>8 DEF Inv
<1>4. CASE /\ UNCHANGED <<cur, launched, gaveUp>> /\ rec.why # "refresh"
           /\ rec'.why = "backoff" /\ rec'.pc = "attempt" /\ slot' \in {slot, 0}
              /\ UNCHANGED blocked
  <2>u. /\ rec.pc = "publish" /\ reading = None /\ rec' \in RecType /\ rec.kid \in Children
           /\ child' \in [Children -> Process]
        /\ \A k \in Children : child[k].st # "none" => child'[k].st # "none"
        /\ \A k \in Children : child[k].st # "gone" => child'[k].st # "gone"
        /\ \A k \in Children : child[k].st # "up" => child'[k].st # "up"
        /\ rec.seen \in 1 .. MaxVersion /\ rec.kid # main.kid /\ rec.kid # cur
        /\ rec.why = "refresh" => held # None /\ main.pc = "idle"
        /\ rec.why # "refresh" => cur = 0
        /\ UNCHANGED <<disk, cur, launched, blocked, restarting, exit, gaveUp, resetAsked, trigger,
                       depth, inflight, accepted, replay, unexpected, held, shutdown, main,
                       reading, asked, answers, sent>>
    BY <1>0, <1>p, <1>4 DEF Publish, RecFrame, client, supervision, tracked, client
  <2>1. Flags'
    BY <1>0, <2>u, Zenon DEF Typed, Flags
  <2>2. Typed'
    BY <1>0, <2>u, <1>4, <2>1 DEF Typed
  <2>3. MainInv'
    BY <1>0, <2>u DEF MainInv, Typed, MainType
  <2>4. RecInv'
    BY <1>0, <2>u, <1>4 DEF RecInv, Preparing, Lifecycle
  <2>5. SavedInv'
    BY <1>0, <2>u, <1>4 DEF SavedInv, Ending, Failing
  <2>6. CallInv'
    BY <1>0, <2>u DEF CallInv
  <2>7. ReplayInv'
    BY <1>0, <2>u, <1>4 DEF ReplayInv
  <2>8. NeverForgotten'
    BY <1>0, <2>u DEF NeverForgotten
  <2> QED BY <2>2, <2>3, <2>4, <2>5, <2>6, <2>7, <2>8 DEF Inv
<1> QED BY <1>1, <1>2, <1>3, <1>4, <1>p DEF Publish

LEMMA ReplayDoneStep ==
    ASSUME ProxyAssumption, Inv, ReplayDone, RecFrame, UNCHANGED sent
    PROVE  Inv'
<1> USE ProxyAssumption DEF Requests, Children
<1>0. Typed /\ MainInv /\ RecInv /\ SavedInv /\ CallInv /\ ReplayInv /\ NeverForgotten
  BY DEF Inv
<1>b. rec' \in RecType /\ rec'.pc = "idle" /\ rec'.why = "none"
  BY RecIdleFacts DEF ReplayDone
<1>1. Flags'
  BY <1>0, Zenon DEF Typed, Flags, ReplayDone, FinishCycle
<1>2. Typed'
  BY <1>0, <1>b, <1>1 DEF Typed, ReplayDone, FinishCycle, RecFrame, tracked
<1>3. MainInv'
  BY <1>0, <1>b DEF MainInv, ReplayDone, FinishCycle, RecFrame, tracked
<1>4. RecInv'
  BY <1>0, <1>b DEF RecInv, Started, Preparing, Lifecycle, ReplayDone, FinishCycle, RecFrame, Failing
<1>5. SavedInv'
  BY <1>0, <1>b DEF SavedInv, RecInv, ReplayDone, FinishCycle, RecFrame, tracked
<1>6. CallInv'
  BY <1>0, <1>b DEF CallInv, ReplayDone, FinishCycle, RecFrame
<1>7. ReplayInv'
  BY <1>0, <1>b DEF ReplayInv, ReplayDone, FinishCycle, RecFrame, tracked
<1>8. NeverForgotten'
  BY <1>0, <1>b DEF NeverForgotten, ReplayDone, FinishCycle, RecFrame, tracked
<1> QED BY <1>2, <1>3, <1>4, <1>5, <1>6, <1>7, <1>8 DEF Inv

LEMMA ReleaseStep ==
    ASSUME ProxyAssumption, Inv, Release, RecFrame, UNCHANGED sent
    PROVE  Inv'
<1> USE ProxyAssumption DEF Requests, Children
<1>0. Typed /\ MainInv /\ RecInv /\ SavedInv /\ CallInv /\ ReplayInv /\ NeverForgotten
  BY DEF Inv
<1>a. Extended(answers, answers', IF rec.pc = "refused" THEN {held} ELSE {},
              IF rec.pc = "refused" THEN {held} ELSE {})
  BY <1>0, ReplyNow, SameExtends DEF Release, Kinds
<1>b. rec' \in RecType /\ rec'.pc = "idle" /\ rec'.why = "none"
  BY RecIdleFacts DEF Release
<1>1. Flags'
  BY <1>0, Zenon DEF Typed, Flags, Release
<1>2. Typed'
  BY <1>0, <1>a, <1>b, <1>1 DEF Typed, Flags, Extended, Release, RecFrame, supervision, tracked,
     client
<1>3. MainInv'
  BY <1>0, <1>a, <1>b, <1>2 DEF MainInv, Typed, MainType, RecType, Extended, Release, RecFrame,
     supervision, tracked, client
<1>4. RecInv'
  BY <1>0, <1>b DEF RecInv, Started, Preparing, Lifecycle, Release, RecFrame, Failing
<1>5. SavedInv'
  BY <1>0, <1>b DEF SavedInv, RecInv, Lifecycle, Ending, Release, RecFrame, tracked, Failing
<1>6. CallInv'
  BY <1>0, <1>a DEF CallInv, MainInv, RecInv, SavedInv, Extended, Release, RecFrame
<1>7. ReplayInv'
  BY <1>0, <1>b DEF ReplayInv, Release, RecFrame, tracked
<1>8. NeverForgotten'
  BY <1>0, <1>a DEF NeverForgotten, SavedInv, Typed, Extended, Release, RecFrame, tracked
<1> QED BY <1>2, <1>3, <1>4, <1>5, <1>6, <1>7, <1>8 DEF Inv

LEMMA AbandonStep ==
    ASSUME ProxyAssumption, Inv, Abandon, RecFrame, UNCHANGED sent
    PROVE  Inv'
<1> USE ProxyAssumption DEF Requests, Children
<1>0. Typed /\ MainInv /\ RecInv /\ SavedInv /\ CallInv /\ ReplayInv /\ NeverForgotten
  BY DEF Inv
<1>b. rec' \in RecType /\ rec'.pc = "idle" /\ rec'.why = "none"
  BY RecIdleFacts DEF Abandon
<1>1. Flags'
  BY <1>0, Zenon DEF Typed, Flags, Abandon, supervision
<1>2. Typed'
  BY <1>0, <1>b, <1>1 DEF Typed, Abandon, RecFrame, supervision, tracked
<1>3. MainInv'
  BY <1>0, <1>b DEF MainInv, Abandon, RecFrame, supervision, tracked
<1>4. RecInv'
  BY <1>0, <1>b DEF RecInv, Started, Preparing, Lifecycle, Abandon, RecFrame, supervision, Failing
<1>5. SavedInv'
  BY <1>0, <1>b DEF SavedInv, Ending, Abandon, RecFrame, supervision, tracked, Failing
<1>6. CallInv'
  BY <1>0, <1>b DEF CallInv, Abandon, RecFrame
<1>7. ReplayInv'
  BY <1>0, <1>b DEF ReplayInv, Abandon, RecFrame, supervision, tracked
<1>8. NeverForgotten'
  BY <1>0, <1>b DEF NeverForgotten, Abandon, RecFrame, tracked
<1> QED BY <1>2, <1>3, <1>4, <1>5, <1>6, <1>7, <1>8 DEF Inv

LEMMA AttemptStep ==
    ASSUME ProxyAssumption, Inv, Attempt, RecFrame, UNCHANGED sent
    PROVE  Inv'
<1> USE ProxyAssumption DEF Requests, Children
<1>0. Typed /\ MainInv /\ RecInv /\ SavedInv /\ CallInv /\ ReplayInv /\ NeverForgotten
  BY DEF Inv
<1>a. Extended(answers, answers', IF shutdown THEN replay \union unexpected ELSE {}, replay)
  <2>1. CASE shutdown
    <3>1. FailPending
      BY <2>1 DEF Attempt
    <3> QED BY <1>0, <2>1, <3>1, RefusedExtends DEF FailPending, Typed
  <2>2. CASE ~shutdown
    BY <1>0, <2>2, SameExtends DEF Attempt, Extended
  <2> QED BY <2>1, <2>2
<1>p. \/ /\ shutdown /\ FailPending /\ FinishCycle /\ UNCHANGED <<slot, gaveUp>>
         /\ rec' \in RecType /\ rec'.pc = "idle" /\ rec'.why = "none"
      \/ /\ ~shutdown /\ slot < Slots /\ slot' = slot + 1
         /\ UNCHANGED <<restarting, exit, gaveUp, resetAsked, replay, unexpected, depth>>
         /\ rec' \in RecType /\ rec'.pc = "start" /\ rec'.why = rec.why
      \/ /\ ~shutdown /\ slot = Slots /\ gaveUp' = TRUE /\ restarting' = FALSE /\ exit' = "none"
         /\ UNCHANGED <<slot, resetAsked, replay, unexpected, depth>>
         /\ rec' \in RecType /\ rec'.pc = "giveup" /\ rec'.why = rec.why
  <2>1. rec.why \in Whys /\ "start" \in RecPcs /\ "giveup" \in RecPcs
    BY <1>0 DEF Typed, RecType, RecPcs
  <2> QED BY <1>0, <2>1, RecGoFacts, RecIdleFacts DEF Attempt
<1>1. CASE /\ shutdown /\ FailPending /\ FinishCycle /\ UNCHANGED <<slot, gaveUp>>
           /\ rec' \in RecType /\ rec'.pc = "idle" /\ rec'.why = "none"
  <2>1. Flags'
    BY <1>0, Zenon DEF Typed, Flags, Attempt, FinishCycle
  <2>2. Typed'
    BY <1>0, <1>a, <1>1, <2>1 DEF Typed, Extended, Attempt, FailPending, FinishCycle, RecFrame
  <2>3. MainInv'
    BY <1>0, <1>a DEF MainInv, Typed, Extended, Attempt, FailPending, FinishCycle, RecFrame
  <2>4. RecInv'
    BY <1>0, <1>1 DEF RecInv, Preparing, Lifecycle, Attempt, FailPending, FinishCycle, RecFrame
  <2>5. SavedInv'
    BY <1>0, <1>1 DEF SavedInv, Attempt, FailPending, FinishCycle, RecFrame
  <2>6. CallInv'
    BY <1>0, <1>a, <2>2 DEF CallInv, RecInv, Typed, Extended, Attempt, FailPending, FinishCycle,
       RecFrame
  <2>7. ReplayInv'
    BY <1>0, <1>1 DEF ReplayInv, RecInv, Attempt, FailPending, FinishCycle, RecFrame
  <2>8. NeverForgotten'
    BY <1>0, <1>a DEF NeverForgotten, Typed, Extended, Attempt, FailPending, FinishCycle, RecFrame
  <2> QED BY <2>2, <2>3, <2>4, <2>5, <2>6, <2>7, <2>8 DEF Inv
<1>2. CASE /\ ~shutdown /\ slot < Slots /\ slot' = slot + 1
           /\ UNCHANGED <<restarting, exit, gaveUp, resetAsked, replay, unexpected, depth>>
           /\ rec' \in RecType /\ rec'.pc = "start" /\ rec'.why = rec.why
  <2>1. Flags'
    BY <1>0, <1>2, Zenon DEF Typed, Flags, Attempt
  <2>2. Typed'
    BY <1>0, <1>2, <2>1 DEF Typed, Attempt, FailPending, FinishCycle, RecFrame
  <2>3. MainInv'
    BY <1>0, <1>2 DEF MainInv, Attempt, FailPending, FinishCycle, RecFrame
  <2>4. RecInv'
    BY <1>0, <1>2 DEF RecInv, Lifecycle, Attempt, FailPending, FinishCycle, RecFrame
  <2>5. SavedInv'
    BY <1>0, <1>2 DEF SavedInv, Ending, Attempt, FailPending, FinishCycle, RecFrame, Failing
  <2>6. CallInv'
    BY <1>0, <1>2 DEF CallInv, Attempt, FailPending, FinishCycle, RecFrame
  <2>7. ReplayInv'
    BY <1>0, <1>2 DEF ReplayInv, Attempt, FailPending, FinishCycle, RecFrame
  <2>8. NeverForgotten'
    BY <1>0, <1>2 DEF NeverForgotten, Attempt, FailPending, FinishCycle, RecFrame
  <2> QED BY <2>2, <2>3, <2>4, <2>5, <2>6, <2>7, <2>8 DEF Inv
<1>3. CASE /\ ~shutdown /\ slot = Slots /\ gaveUp' = TRUE /\ restarting' = FALSE /\ exit' = "none"
           /\ UNCHANGED <<slot, resetAsked, replay, unexpected, depth>>
           /\ rec' \in RecType /\ rec'.pc = "giveup" /\ rec'.why = rec.why
  <2>1. Flags'
    BY <1>0, <1>3, Zenon DEF Typed, Flags, Attempt
  <2>2. Typed'
    BY <1>0, <1>a, <1>3, <2>1 DEF Typed, Extended, Attempt, FailPending, FinishCycle, RecFrame
  <2>3. MainInv'
    BY <1>0, <1>a DEF MainInv, Typed, Extended, Attempt, FailPending, FinishCycle, RecFrame
  <2>4. RecInv'
    BY <1>0, <1>3 DEF RecInv, Preparing, Lifecycle, Attempt, FailPending, FinishCycle, RecFrame
  <2>5. SavedInv'
    BY <1>0, <1>3 DEF SavedInv, Attempt, FailPending, FinishCycle, RecFrame
  <2>6. CallInv'
    BY <1>0, <1>a, <1>p, <1>3, <2>2 DEF CallInv, SavedInv, Typed, Extended, Attempt, FailPending,
       FinishCycle, RecFrame
  <2>7. ReplayInv'
    BY <1>0, <1>3 DEF ReplayInv, Attempt, FailPending, FinishCycle, RecFrame
  <2>8. NeverForgotten'
    BY <1>0, <1>a DEF NeverForgotten, Typed, Extended, Attempt, FailPending, FinishCycle, RecFrame
  <2> QED BY <2>2, <2>3, <2>4, <2>5, <2>6, <2>7, <2>8 DEF Inv
<1> QED BY <1>1, <1>2, <1>3, <1>p DEF Attempt

LEMMA ReplayStep ==
    ASSUME ProxyAssumption, Inv, NEW r \in Requests, Replay(r), RecFrame
    PROVE  Inv'
<1> USE ProxyAssumption DEF Requests, Children
<1>0. Typed /\ MainInv /\ RecInv /\ SavedInv /\ CallInv /\ ReplayInv /\ NeverForgotten
  BY DEF Inv
<1>a. Extended(answers, answers', IF child[cur].st = "up" /\ r \notin Calls THEN {} ELSE {r}, {r})
  <2>1. CASE child[cur].st = "up" /\ r \notin Calls
    BY <1>0, <2>1, SameExtends DEF Replay, Extended
  <2>2. CASE ~(child[cur].st = "up" /\ r \notin Calls)
    BY <1>0, <2>2, ReplyNow DEF Replay, Kinds
  <2> QED BY <2>1, <2>2
<1>1. CASE child[cur].st = "up" /\ r \notin Calls
  <2>b. /\ SameStates /\ rec' \in RecType /\ rec'.pc = "replay" /\ rec'.why = rec.why
           /\ rec'.any = TRUE
        /\ rec'.kid = rec.kid /\ rec'.seen = rec.seen /\ r \in Protocol /\ r \notin Calls
           /\ cur # 0 /\ accepted = inflight' \intersect Calls
        /\ sent' \in [Requests -> Nat] /\ sent'[r] = sent[r] + 1
        /\ \A q \in Requests \ {r} : sent'[q] = sent[q]
    <3>1. child' = Put(cur, r) /\ rec' = [rec EXCEPT !.any = TRUE]
          /\ sent' = [sent EXCEPT ![r] = @ + 1]
          /\ r \in Protocol /\ inflight' = inflight \union {r} /\ sent[r] \in Nat
             /\ rec.pc = "replay" /\ cur # 0
      BY <1>0, <1>1 DEF Replay, Typed, RecInv
    <3>2. SameStates
      BY <1>0, <3>1, PutFacts
    <3>3. rec' \in RecType /\ rec'.pc = rec.pc /\ rec'.why = rec.why /\ rec'.any = TRUE
          /\ rec'.kid = rec.kid /\ rec'.seen = rec.seen
      BY <1>0, <3>1 DEF Typed, RecType
    <3>4. sent' \in [Requests -> Nat] /\ sent'[r] = sent[r] + 1
          /\ \A q \in Requests \ {r} : sent'[q] = sent[q]
      BY <1>0, <3>1 DEF Typed
    <3> QED BY <1>0, <3>1, <3>2, <3>3, <3>4 DEF Typed
  <2>u. UNCHANGED <<disk, cur, launched, blocked, restarting, exit, slot, gaveUp, resetAsked,
                    trigger, depth, accepted, unexpected, held, shutdown, main, reading, asked,
                    answers>>
          /\ inflight' = inflight \union {r} /\ rec.pc = "replay" /\ r \in replay
             /\ replay' = replay \ {r}
    BY <1>1 DEF Replay, RecFrame, supervision, tracked, client
  <2>1. Flags'
    BY <1>0, <2>u, Zenon DEF Typed, Flags
  <2>2. Typed'
    BY <1>0, <2>b, <2>u, <2>1 DEF Typed, SameStates
  <2>3. MainInv'
    BY <1>0, <2>b, <2>u DEF MainInv, RecInv, Preparing, Typed, MainType, SameStates
  <2>4. RecInv'
    BY <1>0, <2>b, <2>u DEF RecInv, Started, Typed, SameStates
  <2>5. SavedInv'
    BY <1>0, <2>b, <2>u DEF SavedInv
  <2>6. CallInv'
    BY <1>0, <2>b, <2>u DEF CallInv, MainInv, RecInv
  <2>7. ReplayInv'
    BY <1>0, <2>b, <2>u DEF ReplayInv, MainInv, SavedInv, Typed
  <2>8. NeverForgotten'
    BY <1>0, <2>b, <2>u DEF NeverForgotten
  <2> QED BY <2>2, <2>3, <2>4, <2>5, <2>6, <2>7, <2>8 DEF Inv
<1>2. CASE ~(child[cur].st = "up" /\ r \notin Calls)
  <2>1. Flags'
    BY <1>0, Zenon DEF Typed, Flags, Replay, supervision
  <2>2. Typed'
    BY <1>0, <1>a, <1>2, <2>1 DEF Typed, Flags, Extended, Replay, SameStates, RecFrame,
       supervision, tracked, client
  <2>3. MainInv'
    BY <1>0, <1>a, <1>2, <2>2 DEF MainInv, Typed, Extended, Replay, RecFrame, supervision
  <2>4. RecInv'
    BY <1>0, <1>a, <1>2 DEF RecInv, Started, MainInv, Extended, Replay, RecFrame, supervision
  <2>5. SavedInv'
    BY <1>0, <1>2 DEF SavedInv, RecInv, Replay, RecFrame, supervision
  <2>6. CallInv'
    BY <1>0, <1>a DEF CallInv, Typed, Extended, Replay, RecFrame
  <2>7. ReplayInv'
    BY <1>0, <1>2 DEF ReplayInv, Replay, RecFrame, supervision
  <2>8. NeverForgotten'
    BY <1>0, <1>a, <1>2 DEF NeverForgotten, Typed, Extended, Replay, RecFrame
  <2> QED BY <2>2, <2>3, <2>4, <2>5, <2>6, <2>7, <2>8 DEF Inv
<1> QED BY <1>1, <1>2 DEF Replay

LEMMA ResumeStep ==
    ASSUME ProxyAssumption, Inv, Resume, RecFrame
    PROVE  Inv'
<1> USE ProxyAssumption DEF Requests, Children
<1>0. Typed /\ MainInv /\ RecInv /\ SavedInv /\ CallInv /\ ReplayInv /\ NeverForgotten
  BY DEF Inv
<1>a. Extended(answers, answers', IF held \in Calls /\ child[cur].st = "up" THEN {} ELSE {held}, {})
  <2>1. CASE held \in Calls /\ child[cur].st = "up"
    BY <1>0, <2>1, SameExtends DEF Resume, Extended
  <2>2. CASE held \in Calls /\ child[cur].st # "up"
    BY <1>0, <2>2, ReplyNow DEF Resume, Kinds
  <2>3. CASE held \notin Calls
    BY <1>0, <2>3, ReplyNow DEF Resume, Kinds
  <2> QED BY <2>1, <2>2, <2>3
<1>1. CASE held \in Calls /\ child[cur].st = "up"
  <2>b. /\ SameStates /\ rec' \in RecType /\ rec'.pc = "release" /\ rec'.why = "refresh"
        /\ cur # 0 /\ held # None /\ held \notin Protocol /\ main.pc = "idle" /\ main.req = None
        /\ held \in asked /\ ~HasError(answers[held]) /\ sent[held] = 0
        /\ sent' \in [Requests -> Nat] /\ sent'[held] = 1
        /\ \A q \in Requests \ {held} : sent'[q] = sent[q]
    <3>1. held \in Requests /\ "release" \in RecPcs /\ "refresh" \in Whys /\ held # None
          /\ held \notin Protocol
      BY <1>1 DEF RecPcs, Whys
    <3>2. cur # 0 /\ main.pc = "idle" /\ main.req = None /\ held \in asked
      BY <1>0, <3>1 DEF Resume, RecInv, MainInv, SavedInv
    <3>3. sent[held] = 0 /\ ~HasError(answers[held])
      BY <1>0, <1>1, <3>1 DEF Resume, CallInv, Typed
    <3>4. child' = Put(cur, held) /\ sent' = [sent EXCEPT ![held] = @ + 1]
          /\ rec' = RecGo("release", "refresh")
      BY <1>1 DEF Resume
    <3>5. SameStates
      BY <1>0, <3>1, <3>4, PutFacts
    <3>6. sent' \in [Requests -> Nat] /\ sent'[held] = 1
          /\ \A q \in Requests \ {held} : sent'[q] = sent[q]
      BY <1>0, <3>1, <3>3, <3>4 DEF Typed
    <3> QED BY <1>0, <3>1, <3>2, <3>3, <3>4, <3>5, <3>6, RecGoFacts
  <2>u. UNCHANGED <<disk, cur, launched, blocked, restarting, exit, slot, gaveUp, resetAsked,
                    trigger, depth, replay, unexpected, held, shutdown, main, reading, asked,
                    answers>>
          /\ inflight' = inflight \union {held} /\ accepted' = accepted \union {held}
             /\ rec.pc = "resume"
          /\ ~shutdown /\ reading = None
    BY <1>1 DEF Resume, RecFrame, supervision, tracked, client
  <2>1. Flags'
    BY <1>0, <2>u, Zenon DEF Typed, Flags
  <2>2. Typed'
    BY <1>0, <2>b, <2>u, <1>1, <2>1 DEF Typed, SameStates
  <2>3. MainInv'
    BY <1>0, <2>b, <2>u DEF MainInv
  <2>4. RecInv'
    BY <1>0, <2>b, <2>u DEF RecInv, Started, Typed, SameStates, Failing
  <2>5. SavedInv'
    BY <1>0, <2>b, <2>u DEF SavedInv
  <2>6. CallInv'
    BY <1>0, <2>b, <2>u DEF CallInv
  <2>7. ReplayInv'
    BY <1>0, <2>b, <2>u DEF ReplayInv
  <2>8. NeverForgotten'
    BY <1>0, <2>b, <2>u DEF NeverForgotten
  <2> QED BY <2>2, <2>3, <2>4, <2>5, <2>6, <2>7, <2>8 DEF Inv
<1>2. CASE ~(held \in Calls /\ child[cur].st = "up")
  <2>b. /\ rec' \in RecType /\ rec'.pc = "release" /\ rec'.why = "refresh"
        /\ UNCHANGED <<inflight, accepted, child, sent>>
    BY <1>0, <1>2, RecGoFacts DEF Resume, RecPcs, Whys
  <2>1. Flags'
    BY <1>0, Zenon DEF Typed, Flags, Resume, supervision
  <2>2. Typed'
    BY <1>0, <1>a, <2>b, <2>1 DEF Typed, Extended, Resume, RecFrame, supervision
  <2>3. MainInv'
    BY <1>0, <1>a, <2>b DEF MainInv, Typed, Extended, Resume, RecFrame, supervision
  <2>4. RecInv'
    BY <1>0, <1>a, <2>b DEF RecInv, Started, Lifecycle, Extended, Resume, RecFrame, supervision, Failing
  <2>5. SavedInv'
    BY <1>0, <1>a, <2>b DEF SavedInv, RecInv, Typed, Lifecycle, Extended, Resume, RecFrame,
       supervision
  <2>6. CallInv'
    BY <1>0, <1>a, <2>b DEF CallInv, SavedInv, Extended, Resume, RecFrame
  <2>7. ReplayInv'
    BY <1>0, <2>b DEF ReplayInv, Resume, RecFrame, supervision
  <2>8. NeverForgotten'
    BY <1>0, <1>a, <2>b DEF NeverForgotten, Typed, Extended, Resume, RecFrame
  <2> QED BY <2>2, <2>3, <2>4, <2>5, <2>6, <2>7, <2>8 DEF Inv
<1> QED BY <1>1, <1>2 DEF Resume

LEMMA CrashStep ==
    ASSUME ProxyAssumption, Inv, Crash
    PROVE  Inv'
<1> USE ProxyAssumption DEF Requests, Children
<1>0. Typed /\ MainInv /\ RecInv /\ SavedInv /\ CallInv /\ ReplayInv /\ NeverForgotten
  BY DEF Inv
<1>a. Extended(answers, answers', replay \union unexpected, replay)
  BY <1>0, RefusedExtends DEF Crash, FailPending, Typed
<1>b. rec' \in RecType /\ rec'.pc = "crashed" /\ rec'.why = rec.why
  <2>1. rec.why \in Whys /\ "crashed" \in RecPcs
    BY <1>0 DEF Typed, RecType, RecPcs
  <2> QED BY <1>0, <2>1, RecGoFacts DEF Crash
<1>1. Flags'
  BY <1>0, Zenon DEF Typed, Flags, Crash, FinishCycle
<1>2. Typed'
  BY <1>0, <1>a, <1>b, <1>1 DEF Typed, Extended, Crash, FailPending, FinishCycle
<1>3. MainInv'
  BY <1>0, <1>a, <1>b DEF MainInv, Typed, Extended, Crash, FailPending, FinishCycle
<1>4. RecInv'
  BY <1>0, <1>b DEF RecInv, Started, Preparing, Lifecycle, Crash, FailPending, FinishCycle, Failing
<1>5. SavedInv'
  BY <1>0, <1>b DEF SavedInv, Ending, Crash, FailPending, FinishCycle, Failing
<1>6. CallInv'
  BY <1>0, <1>a, <1>b, <1>2 DEF CallInv, SavedInv, Typed, Extended, Crash, FailPending, FinishCycle
<1>7. ReplayInv'
  BY <1>0, <1>b DEF ReplayInv, RecInv, SavedInv, Crash, FailPending, FinishCycle
<1>8. NeverForgotten'
  BY <1>0, <1>a, <1>b DEF NeverForgotten, Typed, Extended, Crash, FailPending, FinishCycle
<1> QED BY <1>2, <1>3, <1>4, <1>5, <1>6, <1>7, <1>8 DEF Inv

LEMMA FlagStep ==
    ASSUME ProxyAssumption, Inv, Flag
    PROVE  Inv'
<1> USE ProxyAssumption DEF Requests, Children
<1>0. Typed /\ MainInv /\ RecInv /\ SavedInv /\ CallInv /\ ReplayInv /\ NeverForgotten
  BY DEF Inv
<1>b. rec' \in RecType /\ rec'.pc = "flagged" /\ rec'.why = "none" /\ rec.pc = "crashed"
  <2>1. Free \in BOOLEAN
    BY DEF Free
  <2> QED BY <2>1, RecIdleFacts DEF Flag, RecIdle, RecType, RecPcs
<1>u. UNCHANGED <<disk, child, cur, launched, blocked, restarting, exit, slot, gaveUp, resetAsked,
                  trigger, depth, inflight, accepted, replay, unexpected, held, shutdown, main,
                  reading, asked, answers, sent>>
  BY DEF Flag, supervision, tracked, client
<1>1. Flags'
  BY <1>0, <1>u, Zenon DEF Typed, Flags
<1>2. Typed'
  BY <1>0, <1>b, <1>u, <1>1 DEF Typed
<1>3. MainInv'
  BY <1>0, <1>u DEF MainInv
<1>4. RecInv'
  BY <1>0, <1>b, <1>u DEF RecInv, Started, Preparing, Lifecycle, Failing
<1>5. SavedInv'
  BY <1>0, <1>b, <1>u DEF SavedInv, Ending, Failing
<1>6. CallInv'
  BY <1>0, <1>b, <1>u DEF CallInv
<1>7. ReplayInv'
  BY <1>0, <1>b, <1>u DEF ReplayInv
<1>8. NeverForgotten'
  BY <1>0, <1>u DEF NeverForgotten
<1> QED BY <1>2, <1>3, <1>4, <1>5, <1>6, <1>7, <1>8 DEF Inv

LEMMA CrashedStep ==
    ASSUME ProxyAssumption, Inv, Crashed
    PROVE  Inv'
<1> USE ProxyAssumption DEF Requests, Children
<1>0. Typed /\ MainInv /\ RecInv /\ SavedInv /\ CallInv /\ ReplayInv /\ NeverForgotten
  BY DEF Inv
<1>b. rec' \in RecType /\ rec'.pc = "dead" /\ rec'.why = rec.why /\ rec.pc = "flagged"
  BY <1>0 DEF Crashed, Typed, RecType, RecPcs
<1>1. CASE held = None \/ shutdown
  <2>u. /\ held = None \/ shutdown
        /\ UNCHANGED <<disk, child, cur, launched, blocked, restarting, exit, slot, gaveUp,
                       resetAsked, trigger, depth, inflight, accepted, replay, unexpected, held,
                       shutdown, main, reading, asked, answers, sent>>
    BY <1>1 DEF Crashed, tracked
  <2>1. Flags'
    BY <1>0, <2>u, Zenon DEF Typed, Flags
  <2>2. Typed'
    BY <1>0, <1>b, <2>u, <2>1 DEF Typed
  <2>3. MainInv'
    BY <1>0, <2>u DEF MainInv
  <2>4. RecInv'
    BY <1>0, <1>b, <2>u DEF RecInv, Started, Preparing, Lifecycle, Failing
  <2>5. SavedInv'
    BY <1>0, <1>b, <2>u DEF SavedInv, Ending, Failing
  <2>6. CallInv'
    BY <1>0, <1>b, <2>u DEF CallInv
  <2>7. ReplayInv'
    BY <1>0, <1>b, <2>u DEF ReplayInv
  <2>8. NeverForgotten'
    BY <1>0, <2>u DEF NeverForgotten
  <2> QED BY <2>2, <2>3, <2>4, <2>5, <2>6, <2>7, <2>8 DEF Inv
<1>2. CASE held # None /\ ~shutdown
  <2>a. Extended(answers, answers', {held}, {held})
    BY <1>0, <1>2, ReplyNow DEF Crashed, Kinds
  <2>u. /\ held # None /\ ~shutdown /\ held' = None /\ restarting' = FALSE /\ main.pc = "idle"
        /\ UNCHANGED <<disk, child, cur, launched, blocked, exit, slot, gaveUp, resetAsked,
                       trigger, depth, inflight, accepted, replay, unexpected, shutdown, main,
                       reading, asked, sent>>
    BY <1>0, <1>2 DEF Crashed, tracked, MainInv
  <2>1. Flags'
    BY <1>0, <2>u, Zenon DEF Typed, Flags
  <2>2. Typed'
    BY <1>0, <1>b, <2>a, <2>u, <2>1 DEF Typed, Extended
  <2>3. MainInv'
    BY <1>0, <2>u DEF MainInv
  <2>4. RecInv'
    BY <1>0, <1>b, <2>u DEF RecInv, Started, Preparing, Lifecycle, Failing
  <2>5. SavedInv'
    BY <1>0, <1>b, <2>u DEF SavedInv, Ending, Failing
  <2>6. CallInv'
    BY <1>0, <1>b, <2>a, <2>u DEF CallInv, MainInv, SavedInv, Extended
  <2>7. ReplayInv'
    BY <1>0, <1>b, <2>u DEF ReplayInv
  <2>8. NeverForgotten'
    BY <1>0, <2>a, <2>u DEF NeverForgotten, Typed, Extended
  <2> QED BY <2>2, <2>3, <2>4, <2>5, <2>6, <2>7, <2>8 DEF Inv
<1> QED BY <1>1, <1>2

LEMMA ClientLeavesStep ==
    ASSUME ProxyAssumption, Inv, ClientLeaves
    PROVE  Inv'
<1> USE ProxyAssumption DEF Requests, Children
<1>0. Typed /\ MainInv /\ RecInv /\ SavedInv /\ CallInv /\ ReplayInv /\ NeverForgotten
  BY DEF Inv
<1>1. Flags'
  BY <1>0, Zenon DEF Typed, Flags, ClientLeaves, supervision
<1>2. Typed'
  BY <1>0, <1>1 DEF Typed, ClientLeaves, supervision, tracked, client
<1>3. MainInv'
  BY <1>0 DEF MainInv, ClientLeaves, supervision, tracked
<1>4. RecInv'
  BY <1>0 DEF RecInv, Started, ClientLeaves, supervision
<1>5. SavedInv'
  BY <1>0 DEF SavedInv, ClientLeaves, supervision, tracked, client
<1>6. CallInv'
  BY <1>0 DEF CallInv, ClientLeaves, client
<1>7. ReplayInv'
  BY <1>0 DEF ReplayInv, ClientLeaves, supervision, tracked, client
<1>8. NeverForgotten'
  BY <1>0 DEF NeverForgotten, ClientLeaves, tracked, client
<1> QED BY <1>2, <1>3, <1>4, <1>5, <1>6, <1>7, <1>8 DEF Inv

LEMMA ChildAnswersStep ==
    ASSUME ProxyAssumption, Inv, NEW g \in Children, NEW r \in Requests, ChildAnswers(g, r),
           EnvFrame
    PROVE  Inv'
<1> USE ProxyAssumption DEF Requests, Children
<1>0. Typed /\ MainInv /\ RecInv /\ SavedInv /\ CallInv /\ ReplayInv /\ NeverForgotten
  BY DEF Inv
<1>b. SameStates
  BY <1>0, AnswersFacts DEF ChildAnswers
<1>u. UNCHANGED <<disk, cur, launched, blocked, restarting, exit, slot, gaveUp, resetAsked,
                  trigger, depth, inflight, accepted, replay, unexpected, held, shutdown, main,
                  reading, rec, asked, answers, sent>>
  BY DEF ChildAnswers, EnvFrame, supervision, tracked, client
<1>1. Flags'
  BY <1>0, <1>u, Zenon DEF Typed, Flags
<1>2. Typed'
  BY <1>0, <1>b, <1>u, <1>1 DEF Typed, SameStates
<1>3. MainInv'
  BY <1>0, <1>b, <1>u DEF MainInv, Typed, MainType, SameStates
<1>4. RecInv'
  BY <1>0, <1>b, <1>u DEF RecInv, Started, Typed, RecType, SameStates
<1>5. SavedInv'
  BY <1>0, <1>b, <1>u DEF SavedInv
<1>6. CallInv'
  BY <1>0, <1>b, <1>u DEF CallInv
<1>7. ReplayInv'
  BY <1>0, <1>b, <1>u DEF ReplayInv
<1>8. NeverForgotten'
  BY <1>0, <1>b, <1>u DEF NeverForgotten
<1> QED BY <1>2, <1>3, <1>4, <1>5, <1>6, <1>7, <1>8 DEF Inv

LEMMA ChildExitsStep ==
    ASSUME ProxyAssumption, Inv, NEW g \in Children, NEW how \in Exits, ChildExits(g, how), EnvFrame
    PROVE  Inv'
<1> USE ProxyAssumption DEF Requests, Children
<1>0. Typed /\ MainInv /\ RecInv /\ SavedInv /\ CallInv /\ ReplayInv /\ NeverForgotten
  BY DEF Inv
<1>b. /\ child' \in [Children -> Process]
      /\ \A k \in Children : child'[k].st = "none" => child[k].st = "none"
      /\ \A k \in Children : child'[k].st = "gone" => child[k].st = "gone"
      /\ \A k \in Children : child'[k].st = "up" => child[k].st = "up"
  <2>1. how \in States /\ how # "none" /\ how # "up" /\ how # "gone"
    BY DEF States, Exits
  <2>2. /\ child' \in [Children -> Process] /\ child'[g].st = how
        /\ \A k \in Children \ {g} : child'[k].st = child[k].st
    BY <1>0, <2>1, StateFacts DEF ChildExits
  <2> QED BY <2>1, <2>2
<1>u. UNCHANGED <<disk, cur, launched, blocked, restarting, exit, slot, gaveUp, resetAsked,
                  trigger, depth, inflight, accepted, replay, unexpected, held, shutdown, main,
                  reading, rec, asked, answers, sent>> /\ child[g].st = "up"
  BY DEF ChildExits, EnvFrame, supervision, tracked, client
<1>1. Flags'
  BY <1>0, <1>u, Zenon DEF Typed, Flags
<1>2. Typed'
  BY <1>0, <1>b, <1>u, <1>1 DEF Typed
<1>3. MainInv'
  BY <1>0, <1>b, <1>u DEF MainInv, Typed, MainType
<1>4. RecInv'
  BY <1>0, <1>b, <1>u DEF RecInv, Started, Typed, RecType
<1>5. SavedInv'
  BY <1>0, <1>b, <1>u DEF SavedInv
<1>6. CallInv'
  BY <1>0, <1>b, <1>u DEF CallInv
<1>7. ReplayInv'
  BY <1>0, <1>b, <1>u DEF ReplayInv
<1>8. NeverForgotten'
  BY <1>0, <1>b, <1>u DEF NeverForgotten
<1> QED BY <1>2, <1>3, <1>4, <1>5, <1>6, <1>7, <1>8 DEF Inv

LEMMA InstallStep ==
    ASSUME ProxyAssumption, Inv, Install, EnvFrame
    PROVE  Inv'
<1> USE ProxyAssumption DEF Requests, Children
<1>0. Typed /\ MainInv /\ RecInv /\ SavedInv /\ CallInv /\ ReplayInv /\ NeverForgotten
  BY DEF Inv
<1>1. Flags'
  BY <1>0, Zenon DEF Typed, Flags, EnvFrame, supervision
<1>2. Typed'
  BY <1>0, <1>1 DEF Typed, Install, EnvFrame, supervision, tracked, client
<1>3. MainInv'
  BY <1>0 DEF MainInv, Install, EnvFrame, supervision, tracked, client
<1>4. RecInv'
  BY <1>0 DEF RecInv, Started, Install, EnvFrame, supervision
<1>5. SavedInv'
  BY <1>0 DEF SavedInv, Install, EnvFrame, supervision, tracked, client
<1>6. CallInv'
  BY <1>0 DEF CallInv, Install, EnvFrame, client
<1>7. ReplayInv'
  BY <1>0 DEF ReplayInv, Install, EnvFrame, supervision, tracked, client
<1>8. NeverForgotten'
  BY <1>0 DEF NeverForgotten, Install, EnvFrame, tracked, client
<1> QED BY <1>2, <1>3, <1>4, <1>5, <1>6, <1>7, <1>8 DEF Inv

LEMMA EofStep ==
    ASSUME ProxyAssumption, Inv, Eof, ReaderFrame, UNCHANGED sent
    PROVE  Inv'
<1> USE ProxyAssumption DEF Requests, Children
<1>0. Typed /\ MainInv /\ RecInv /\ SavedInv /\ CallInv /\ ReplayInv /\ NeverForgotten
  BY DEF Inv
<1>a. Extended(answers, answers', inflight \ (replay' \union unexpected'), Protocol)
  <2>1. Claim(cur) /\ cur # 0 /\ child[cur].st \in Exits
    BY DEF Eof, Dead, Exits
  <2> QED BY <2>1, ClaimFacts DEF ClaimDone
<1>b. ClaimDone
  <2>1. Claim(cur) /\ cur # 0 /\ child[cur].st \in Exits
    BY DEF Eof, Dead, Exits
  <2> QED BY <1>0, <2>1, ClaimFacts
<1>u. UNCHANGED <<disk, child, launched, blocked, slot, gaveUp, resetAsked, held, shutdown, main,
                  reading, rec, asked, sent>>
  BY DEF ReaderFrame, supervision, tracked, client, Claim, Eof
<1>f. main.pc # "admit"
  BY DEF Eof, Free
<1>1. Flags'
  BY <1>0, <1>b, <1>u, Zenon DEF Typed, Flags, ClaimDone
<1>2. Typed'
  BY <1>0, <1>a, <1>b, <1>u, <1>1 DEF Typed, Extended, ClaimDone
<1>3. MainInv'
  BY <1>0, <1>a, <1>b, <1>u, <1>f DEF MainInv, Typed, Extended, ClaimDone
<1>4. RecInv'
  BY <1>0, <1>b, <1>u DEF RecInv, Preparing, Lifecycle, ClaimDone, Failing
<1>5. SavedInv'
  BY <1>0, <1>b, <1>u DEF SavedInv, RecInv, Preparing, Lifecycle, Ending, ClaimDone, Failing
<1>6. CallInv'
  BY <1>0, <1>a, <1>b, <1>u DEF CallInv, Extended, ClaimDone
<1>7. ReplayInv'
  BY <1>0, <1>b, <1>u DEF ReplayInv, MainInv, Typed, ClaimDone
<1>8. NeverForgotten'
  BY <1>0, <1>a, <1>b, <1>u DEF NeverForgotten, Typed, Extended, ClaimDone
<1> QED BY <1>2, <1>3, <1>4, <1>5, <1>6, <1>7, <1>8 DEF Inv

LEMMA TakeClaimStep ==
    ASSUME ProxyAssumption, Inv, NEW r \in Requests, r \notin asked, r \notin Controls,
           main.pc = "idle", held = None, Claim(cur),
           cur # 0, Dead(cur), asked' = asked \union {r}, main' = [pc |-> "look", req |-> r,
           kid |-> 0],
           UNCHANGED held, TakeFrame
    PROVE  Inv'
<1> USE ProxyAssumption DEF Requests, Children
<1>0. Typed /\ MainInv /\ RecInv /\ SavedInv /\ CallInv /\ ReplayInv /\ NeverForgotten
  BY DEF Inv
<1>a. Extended(answers, answers', inflight \ (replay' \union unexpected'), Protocol)
  <2>1. Claim(cur) /\ cur # 0 /\ child[cur].st \in Exits
    BY DEF Dead, Exits
  <2> QED BY <2>1, ClaimFacts DEF ClaimDone
<1>b. ClaimDone /\ main' \in MainType /\ main'.pc = "look" /\ main'.req = r /\ main'.kid = 0
      /\ r # None /\ r \in Calls \union Protocol
  <2>1. Claim(cur) /\ cur # 0 /\ child[cur].st \in Exits
    BY DEF Dead, Exits
  <2> QED BY <1>0, <2>1, ClaimFacts DEF MainType, MainPcs
<1>u. UNCHANGED <<disk, child, launched, blocked, slot, gaveUp, resetAsked, held, shutdown,
                  reading, rec, sent>>
  BY DEF TakeFrame, supervision, tracked, client, Claim
<1>1. Flags'
  BY <1>0, <1>b, <1>u, Zenon DEF Typed, Flags, ClaimDone
<1>2. Typed'
  BY <1>0, <1>a, <1>b, <1>u, <1>1 DEF Typed, Extended, ClaimDone
<1>3. MainInv'
  <2>1. r \notin inflight \union replay \union unexpected
    BY <1>0, <1>b DEF SavedInv
  <2> QED BY <1>0, <1>a, <1>b, <1>u, <1>2, <2>1 DEF MainInv, Typed, MainType, RecType, Extended,
             ClaimDone
<1>4. RecInv'
  BY <1>0, <1>b, <1>u DEF RecInv, Preparing, Lifecycle, ClaimDone
<1>5. SavedInv'
  BY <1>0, <1>b, <1>u DEF SavedInv, RecInv, Preparing, Lifecycle, Ending, ClaimDone
<1>6. CallInv'
  BY <1>0, <1>a, <1>b, <1>u DEF CallInv, Extended, ClaimDone
<1>7. ReplayInv'
  BY <1>0, <1>b, <1>u DEF ReplayInv, Typed, ClaimDone
<1>8. NeverForgotten'
  BY <1>0, <1>a, <1>b, <1>u DEF NeverForgotten, MainInv, Typed, Extended, ClaimDone
<1> QED BY <1>2, <1>3, <1>4, <1>5, <1>6, <1>7, <1>8 DEF Inv

LEMMA OwedClaimStep ==
    ASSUME ProxyAssumption, Inv, main.pc = "owed", main' = MainIdle, Claim(main.kid), MainFrame,
           UNCHANGED <<child, sent, held>>
    PROVE  Inv'
<1> USE ProxyAssumption DEF Requests, Children
<1>0. Typed /\ MainInv /\ RecInv /\ SavedInv /\ CallInv /\ ReplayInv /\ NeverForgotten
  BY DEF Inv
<1>a. Extended(answers, answers', inflight \ (replay' \union unexpected'), Protocol)
  <2>1. Claim(cur) /\ cur # 0 /\ child[cur].st \in Exits
    <3>1. Claim(cur) /\ main.kid = cur
      BY DEF Claim, CanClaim
    <3>2. cur # 0 /\ cur \in Children /\ child[cur].st # "up" /\ Started(cur)
      BY <1>0, <3>1 DEF MainInv, RecInv, Typed
    <3>3. child[cur].st \in States
      BY <1>0, <3>2 DEF Typed, Process
    <3> QED BY <3>1, <3>2, <3>3 DEF Started, States
  <2> QED BY <2>1, ClaimFacts DEF ClaimDone
<1>b. ClaimDone /\ main' \in MainType /\ main'.pc = "idle" /\ main'.req = None /\ main'.kid = 0
      /\ main.pc = "owed"
  <2>1. Claim(cur) /\ cur # 0 /\ child[cur].st \in Exits
    <3>1. Claim(cur) /\ main.kid = cur
      BY DEF Claim, CanClaim
    <3>2. cur # 0 /\ cur \in Children /\ child[cur].st # "up" /\ Started(cur)
      BY <1>0, <3>1 DEF MainInv, RecInv, Typed
    <3>3. child[cur].st \in States
      BY <1>0, <3>2 DEF Typed, Process
    <3> QED BY <3>1, <3>2, <3>3 DEF Started, States
  <2> QED BY <1>0, <2>1, ClaimFacts, MainIdleFacts
<1>u. UNCHANGED <<disk, child, launched, blocked, slot, gaveUp, resetAsked, held, shutdown,
                  reading, rec, asked, sent>>
  BY DEF MainFrame, supervision, tracked, client, Claim
<1>1. Flags'
  BY <1>0, <1>b, <1>u, Zenon DEF Typed, Flags, ClaimDone
<1>2. Typed'
  BY <1>0, <1>a, <1>b, <1>u, <1>1 DEF Typed, Extended, ClaimDone
<1>3. MainInv'
  BY <1>0, <1>b, <1>u DEF MainInv, ClaimDone
<1>4. RecInv'
  BY <1>0, <1>b, <1>u DEF RecInv, Preparing, Lifecycle, ClaimDone, Failing
<1>5. SavedInv'
  BY <1>0, <1>b, <1>u DEF SavedInv, RecInv, Preparing, Lifecycle, Ending, ClaimDone, Failing
<1>6. CallInv'
  BY <1>0, <1>a, <1>b, <1>u DEF CallInv, RecInv, Extended, ClaimDone
<1>7. ReplayInv'
  BY <1>0, <1>b, <1>u DEF ReplayInv, Typed, ClaimDone
<1>8. NeverForgotten'
  <2> SUFFICES ASSUME NEW q \in asked, answers'[q] = <<>>
               PROVE  q \in inflight' \union replay' \union unexpected' \union {held', main'.req, reading'}
    BY <1>u DEF NeverForgotten
  <2>1. answers[q] = <<>> /\ q \notin inflight \ (replay' \union unexpected')
    BY <1>0, <1>a DEF Extended, Typed
  <2>2. q = main.req => q \in inflight \union replay \union unexpected
    BY <1>0, <1>b, <2>1 DEF MainInv
  <2>3. q \in inflight \union replay \union unexpected \union {held, reading}
    BY <1>0, <2>1, <2>2 DEF NeverForgotten
  <2> QED BY <1>b, <1>u, <2>1, <2>3 DEF ClaimDone
<1> QED BY <1>2, <1>3, <1>4, <1>5, <1>6, <1>7, <1>8 DEF Inv

LEMMA OwedAnsweredStep ==
    ASSUME ProxyAssumption, Inv, main.pc = "owed", main' = MainIdle,
           inflight' = inflight \ {main.req}, accepted' = accepted \ {main.req},
           answers' = Refused(answers, {main.req} \intersect (inflight \ accepted),
                              {main.req} \intersect inflight \intersect accepted),
           MainFrame, UNCHANGED <<child, sent, supervision, replay, unexpected, held>>
    PROVE  Inv'
<1> USE ProxyAssumption DEF Requests, Children
<1>0. Typed /\ MainInv /\ RecInv /\ SavedInv /\ CallInv /\ ReplayInv /\ NeverForgotten
  BY DEF Inv
<1>a. Extended(answers, answers', {main.req} \intersect inflight, {main.req} \intersect Protocol)
  <2> DEFINE S == {main.req} \intersect (inflight \ accepted)
             T == {main.req} \intersect inflight \intersect accepted
  <2>1. Extended(answers, answers', S \union T, S)
    BY <1>0, RefusedExtends DEF Typed
  <2>2. S \subseteq {main.req} \intersect Protocol /\ S \union T = {main.req} \intersect inflight
    BY <1>0 DEF Typed
  <2> QED BY <2>1, <2>2 DEF Extended
<1>b. /\ main' \in MainType /\ main'.pc = "idle" /\ main'.req = None /\ main'.kid = 0
         /\ main.pc = "owed"
      /\ inflight' = inflight \ {main.req} /\ accepted' = inflight' \intersect Calls
  BY <1>0, MainIdleFacts DEF Typed
<1>u. UNCHANGED <<disk, child, cur, launched, blocked, restarting, exit, slot, gaveUp, resetAsked,
                  trigger, depth, replay, unexpected, held, shutdown, reading, rec, asked, sent>>
  BY DEF MainFrame, supervision, tracked, client
<1>1. Flags'
  BY <1>0, <1>u, Zenon DEF Typed, Flags
<1>2. Typed'
  BY <1>0, <1>a, <1>b, <1>u, <1>1 DEF Typed, Flags, Extended
<1>3. MainInv'
  BY <1>0, <1>b, <1>u DEF MainInv
<1>4. RecInv'
  BY <1>0, <1>b, <1>u DEF RecInv, Started
<1>5. SavedInv'
  BY <1>0, <1>b, <1>u DEF SavedInv, RecInv, MainInv, Lifecycle
<1>6. CallInv'
  BY <1>0, <1>a, <1>b, <1>u DEF CallInv, Extended
<1>7. ReplayInv'
  BY <1>0, <1>b, <1>u DEF ReplayInv
<1>8. NeverForgotten'
  <2> SUFFICES ASSUME NEW q \in asked, answers'[q] = <<>>
               PROVE  q \in inflight' \union replay' \union unexpected' \union {held', main'.req, reading'}
    BY <1>u DEF NeverForgotten
  <2>1. answers[q] = <<>> /\ q \notin inflight \ (inflight \ {main.req})
    BY <1>0, <1>a DEF Extended, Typed
  <2>2. q = main.req => q \in inflight \union replay \union unexpected
    BY <1>0, <1>b, <2>1 DEF MainInv
  <2>3. q \in inflight \union replay \union unexpected \union {held, reading}
    BY <1>0, <2>1, <2>2 DEF NeverForgotten
  <2> QED BY <1>b, <1>u, <2>1, <2>3
<1> QED BY <1>2, <1>3, <1>4, <1>5, <1>6, <1>7, <1>8 DEF Inv

LEMMA AskedStep ==
    ASSUME ProxyAssumption, Inv, NEW r \in Requests, r \notin asked, main.pc = "idle", Answer(r,
           "error"), asked' = asked \union {r}, TakeFrame
    PROVE  Inv'
<1> USE ProxyAssumption DEF Requests, Children
<1>0. Typed /\ MainInv /\ RecInv /\ SavedInv /\ CallInv /\ ReplayInv /\ NeverForgotten
  BY DEF Inv
<1>a. Extended(answers, answers', {r}, {r})
  BY <1>0, ReplyNow DEF Answer, Kinds
<1>b. /\ main' \in MainType /\ main'.pc = "idle" /\ main'.req = None /\ main'.kid = 0
         /\ r \notin asked /\ asked' = asked \union {r} /\ main.req = None
  BY <1>0, MainIdleFacts DEF Answer, MainInv
<1>u. UNCHANGED <<disk, child, cur, launched, blocked, restarting, exit, slot, gaveUp, resetAsked,
                  trigger, depth, inflight, accepted, replay, unexpected, held, shutdown, reading,
                  rec, sent>>
  BY DEF Answer, TakeFrame, supervision, tracked, client
<1>1. Flags'
  BY <1>0, <1>u, Zenon DEF Typed, Flags
<1>2. Typed'
  BY <1>0, <1>a, <1>b, <1>u, <1>1 DEF Typed, Extended
<1>3. MainInv'
  BY <1>0, <1>b, <1>u DEF MainInv
<1>4. RecInv'
  BY <1>0, <1>b, <1>u DEF RecInv, Started
<1>5. SavedInv'
  BY <1>0, <1>a, <1>b, <1>u DEF SavedInv, RecInv, Typed, Lifecycle, Extended
<1>6. CallInv'
  BY <1>0, <1>a, <1>b, <1>u DEF CallInv, RecInv, SavedInv, Extended
<1>7. ReplayInv'
  BY <1>0, <1>b, <1>u DEF ReplayInv
<1>8. NeverForgotten'
  BY <1>0, <1>a, <1>b, <1>u DEF NeverForgotten, Typed, Extended
<1> QED BY <1>2, <1>3, <1>4, <1>5, <1>6, <1>7, <1>8 DEF Inv

LEMMA RefuseStep ==
    ASSUME ProxyAssumption, Inv, main.pc = "look", Answer(main.req, "error"), MainFrame,
           UNCHANGED <<child, sent>>
    PROVE  Inv'
<1> USE ProxyAssumption DEF Requests, Children
<1>0. Typed /\ MainInv /\ RecInv /\ SavedInv /\ CallInv /\ ReplayInv /\ NeverForgotten
  BY DEF Inv
<1>a. Extended(answers, answers', {main.req}, {main.req})
  BY <1>0, ReplyNow DEF Answer, Kinds
<1>b. /\ main' \in MainType /\ main'.pc = "idle" /\ main'.req = None /\ main'.kid = 0
         /\ main.req \in asked
  BY <1>0, MainIdleFacts DEF Answer, MainInv
<1>u. UNCHANGED <<disk, child, cur, launched, blocked, restarting, exit, slot, gaveUp, resetAsked,
                  trigger, depth, inflight, accepted, replay, unexpected, held, shutdown, reading,
                  rec, asked, sent>>
  BY DEF Answer, MainFrame, supervision, tracked, client
<1>1. Flags'
  BY <1>0, <1>u, Zenon DEF Typed, Flags
<1>2. Typed'
  BY <1>0, <1>a, <1>b, <1>u, <1>1 DEF Typed, Extended
<1>3. MainInv'
  BY <1>0, <1>b, <1>u DEF MainInv
<1>4. RecInv'
  BY <1>0, <1>b, <1>u DEF RecInv, Started
<1>5. SavedInv'
  BY <1>0, <1>a, <1>b, <1>u DEF SavedInv, RecInv, Typed, Lifecycle, Extended
<1>6. CallInv'
  BY <1>0, <1>a, <1>b, <1>u DEF CallInv, MainInv, Extended
<1>7. ReplayInv'
  BY <1>0, <1>b, <1>u DEF ReplayInv
<1>8. NeverForgotten'
  BY <1>0, <1>a, <1>b, <1>u DEF NeverForgotten, Typed, Extended
<1> QED BY <1>2, <1>3, <1>4, <1>5, <1>6, <1>7, <1>8 DEF Inv

LEMMA HoldStep ==
    ASSUME ProxyAssumption, Inv, Hold, MainFrame, UNCHANGED <<child, sent>>
    PROVE  Inv'
<1> USE ProxyAssumption DEF Requests, Children
<1>0. Typed /\ MainInv /\ RecInv /\ SavedInv /\ CallInv /\ ReplayInv /\ NeverForgotten
  BY DEF Inv
<1>b. /\ main' \in MainType /\ main'.pc = "idle" /\ main'.req = None /\ main'.kid = 0
      /\ main.pc = "admit" /\ main.req \in (Calls \union Controls) \ {None} /\ main.req \in asked
      /\ held' = main.req /\ restarting' = TRUE /\ trigger' = TRUE /\ held = None /\ ~restarting
      /\ inflight = {}
  BY <1>0, MainIdleFacts DEF Hold, MainInv
<1>u. UNCHANGED <<disk, child, cur, launched, blocked, exit, slot, gaveUp, resetAsked, depth,
                  inflight, accepted, replay, unexpected, shutdown, reading, rec, asked, answers,
                  sent>>
  BY DEF Hold, MainFrame, tracked
<1>1. Flags'
  BY <1>0, <1>b, <1>u, Zenon DEF Typed, Flags
<1>2. Typed'
  BY <1>0, <1>b, <1>u, <1>1 DEF Typed
<1>3. MainInv'
  BY <1>0, <1>b, <1>u DEF MainInv
<1>4. RecInv'
  BY <1>0, <1>b, <1>u DEF RecInv, Started
<1>5. SavedInv'
  BY <1>0, <1>b, <1>u DEF SavedInv, RecInv, Lifecycle
<1>6. CallInv'
  BY <1>0, <1>b, <1>u DEF CallInv
<1>7. ReplayInv'
  BY <1>0, <1>b, <1>u DEF ReplayInv
<1>8. NeverForgotten'
  BY <1>0, <1>b, <1>u DEF NeverForgotten
<1> QED BY <1>2, <1>3, <1>4, <1>5, <1>6, <1>7, <1>8 DEF Inv

LEMMA AdmittingStep ==
    ASSUME ProxyAssumption, Inv, NEW r \in Requests, Admissible,
           main' = [pc |-> "admit", req |-> r, kid |-> 0],
           UNCHANGED <<supervision, tracked, held, answers>>,
           (r \in Controls /\ main.pc = "idle") \/ (r \in Calls /\ main.pc = "look" /\ main.req = r),
           asked' = asked \union {r}, TakeFrame
    PROVE  Inv'
<1> USE ProxyAssumption DEF Requests, Children
<1>0. Typed /\ MainInv /\ RecInv /\ SavedInv /\ CallInv /\ ReplayInv /\ NeverForgotten
  BY DEF Inv
<1>b. /\ main' \in MainType /\ main'.pc = "admit" /\ main'.req = r /\ main'.kid = 0
      /\ r \in (Controls \union Calls) \ {None} /\ held = None /\ ~restarting /\ inflight = {}
      /\ asked' = asked \union {r}
      /\ main.req = r \/ (main.pc = "idle" /\ r \in Controls)
  BY <1>0 DEF Admissible, Typed, MainType, MainPcs
<1>u. UNCHANGED <<disk, child, cur, launched, blocked, restarting, exit, slot, gaveUp, resetAsked,
                  trigger, depth, inflight, accepted, replay, unexpected, held, shutdown, reading,
                  rec, answers, sent>>
  BY DEF TakeFrame, supervision, tracked
<1>1. Flags'
  BY <1>0, <1>u, Zenon DEF Typed, Flags
<1>2. Typed'
  BY <1>0, <1>b, <1>u, <1>1 DEF Typed
<1>3. MainInv'
  BY <1>0, <1>b, <1>u DEF MainInv
<1>4. RecInv'
  BY <1>0, <1>b, <1>u DEF RecInv, Started
<1>5. SavedInv'
  BY <1>0, <1>b, <1>u DEF SavedInv, MainInv
<1>6. CallInv'
  <2>1. \A q \in Calls : sent[q] > 0 \/ HasError(answers[q]) => q # r
    BY <1>0, <1>b DEF CallInv
  <2> QED BY <1>0, <1>b, <1>u, <2>1 DEF CallInv
<1>7. ReplayInv'
  BY <1>0, <1>b, <1>u DEF ReplayInv
<1>8. NeverForgotten'
  BY <1>0, <1>b, <1>u DEF NeverForgotten, MainInv
<1> QED BY <1>2, <1>3, <1>4, <1>5, <1>6, <1>7, <1>8 DEF Inv

LEMMA LookedStep ==
    ASSUME ProxyAssumption, Inv, NEW r \in Requests \ Controls, r \notin asked, main.pc = "idle",
           held = None, NEW kid \in {0, cur},
           main' = [pc |-> "look", req |-> r, kid |-> kid], asked' = asked \union {r},
           TakeFrame, UNCHANGED <<supervision, tracked, held, answers>>
    PROVE  Inv'
<1> USE ProxyAssumption DEF Requests, Children
<1>0. Typed /\ MainInv /\ RecInv /\ SavedInv /\ CallInv /\ ReplayInv /\ NeverForgotten
  BY DEF Inv
<1>b. /\ main' \in MainType /\ main'.pc = "look" /\ main'.req = r /\ main'.kid \in {0, cur}
         /\ r # None /\ r \in Calls \union Protocol
      /\ r \notin asked /\ asked' = asked \union {r} /\ held = None
  BY <1>0 DEF MainType, MainPcs, Typed
<1>u. UNCHANGED <<disk, child, cur, launched, blocked, restarting, exit, slot, gaveUp, resetAsked,
                  trigger, depth, inflight, accepted, replay, unexpected, held, shutdown, reading,
                  rec, answers, sent>>
  BY DEF TakeFrame, supervision, tracked, client
<1>1. Flags'
  BY <1>0, <1>u, Zenon DEF Typed, Flags
<1>2. Typed'
  BY <1>0, <1>b, <1>u, <1>1 DEF Typed
<1>3. MainInv'
  <2>1. r \notin inflight \union replay \union unexpected
    BY <1>0, <1>b DEF SavedInv
  <2> QED BY <1>0, <1>b, <1>u, <1>2, <2>1 DEF MainInv, RecInv, Started, Typed, MainType, RecType
<1>4. RecInv'
  BY <1>0, <1>b, <1>u DEF RecInv, Started
<1>5. SavedInv'
  BY <1>0, <1>b, <1>u DEF SavedInv
<1>6. CallInv'
  BY <1>0, <1>b, <1>u DEF CallInv
<1>7. ReplayInv'
  BY <1>0, <1>b, <1>u DEF ReplayInv, Typed
<1>8. NeverForgotten'
  BY <1>0, <1>b, <1>u DEF NeverForgotten, MainInv
<1> QED BY <1>2, <1>3, <1>4, <1>5, <1>6, <1>7, <1>8 DEF Inv

LEMMA WakeStep ==
    ASSUME ProxyAssumption, Inv, Wake, RecFrame, UNCHANGED sent
    PROVE  Inv'
<1> USE ProxyAssumption DEF Requests, Children
<1>0. Typed /\ MainInv /\ RecInv /\ SavedInv /\ CallInv /\ ReplayInv /\ NeverForgotten
  BY DEF Inv
<1>b. /\ rec' \in RecType /\ rec.pc = "idle" /\ trigger' = FALSE
      /\ \/ held # None /\ rec'.pc = "prepare" /\ rec'.why = "refresh"
         \/ rec'.pc = "reset" /\ rec'.why = "none" /\ gaveUp
         \/ rec'.pc = "decide" /\ rec'.why = "none"
  <2>1. /\ {"prepare", "reset", "decide"} \subseteq RecPcs /\ {"refresh", "none"} \subseteq Whys
    BY DEF RecPcs, Whys
  <2>2. \/ held # None /\ rec' = RecGo("prepare", "refresh")
        \/ gaveUp /\ rec' = RecGo("reset", "none")
        \/ rec' = RecGo("decide", "none")
    BY DEF Wake
  <2> QED BY <1>0, <2>1, <2>2, RecGoFacts DEF Wake
<1>u. UNCHANGED <<disk, child, cur, launched, blocked, restarting, exit, slot, gaveUp, resetAsked,
                  depth, inflight, accepted, replay, unexpected, held, shutdown, main, reading,
                  asked, answers, sent>>
  BY DEF Wake, RecFrame, tracked
<1>1. Flags'
  BY <1>0, <1>b, <1>u, Zenon DEF Typed, Flags
<1>2. Typed'
  BY <1>0, <1>b, <1>u, <1>1 DEF Typed
<1>3. MainInv'
  BY <1>0, <1>b, <1>u DEF MainInv
<1>4. RecInv'
  BY <1>0, <1>b, <1>u DEF RecInv, Started, Lifecycle, Preparing, Failing
<1>5. SavedInv'
  BY <1>0, <1>b, <1>u DEF SavedInv, Ending, Failing
<1>6. CallInv'
  BY <1>0, <1>b, <1>u DEF CallInv
<1>7. ReplayInv'
  BY <1>0, <1>b, <1>u DEF ReplayInv
<1>8. NeverForgotten'
  BY <1>0, <1>b, <1>u DEF NeverForgotten
<1> QED BY <1>2, <1>3, <1>4, <1>5, <1>6, <1>7, <1>8 DEF Inv

LEMMA NoResetStep ==
    ASSUME ProxyAssumption, Inv, rec.pc \in {"reset", "decide"}, resetAsked' \in BOOLEAN,
           rec' = RecGo("decide", "none") \/ rec' = RecIdle,
           UNCHANGED <<cur, restarting, exit, slot, gaveUp, trigger, depth, tracked, answers, held,
                       shutdown, child, launched, blocked>>, RecFrame, UNCHANGED sent
    PROVE  Inv'
<1> USE ProxyAssumption DEF Requests, Children
<1>0. Typed /\ MainInv /\ RecInv /\ SavedInv /\ CallInv /\ ReplayInv /\ NeverForgotten
  BY DEF Inv
<1>b. rec' \in RecType /\ rec'.pc \in {"decide", "idle"} /\ rec'.why = "none"
  BY <1>0, RecGoFacts, RecIdleFacts DEF RecPcs, Whys
<1>u. UNCHANGED <<disk, child, cur, launched, blocked, restarting, exit, slot, gaveUp, trigger,
                  depth, inflight, accepted, replay, unexpected, held, shutdown, main, reading,
                  asked, answers, sent>>
  BY DEF RecFrame, tracked
<1>1. Flags'
  BY <1>0, <1>u, Zenon DEF Typed, Flags
<1>2. Typed'
  BY <1>0, <1>b, <1>u, <1>1 DEF Typed
<1>3. MainInv'
  BY <1>0, <1>b, <1>u DEF MainInv
<1>4. RecInv'
  BY <1>0, <1>b, <1>u DEF RecInv, Started, Lifecycle, Preparing, Failing
<1>5. SavedInv'
  BY <1>0, <1>b, <1>u DEF SavedInv, Ending, Failing
<1>6. CallInv'
  BY <1>0, <1>b, <1>u DEF CallInv
<1>7. ReplayInv'
  BY <1>0, <1>b, <1>u DEF ReplayInv
<1>8. NeverForgotten'
  BY <1>0, <1>b, <1>u DEF NeverForgotten
<1> QED BY <1>2, <1>3, <1>4, <1>5, <1>6, <1>7, <1>8 DEF Inv

\* The reset of a relay that gave up, with a refresh held or not.
LEMMA ResetStep ==
    ASSUME ProxyAssumption, Inv, rec.pc = "reset", Free, resetAsked' = FALSE,
           gaveUp' = FALSE, slot' = 0, restarting' = TRUE, exit' = "crash",
           rec' = RecGo("decide", "none"),
           UNCHANGED <<cur, trigger, depth, tracked, answers, held, shutdown, child, launched,
                       blocked>>, RecFrame, UNCHANGED sent
    PROVE  Inv'
<1> USE ProxyAssumption DEF Requests, Children
<1>0. Typed /\ MainInv /\ RecInv /\ SavedInv /\ CallInv /\ ReplayInv /\ NeverForgotten
  BY DEF Inv
<1>b. /\ rec' \in RecType /\ rec'.pc = "decide" /\ rec'.why = "none" /\ rec.pc = "reset"
      /\ main.pc # "admit" /\ cur = 0 /\ exit' \in Exits
  BY <1>0, RecGoFacts DEF RecPcs, Whys, RecInv, Exits, Free
<1>u. UNCHANGED <<disk, child, cur, launched, blocked, trigger, depth, inflight, accepted, replay,
                  unexpected, held, shutdown, main, reading, asked, answers, sent>>
  BY DEF RecFrame, tracked
<1>1. Flags'
  BY <1>0, <1>u, Zenon DEF Typed, Flags
<1>2. Typed'
  BY <1>0, <1>b, <1>u, <1>1 DEF Typed
<1>3. MainInv'
  BY <1>0, <1>b, <1>u DEF MainInv
<1>4. RecInv'
  BY <1>0, <1>b, <1>u DEF RecInv, Lifecycle, Preparing, Failing
<1>5. SavedInv'
  BY <1>0, <1>b, <1>u DEF SavedInv, Ending, Failing
<1>6. CallInv'
  BY <1>0, <1>b, <1>u DEF CallInv
<1>7. ReplayInv'
  BY <1>0, <1>b, <1>u DEF ReplayInv
<1>8. NeverForgotten'
  BY <1>0, <1>b, <1>u DEF NeverForgotten
<1> QED BY <1>2, <1>3, <1>4, <1>5, <1>6, <1>7, <1>8 DEF Inv

LEMMA CleanStep ==
    ASSUME ProxyAssumption, Inv, rec.pc = "decide", held = None, restarting,
           FailPending, FinishCycle, shutdown' = TRUE, rec' = RecIdle,
           UNCHANGED <<cur, slot, gaveUp, trigger, inflight, accepted, held, child, launched,
                       blocked>>, RecFrame, UNCHANGED sent
    PROVE  Inv'
<1> USE ProxyAssumption DEF Requests, Children
<1>0. Typed /\ MainInv /\ RecInv /\ SavedInv /\ CallInv /\ ReplayInv /\ NeverForgotten
  BY DEF Inv
<1>a. Extended(answers, answers', replay \union unexpected, replay)
  BY <1>0, RefusedExtends DEF FailPending, Typed
<1>b. /\ rec' \in RecType /\ rec'.pc = "idle" /\ rec'.why = "none" /\ rec.pc = "decide"
      /\ held = None /\ restarting /\ restarting' = FALSE
         /\ resetAsked' = FALSE /\ exit' = "none"
      /\ replay' = {} /\ unexpected' = {} /\ depth' \in {depth, 0} /\ shutdown' = TRUE
         /\ inflight' = inflight
  BY RecIdleFacts DEF FailPending, FinishCycle
<1>u. UNCHANGED <<disk, child, cur, launched, blocked, slot, gaveUp, trigger, inflight, accepted,
                  held, main, reading, asked, sent>>
  BY DEF RecFrame, supervision, tracked, client
<1>1. Flags'
  BY <1>0, <1>b, <1>u, Zenon DEF Typed, Flags
<1>2. Typed'
  BY <1>0, <1>a, <1>b, <1>u, <1>1 DEF Typed, Extended
<1>3. MainInv'
  BY <1>0, <1>a, <1>b, <1>u DEF MainInv, Typed, Extended
<1>4. RecInv'
  BY <1>0, <1>b, <1>u DEF RecInv, Preparing, Lifecycle, Failing
<1>5. SavedInv'
  BY <1>0, <1>b, <1>u DEF SavedInv
<1>6. CallInv'
  BY <1>0, <1>a, <1>b, <1>u, <1>2 DEF CallInv, SavedInv, Typed, Extended
<1>7. ReplayInv'
  BY <1>0, <1>b, <1>u DEF ReplayInv, RecInv
<1>8. NeverForgotten'
  BY <1>0, <1>a, <1>b, <1>u DEF NeverForgotten, Typed, Extended
<1> QED BY <1>2, <1>3, <1>4, <1>5, <1>6, <1>7, <1>8 DEF Inv

LEMMA LossStep ==
    ASSUME ProxyAssumption, Inv, rec.pc = "decide", held = None, restarting, slot' \in {slot, 0},
           rec' = RecGo("start", "drift") \/ rec' = RecGo("attempt", "backoff"),
           UNCHANGED <<cur, restarting, exit, gaveUp, resetAsked, trigger, depth, tracked, answers,
                       held, shutdown, child, launched, blocked>>, RecFrame, UNCHANGED sent
    PROVE  Inv'
<1> USE ProxyAssumption DEF Requests, Children
<1>0. Typed /\ MainInv /\ RecInv /\ SavedInv /\ CallInv /\ ReplayInv /\ NeverForgotten
  BY DEF Inv
<1>b. /\ rec' \in RecType /\ rec'.pc \in {"start", "attempt"} /\ rec'.why \in {"drift", "backoff"}
      /\ rec.pc = "decide" /\ held = None /\ restarting /\ slot' \in {slot, 0} /\ ~gaveUp
  BY <1>0, RecGoFacts DEF RecPcs, Whys, RecInv
<1>u. UNCHANGED <<disk, child, cur, launched, blocked, restarting, exit, gaveUp, resetAsked, trigger,
                  depth, inflight, accepted, replay, unexpected, held, shutdown, main, reading, asked,
                  answers, sent>>
  BY DEF RecFrame, supervision, tracked, client
<1>1. Flags'
  BY <1>0, <1>u, Zenon DEF Typed, Flags
<1>2. Typed'
  BY <1>0, <1>b, <1>u, <1>1 DEF Typed
<1>3. MainInv'
  BY <1>0, <1>b, <1>u DEF MainInv
<1>4. RecInv'
  BY <1>0, <1>b, <1>u DEF RecInv, Lifecycle, Failing
<1>5. SavedInv'
  BY <1>0, <1>b, <1>u DEF SavedInv, Ending, Failing
<1>6. CallInv'
  BY <1>0, <1>b, <1>u DEF CallInv
<1>7. ReplayInv'
  BY <1>0, <1>b, <1>u DEF ReplayInv
<1>8. NeverForgotten'
  BY <1>0, <1>b, <1>u DEF NeverForgotten
<1> QED BY <1>2, <1>3, <1>4, <1>5, <1>6, <1>7, <1>8 DEF Inv

-----------------------------------------------------------------------------
(* The actors, and the specification.                                        *)

LEMMA TakeStep ==
    ASSUME ProxyAssumption, Inv, NEW r \in Requests, Take(r)
    PROVE  Inv'
<1>1. /\ main.pc = "idle" /\ r \notin asked /\ asked' = asked \union {r}
      /\ TakeFrame
  BY DEF Take, TakeFrame
<1>2. \/ r \in Controls /\ Admit(r)
      \/ r \notin Controls /\ held # None /\ Answer(r, "error")
      \/ /\ r \notin Controls /\ held = None /\ UNCHANGED held
         /\ IF cur # 0 /\ Dead(cur)
            THEN /\ main' = [pc |-> "look", req |-> r, kid |-> 0]
                 /\ Claim(cur) \/ UNCHANGED <<supervision, tracked, answers>>
            ELSE /\ main' = [pc |-> "look", req |-> r, kid |-> cur]
                 /\ UNCHANGED <<supervision, tracked, answers>>
  BY DEF Take
<1>3. CASE Answer(r, "error")
  BY <1>1, <1>3, AskedStep
<1>4. CASE r \in Controls /\ Admit(r)
  BY <1>1, <1>3, <1>4, AdmittingStep DEF Admit
<1>5. CASE /\ r \notin Controls /\ held = None /\ UNCHANGED held /\ cur # 0 /\ Dead(cur)
           /\ main' = [pc |-> "look", req |-> r, kid |-> 0] /\ Claim(cur)
  BY <1>1, <1>5, TakeClaimStep
<1>6. ASSUME r \notin Controls, held = None, UNCHANGED held, NEW kid \in {0, cur},
             main' = [pc |-> "look", req |-> r, kid |-> kid],
             UNCHANGED <<supervision, tracked, answers>>
      PROVE  Inv'
  BY <1>1, <1>6, LookedStep
<1> QED BY <1>2, <1>3, <1>4, <1>5, <1>6

LEMMA OutdatedStep ==
    ASSUME ProxyAssumption, Inv, Outdated, MainFrame, UNCHANGED <<child, sent>>
    PROVE  Inv'
<1>1. main.pc = "look" /\ main.req \in Calls /\ main.req \in Requests
  BY DEF Outdated, Requests
<1>2. CASE Answer(main.req, "error")
  BY <1>1, <1>2, RefuseStep
<1>3. CASE Admissible /\ main' = [pc |-> "admit", req |-> main.req, kid |-> 0]
           /\ UNCHANGED <<supervision, tracked, held, answers>>
  <2>1. main.req \in asked
    BY <1>1 DEF Inv, MainInv
  <2>2. asked' = asked \union {main.req} /\ TakeFrame
    BY <2>1 DEF MainFrame, TakeFrame
  <2> QED BY <1>1, <1>3, <2>2, AdmittingStep
<1> QED BY <1>2, <1>3 DEF Outdated, Admit

LEMMA RecoverOwedStep ==
    ASSUME ProxyAssumption, Inv, RecoverOwed, MainFrame, UNCHANGED <<child, sent>>
    PROVE  Inv'
<1>1. main.pc = "owed" /\ main' = MainIdle /\ UNCHANGED held
  BY DEF RecoverOwed
<1>2. CASE Claim(main.kid)
  BY <1>1, <1>2, OwedClaimStep
<1>3. CASE ~Claim(main.kid)
  BY <1>1, <1>3, OwedAnsweredStep DEF RecoverOwed
<1> QED BY <1>2, <1>3

LEMMA VersionResetStep ==
    ASSUME ProxyAssumption, Inv, VersionReset, RecFrame, UNCHANGED sent
    PROVE  Inv'
<1>1. CASE UNCHANGED <<gaveUp, slot, restarting, exit>>
  BY <1>1, NoResetStep DEF VersionReset
<1>2. CASE gaveUp' = FALSE /\ slot' = 0 /\ restarting' = TRUE /\ exit' = "crash"
  BY <1>2, ResetStep DEF VersionReset
<1> QED BY <1>1, <1>2 DEF VersionReset

LEMMA DecideStep ==
    ASSUME ProxyAssumption, Inv, Decide, RecFrame, UNCHANGED sent
    PROVE  Inv'
<1>1. CASE /\ rec' = RecIdle
           /\ UNCHANGED <<restarting, exit, slot, resetAsked, replay, unexpected, depth, answers,
                          shutdown>>
  <2>1. resetAsked' \in BOOLEAN
    BY <1>1 DEF Inv, Typed, Flags
  <2> QED BY <1>1, <2>1, NoResetStep DEF Decide, tracked
<1>2. CASE /\ held = None /\ restarting /\ FailPending /\ FinishCycle /\ shutdown' = TRUE
           /\ rec' = RecIdle /\ UNCHANGED slot
  BY <1>2, CleanStep DEF Decide
<1>3. CASE /\ held = None /\ restarting /\ slot' \in {slot, 0}
           /\ rec' = RecGo("start", "drift") \/ rec' = RecGo("attempt", "backoff")
           /\ UNCHANGED <<restarting, exit, resetAsked, replay, unexpected, depth, answers,
                          shutdown>>
  BY <1>3, LossStep DEF Decide, tracked
<1> QED BY <1>1, <1>2, <1>3 DEF Decide

LEMMA ServeStep ==
    ASSUME ProxyAssumption, Inv, Serve
    PROVE  Inv'
<1>1. MainFrame
  BY DEF Serve, MainFrame
<1> QED
  BY <1>1, UnservedStep, OutdatedStep, HoldStep, CurrentStep, InsertStep, RecoverOwedStep,
     SendStep DEF Serve

LEMMA ReaderStep ==
    ASSUME ProxyAssumption, Inv, Reader
    PROVE  Inv'
<1>1. ReaderFrame
  BY DEF Reader, ReaderFrame
<1> QED BY <1>1, ReadStep, EofStep, HangStep, ForwardStep DEF Reader

LEMMA RecoveryStep ==
    ASSUME ProxyAssumption, Inv, Recovery
    PROVE  Inv'
<1>1. RecFrame
  BY DEF Recovery, RecFrame
<1> QED
  BY <1>1, WakeStep, VersionResetStep, DecideStep, AttemptStep, GiveUpStep, PrepareStep, StartChildStep, ResolveUnexpectedStep,
     PublishStep, ReplayDoneStep, ReleaseStep, AbandonStep, ReplayStep, ResumeStep DEF Recovery

LEMMA EnvironmentStep ==
    ASSUME ProxyAssumption, Inv, Environment
    PROVE  Inv'
<1>1. EnvFrame
  BY DEF Environment, EnvFrame
<1>2. \A how \in {"clean", "drift", "crash"} : how \in Exits
  BY DEF Exits
<1> QED BY <1>1, <1>2, ChildAnswersStep, ChildExitsStep, InstallStep DEF Environment

LEMMA InvInit ==
    ASSUME ProxyAssumption, Init
    PROVE  Inv
<1> USE ProxyAssumption DEF Requests, Children
<1>1. 1 \in Children /\ child \in [Children -> Process] /\ child[1].st = "up"
  BY DEF Init, NoChild, Process, States
<1>2. /\ main \in MainType /\ main.pc = "idle" /\ main.req = None /\ main.kid = 0
      /\ rec \in RecType /\ rec.pc = "idle" /\ rec.why = "none"
  BY MainIdleFacts, RecIdleFacts DEF Init
<1>3. /\ answers \in [Requests -> Seq(Kinds)] /\ sent \in [Requests -> Nat]
      /\ \A r \in Requests : sent[r] = 0 /\ ~HasError(answers[r])
  BY DEF Init, HasError
<1>4. Flags
  BY DEF Init, Flags
<1>5. Typed
  BY <1>1, <1>2, <1>3, <1>4 DEF Init, Typed
<1>6. MainInv /\ RecInv /\ SavedInv
  BY <1>1, <1>2 DEF Init, MainInv, RecInv, SavedInv, Started, Preparing, Lifecycle, Ending, Failing
<1>7. CallInv
  BY <1>2, <1>3 DEF CallInv
<1>8. ReplayInv
  BY <1>1, <1>2, <1>3 DEF Init, ReplayInv
<1>9. NeverForgotten
  BY DEF Init, NeverForgotten
<1> QED BY <1>5, <1>6, <1>7, <1>8, <1>9 DEF Inv

LEMMA InvStutters ==
    ASSUME Inv, UNCHANGED vars
    PROVE  Inv'
<1> QED
  BY DEF vars, supervision, tracked, client, Inv, Typed, Flags, MainInv, RecInv, SavedInv, CallInv,
         ReplayInv, NeverForgotten, Started

LEMMA InvNext ==
    ASSUME ProxyAssumption, Inv, [Next]_vars
    PROVE  Inv'
<1> QED
  BY InvStutters, TakeStep, ServeStep, ClientLeavesStep, ReaderStep, RecoveryStep, CrashStep,
     FlagStep, CrashedStep, EnvironmentStep DEF Next

\* The invariant holds: the parts that the main thread, the recovery thread and the claim of
\* a lost child rely on (run, _recovery_thread, _signal_recovery).
THEOREM InvHolds == Spec => []Inv
<1>1. Init => Inv
  BY InvInit, ProxyAssumption
<1>2. Inv /\ [Next]_vars => Inv'
  BY InvNext, ProxyAssumption
<1> QED BY <1>1, <1>2, PTL DEF Spec

-----------------------------------------------------------------------------
\* Until it is answered a request is tracked, saved or in a thread's hands, and a relay
\* without a child recovers, has given up, ends or has lost its recovery thread, or a
\* refresh that failed has overtaken the reset of one that gave up (run,
\* _recover_owed_client, _signal_recovery, _fail_pending_replay).
THEOREM CareHolds == Spec => []OwedIsHeld
<1>1. Inv => OwedIsHeld
  <2> SUFFICES ASSUME Inv PROVE OwedIsHeld
    OBVIOUS
  <2>1. {restarting, gaveUp, resetAsked, trigger, shutdown} \subseteq BOOLEAN
    BY Zenon DEF Inv, Typed, Flags
  <2>2. TypeOK
    BY <2>1 DEF Inv, Typed, TypeOK
  <2>3. OutageIsOwned
    BY ProxyAssumption DEF Inv, RecInv, SavedInv, OutageIsOwned, Overtaken, Ending, Failing
  <2> QED BY <2>2, <2>3 DEF Inv, OwedIsHeld
<1> QED BY <1>1, InvHolds, PTL

\* A command is sent to one child at most and none that was sent is answered with an error,
\* and replays between two answers are bounded (_signal_recovery, _replay_requests).
THEOREM SentOnceHolds == Spec => []SentOnce
<1>1. Inv => SentOnce
  <2> SUFFICES ASSUME Inv PROVE SentOnce
    OBVIOUS
  <2>1. CommandsSentOnce
    BY DEF Inv, CallInv, CommandsSentOnce
  <2>2. NoRetryInvited
    BY DEF Inv, CallInv, NoRetryInvited, HasError
  <2>3. ReplayBounded
    BY DEF Inv, ReplayInv, ReplayBounded
  <2> QED BY <2>1, <2>2, <2>3 DEF SentOnce
<1> QED BY <1>1, InvHolds, PTL

\* All other steps leave _child as it is, or take it out of service.
LEMMA OnlyPublishReplaces ==
    ASSUME [Next]_vars, cur # 0, cur' # 0, cur' # cur
    PROVE  Publish
<1>1. ~UNCHANGED vars
  BY DEF vars, supervision
<1>2. ~Claim(cur) /\ ~Claim(main.kid)
  BY DEF Claim
<1>3. ASSUME NEW r \in Requests, Take(r) PROVE FALSE
  BY <1>2, <1>3 DEF Take, Admit, Answer, supervision
<1>4. ~Serve
  BY <1>2 DEF Serve, Unserved, Outdated, Hold, Admit, Answer, Current, Insert, RecoverOwed, Send,
              supervision
<1>5. ~ClientLeaves /\ ~Crash /\ ~Flag /\ ~Crashed /\ ~Environment
  BY DEF ClientLeaves, Crash, Flag, Crashed, Environment, supervision
<1>6. ~Reader
  BY <1>2 DEF Reader, Read, Eof, Hang, Forward, supervision
<1>7. Recovery
  BY <1>1, <1>3, <1>4, <1>5, <1>6 DEF Next
<1>8. ~Wake /\ ~VersionReset /\ ~Decide
  BY DEF Wake, VersionReset, Decide
<1> QED
  BY <1>7, <1>8 DEF Recovery, Attempt, GiveUp, Prepare, StartChild, ResolveUnexpected, ReplayDone,
                    Release, Abandon, Replay, Resume, supervision

\* The child that a refresh replaces owes no answer (_start_child under the publication
\* gate, _admit_lifecycle).
THEOREM RefreshHolds == Spec => RefreshLosesNothing
<1>1. Inv /\ [Next]_vars => [cur # 0 /\ cur' # 0 /\ cur' # cur => inflight = {}
      /\ reading = None]_vars
  <2> SUFFICES ASSUME Inv, [Next]_vars, cur # 0, cur' # 0, cur' # cur
               PROVE  inflight = {} /\ reading = None
    OBVIOUS
  <2>1. Publish
    BY OnlyPublishReplaces
  <2>2. rec.pc = "publish" /\ reading = None
    BY <2>1 DEF Publish
  <2>3. held # None
    BY <2>2 DEF Inv, RecInv, Preparing
  <2> QED BY <2>2, <2>3 DEF Inv, SavedInv
<1> QED BY <1>1, InvHolds, PTL DEF Spec, RefreshLosesNothing

=============================================================================
