------------------------------ MODULE PinsProofs ------------------------------
(***************************************************************************)
(* For any attempts, disposers and inputs, any limit on the files and any  *)
(* number of faults: an operation that may be invoked has its input, what  *)
(* was retained stays, a reference goes before its operation, and an       *)
(* attempt that ends leaves none behind.  The inductive invariant says     *)
(* what each process may assume where it is (Place), what a call on its    *)
(* way to the owner may still do (Sent), and which inputs are relied on.   *)
(***************************************************************************)
EXTENDS Pins, FiniteSetTheorems, TLAPS

Locked == {"collect", "sweep", "write", "pin", "pinned", "undo", "own", "others", "unpin", "unpinned"}
Pcs == Locked \union {"start", "fail", "prepare", "prepared", "done", "failed", "reduce", "dead"}
Inputs == {Content[a] : a \in Attempts}
Where == [pc : Pcs, ns : Procs, then : {"none", "write", "fail", "done", "reduce"}, kept : SUBSET Inputs,
          ver : 0 .. 1, reply : {"none", "applied", "refused", "won", "lost"}]
Pin == [set : BOOLEAN, ver : 0 .. 2]
Calls == [who : Procs, op : {"pin", "unpin", "prepare"}, ns : Attempts, ver : 0 .. 1]

Typed ==
    /\ files \subseteq Inputs /\ IsFiniteSet(files) /\ Cardinality(files) <= MaxFiles
    /\ pin \in [Attempts -> Pin] /\ \A a \in Attempts : pin[a].set <=> pin[a].ver = 1
    /\ desc \in [RequestIds -> Attempts \union {None, Gone}]
    /\ \A r \in RequestIds : desc[r] \in Attempts => Req[desc[r]] = r
    /\ disposing \subseteq RequestIds /\ lock \in Procs \union {None}
    /\ wire \subseteq Calls /\ at \in [Procs -> Where]

\* The operation that an attempt made is gone or admits nothing any more.
Closed(a) == desc[Req[a]] = Gone \/ (desc[Req[a]] = a /\ Req[a] \in disposing)
Preparing(a) == \E m \in wire : m.op = "prepare" /\ m.ns = a
\* What the attempt has retained is wanted, or may yet be.
Relied(a) ==
    /\ at[a].pc \in {"prepare", "prepared"} \/ Preparing(a) \/ desc[Req[a]] = a
    /\ ~ Closed(a)
Held == \A a \in Attempts : Relied(a) => Has(a)
Prepares == \A a \in Attempts : desc[Req[a]] = a => pin[a].ver # 0

Releases(p) ==
    \/ at[p].pc \in {"fail", "own", "others", "unpin", "unpinned", "reduce"}
    \/ at[p].pc = "sweep" /\ at[p].then \in {"done", "reduce"}
\* The reference of the namespace was found or made to be unset.
Released(p) ==
    \/ at[p].pc = "others" /\ at[p].ver = 0
    \/ at[p].pc = "unpinned" /\ at[p].reply # "none"
    \/ at[p].pc = "sweep" /\ at[p].then \in {"done", "reduce"}
    \/ at[p].pc = "reduce"
Fresh(a) ==
    at[a].pc \in {"start", "collect", "write", "pin"} \/ (at[a].pc = "sweep" /\ at[a].then = "write")

\* What an attempt and a disposer may assume where they are.
Attempting(a) ==
    /\ at[a].ns = a /\ at[a].pc # "reduce" /\ (at[a].pc = "sweep" => at[a].then \in {"write", "fail", "done"})
    /\ at[a].pc \notin {"prepared", "done", "failed", "dead"} => desc[Req[a]] # a
    /\ at[a].pc = "prepared" /\ at[a].reply \notin {"none", "won"} => desc[Req[a]] # a
    /\ Fresh(a) => pin[a].ver = 0
    /\ at[a].pc \in {"pin", "pinned"} => Content[a] \in files
    /\ at[a].pc = "pinned" /\ at[a].reply = "applied" => pin[a].set \/ desc[Req[a]] = Gone
    /\ at[a].pc = "pinned" /\ at[a].reply = "refused" => ~ pin[a].set
    /\ at[a].pc = "done" /\ pin[a].set => desc[Req[a]] = a
Disposing(d) ==
    /\ at[d].pc \in {"start", "fail", "own", "others", "unpin", "unpinned", "sweep", "reduce", "dead"}
    /\ at[d].pc = "sweep" => at[d].then = "reduce"
    /\ Releases(d) => at[d].ns \in Attempts /\ Closed(at[d].ns) /\ pin[at[d].ns].ver # 0
Place(p) ==
    /\ at[p].pc \in Locked <=> lock = p
    /\ at[p].pc \in {"unpin", "unpinned", "sweep"} =>
          \A a \in Attempts : Relied(a) => Content[a] \in at[p].kept
    /\ at[p].pc \in {"unpin", "unpinned"} =>
          at[p].ver = 1 /\ at[p].then = (IF p \in Disposers THEN "reduce" ELSE "done")
    /\ at[p].pc \in {"others", "unpin", "unpinned"} /\ at[p].ver # 0 => pin[at[p].ns].ver # 0
    /\ Released(p) => ~ pin[at[p].ns].set
Places ==
    /\ \A p \in Procs : Place(p)
    /\ \A a \in Attempts : Attempting(a)
    /\ \A d \in Disposers : Disposing(d)

\* A call that was sent is the one its caller waits for, if the caller is there.
Waits(m, pc) == at[m.who].pc = "dead" \/ (at[m.who].pc = pc /\ at[m.who].reply = "none" /\ at[m.who].ns = m.ns)
Expected(m) ==
    /\ m.op = "pin" => m.who = m.ns /\ m.ver = 0 /\ pin[m.ns].ver = 0 /\ Waits(m, "pinned")
    /\ m.op = "prepare" => m.who = m.ns /\ m.ver = 0 /\ Waits(m, "prepared") /\ desc[Req[m.ns]] # m.ns
    /\ m.op = "unpin" =>
          /\ m.ver = 1 /\ pin[m.ns].ver # 0 /\ Waits(m, "unpinned")
          /\ m.who = m.ns => ~ Preparing(m.ns) /\ desc[Req[m.ns]] # m.ns
          /\ m.who # m.ns => Closed(m.ns) /\ m.who \in Disposers
Sent == \A m \in wire : Expected(m)

IInv == Typed /\ Held /\ Prepares /\ Places /\ Sent

\* The constants, as the steps below need them.
LEMMA Constants ==
    /\ Attempts \subseteq Procs /\ Disposers \subseteq Procs /\ \A p \in Procs : p \in Disposers <=> p \notin Attempts
    /\ None \notin Procs /\ None \notin Attempts /\ Gone \notin Attempts /\ None # Gone
    /\ \A a \in Attempts : Req[a] \in RequestIds /\ Content[a] \in Inputs
  BY PinsAssumption DEF Procs, Inputs

\* A process whose caller waits for nothing has sent nothing that is on its way.
LEMMA NothingSent ==
    ASSUME IInv, NEW p \in Procs, at[p].pc # "dead",
           at[p].pc \notin {"pinned", "prepared", "unpinned"} \/ at[p].reply # "none"
    PROVE  \A m \in wire : m.who # p
  BY DEF IInv, Typed, Sent, Expected, Waits, Calls

\* A step of one process that changes nothing of the owner: what it has to
\* respect for the others.
LEMMA LocalStep ==
    ASSUME IInv, NEW p \in Procs, NEW x \in Where,
           at' = [at EXCEPT ![p] = x], UNCHANGED <<pin, desc, disposing>>,
           files' \subseteq Inputs, IsFiniteSet(files'), Cardinality(files') <= MaxFiles,
           files' = files \/ lock = p,
           \A a \in Attempts : Relied(a) => Content[a] \in files',
           lock' \in Procs \union {None}, \A q \in Procs \ {p} : lock = q <=> lock' = q,
           wire \subseteq wire', \A m \in wire' \ wire : m \in Calls /\ m.who = p /\ Expected(m)',
           \A m \in wire : m.who = p => x.pc = "dead" /\ wire' = wire,
           \A a \in Attempts : Relied(a)' => Relied(a) \/ (a = p /\ lock = p /\ Has(a)'),
           Place(p)', p \in Attempts => Attempting(p)', p \in Disposers => Disposing(p)'
    PROVE  IInv'
<1>1. at' \in [Procs -> Where] /\ at'[p] = x /\ \A q \in Procs \ {p} : at'[q] = at[q]
  BY DEF IInv, Typed
<1>2. Typed'
  BY <1>1 DEF IInv, Typed
<1>3. Held'
  BY DEF IInv, Held, Has
<1>4. Prepares'
  BY DEF IInv, Prepares
<1>5. ASSUME NEW q \in Procs, q # p PROVE Place(q)'
  <2>1. Place(q) /\ at'[q] = at[q] /\ (lock' = q <=> lock = q)
    BY <1>1, <1>5 DEF IInv, Places
  <2>2. at[q].pc \in {"unpin", "unpinned", "sweep"} => \A a \in Attempts : Relied(a)' => Content[a] \in at[q].kept
    BY <2>1, <1>5 DEF Place, Locked
  <2> QED BY <2>1, <2>2 DEF Place, Released
<1>6. ASSUME NEW a \in Attempts, a # p PROVE Attempting(a)'
  <2>1. Attempting(a) /\ Place(a) /\ at'[a] = at[a]
    BY <1>1, <1>6, Constants DEF IInv, Places
  <2>2. at[a].pc \in {"pin", "pinned"} => Content[a] \in files'
    BY <2>1, <1>6 DEF Attempting, Place, Locked
  <2> QED BY <2>1, <2>2 DEF Attempting, Fresh
<1>7. ASSUME NEW d \in Disposers, d # p PROVE Disposing(d)'
  <2>1. Disposing(d) /\ at'[d] = at[d]
    BY <1>1, <1>7, Constants DEF IInv, Places
  <2> QED BY <2>1 DEF Disposing, Releases, Closed
<1>8. Places'
  BY <1>5, <1>6, <1>7 DEF Places
<1>9. ASSUME NEW m \in wire PROVE Expected(m)'
  <2>1. Expected(m) /\ m \in Calls
    BY DEF IInv, Typed, Sent
  <2>2. m.who \in Procs /\ m.ns \in Attempts /\ (m.who # p => at'[m.who] = at[m.who])
    BY <1>1, <2>1 DEF Calls
  <2>3. Waits(m, "pinned") => Waits(m, "pinned")'
    BY <1>1, <2>2 DEF Waits
  <2>4. Waits(m, "prepared") => Waits(m, "prepared")'
    BY <1>1, <2>2 DEF Waits
  <2>5. Waits(m, "unpinned") => Waits(m, "unpinned")'
    BY <1>1, <2>2 DEF Waits
  <2>6. m.who = m.ns /\ ~ Preparing(m.ns) => ~ Preparing(m.ns)'
    BY DEF Preparing, Expected
  <2>7. Closed(m.ns) => Closed(m.ns)'
    BY DEF Closed
  <2> QED BY <2>1, <2>3, <2>4, <2>5, <2>6, <2>7 DEF Expected
<1>10. Sent'
  BY <1>9 DEF Sent
<1> QED BY <1>2, <1>3, <1>4, <1>8, <1>10 DEF IInv

\* A step that changes nothing but the process and who holds the lock.
LEMMA QuietStep ==
    ASSUME IInv, NEW p \in Procs, NEW x \in Where,
           at' = [at EXCEPT ![p] = x], UNCHANGED <<files, pin, desc, disposing, wire>>,
           lock' \in Procs \union {None}, \A q \in Procs \ {p} : lock = q <=> lock' = q,
           \A m \in wire : m.who = p => x.pc = "dead",
           x.pc \in {"prepare", "prepared"} => at[p].pc \in {"prepare", "prepared"},
           Place(p)', p \in Attempts => Attempting(p)', p \in Disposers => Disposing(p)'
    PROVE  IInv'
<1>1. \A a \in Attempts : at'[a].pc \in {"prepare", "prepared"} => at[a].pc \in {"prepare", "prepared"}
  BY Constants DEF IInv, Typed
<1>2. \A a \in Attempts : Relied(a)' => Relied(a)
  BY <1>1 DEF Relied, Preparing, Closed
<1>3. \A a \in Attempts : Relied(a) => Content[a] \in files'
  BY DEF IInv, Held, Has
<1>4. files' \subseteq Inputs /\ IsFiniteSet(files') /\ Cardinality(files') <= MaxFiles
  BY DEF IInv, Typed
<1> QED BY <1>2, <1>3, <1>4, LocalStep

\* Where a process is when it goes on.
Moved(p, pc) == [at[p] EXCEPT !.pc = pc, !.reply = "none"]
LEMMA GoMoves ==
    ASSUME IInv, NEW p \in Procs, NEW pc \in Pcs
    PROVE  /\ Moved(p, pc) \in Where /\ Moved(p, pc).pc = pc /\ Moved(p, pc).reply = "none"
           /\ Moved(p, pc).ns = at[p].ns /\ Moved(p, pc).then = at[p].then
           /\ Moved(p, pc).kept = at[p].kept /\ Moved(p, pc).ver = at[p].ver
           /\ Go(p, pc) = [at EXCEPT ![p] = Moved(p, pc)]
           /\ at' = Go(p, pc) => at'[p] = Moved(p, pc)
<1>1. at[p] \in Where /\ at \in [Procs -> Where]
  BY DEF IInv, Typed
<1>2. /\ Moved(p, pc) \in Where /\ Moved(p, pc).pc = pc /\ Moved(p, pc).reply = "none"
      /\ Moved(p, pc).ns = at[p].ns /\ Moved(p, pc).then = at[p].then
      /\ Moved(p, pc).kept = at[p].kept /\ Moved(p, pc).ver = at[p].ver
  BY <1>1 DEF Moved, Where
<1>3. Go(p, pc) = [at EXCEPT ![p] = Moved(p, pc)]
  BY <1>1 DEF Moved, Go, Where
<1>4. at' = Go(p, pc) => at'[p] = Moved(p, pc)
  BY <1>1, <1>3
<1> QED BY <1>2, <1>3, <1>4

\* The lock goes from nobody to the process, or from the process to nobody.
LEMMA LockMoves ==
    ASSUME IInv, NEW p \in Procs, lock \in {p, None}, lock' \in {p, None}
    PROVE  lock' \in Procs \union {None} /\ \A q \in Procs \ {p} : lock = q <=> lock' = q
  BY Constants

LEMMA StartKeeps == ASSUME IInv, NEW a \in Attempts, Start(a) PROVE IInv'
<1>1. a \in Procs /\ a \notin Disposers /\ Attempting(a) /\ Place(a) /\ at[a].pc = "start"
  BY Constants DEF IInv, Places, Start
<1>2. \A m \in wire : m.who # a
  BY <1>1, NothingSent
<1>3. UNCHANGED <<files, pin, desc, disposing, wire>>
  BY DEF Start, owner
<1>4. CASE desc[Req[a]] # None /\ at' = Go(a, "done") /\ UNCHANGED lock
  <2>1. at'[a] = Moved(a, "done") /\ at' = [at EXCEPT ![a] = Moved(a, "done")] /\ Moved(a, "done") \in Where
        /\ Moved(a, "done").pc = "done" /\ Moved(a, "done").ns = at[a].ns
    BY <1>1, <1>4, GoMoves DEF Pcs
  <2>2. Place(a)'
    BY <1>1, <1>3, <1>4, <2>1 DEF Place, Released, Locked
  <2>3. Attempting(a)'
    BY <1>1, <1>3, <2>1 DEF Attempting, Fresh, IInv, Typed
  <2> QED BY <1>1, <1>2, <1>3, <1>4, <2>1, <2>2, <2>3, QuietStep DEF IInv, Typed
<1>5. CASE lock = None /\ lock' = a /\ at' = Go(a, "collect")
  <2>1. at'[a] = Moved(a, "collect") /\ at' = [at EXCEPT ![a] = Moved(a, "collect")] /\ Moved(a, "collect") \in Where
        /\ Moved(a, "collect").pc = "collect" /\ Moved(a, "collect").ns = at[a].ns
    BY <1>1, <1>5, GoMoves DEF Pcs, Locked
  <2>2. Place(a)'
    BY <1>5, <2>1 DEF Place, Released, Locked
  <2>3. Attempting(a)'
    BY <1>1, <1>3, <2>1 DEF Attempting, Fresh
  <2> QED BY <1>1, <1>2, <1>3, <1>5, <2>1, <2>2, <2>3, QuietStep, LockMoves
<1> QED BY <1>4, <1>5 DEF Start

LEMMA LockKeeps == ASSUME IInv, NEW p \in Procs, Lock(p, "fail", "own") PROVE IInv'
<1>1. /\ Place(p) /\ at[p].pc = "fail" /\ lock = None /\ lock' = p /\ at' = Go(p, "own")
      /\ UNCHANGED <<files, pin, desc, disposing, wire>>
  BY DEF IInv, Places, Lock, owner
<1>2. at'[p] = Moved(p, "own") /\ at' = [at EXCEPT ![p] = Moved(p, "own")] /\ Moved(p, "own") \in Where
      /\ Moved(p, "own").pc = "own" /\ Moved(p, "own").ns = at[p].ns
  BY <1>1, GoMoves DEF Pcs, Locked
<1>3. Place(p)'
  BY <1>1, <1>2 DEF Place, Released, Locked
<1>4. ASSUME p \in Attempts PROVE Attempting(p)'
  BY <1>1, <1>2, <1>4 DEF IInv, Places, Attempting, Fresh
<1>5. ASSUME p \in Disposers PROVE Disposing(p)'
  BY <1>1, <1>2, <1>5 DEF IInv, Places, Disposing, Releases, Closed
<1>6. \A m \in wire : m.who # p
  BY <1>1, NothingSent
<1> QED BY <1>1, <1>2, <1>3, <1>4, <1>5, <1>6, QuietStep, LockMoves

LEMMA CollectKeeps == ASSUME IInv, NEW a \in Attempts, Collect(a) PROVE IInv'
<1> DEFINE x == [at[a] EXCEPT !.pc = "sweep", !.kept = Referenced,
                              !.then = IF at[a].pc = "collect" THEN "write" ELSE "fail"]
<1>1. a \in Procs /\ a \notin Disposers /\ Attempting(a) /\ Place(a) /\ at[a].pc \in {"collect", "undo"}
      /\ UNCHANGED <<files, pin, desc, disposing, lock, wire>>
  BY Constants DEF IInv, Places, Collect, owner
<1>2. Referenced \in SUBSET Inputs
  BY Constants DEF Referenced
<1>3. at[a] \in Where /\ at \in [Procs -> Where]
  BY <1>1 DEF IInv, Typed
<1>4. /\ x \in Where /\ x.pc = "sweep" /\ x.kept = Referenced /\ x.ns = at[a].ns /\ x.ver = at[a].ver
      /\ x.then = IF at[a].pc = "collect" THEN "write" ELSE "fail"
  BY <1>2, <1>3 DEF Where, Pcs, Locked
<1>5. at' = [at EXCEPT ![a] = x]
  BY <1>1, <1>3 DEF Collect, Where
<1> HIDE DEF x
<1>6. at'[a] = x
  BY <1>1, <1>3, <1>5
<1>7. \A b \in Attempts : Relied(b)' => Content[b] \in Referenced
  <2>1. \A b \in Attempts : Relied(b)' => Relied(b)
    BY <1>1, <1>3, <1>4, <1>5, Constants DEF Relied, Preparing, Closed
  <2> QED BY <2>1 DEF IInv, Held, Has, Referenced
<1>8. Place(a)'
  BY <1>1, <1>4, <1>6, <1>7 DEF Place, Released, Locked
<1>9. Attempting(a)'
  BY <1>1, <1>4, <1>6 DEF Attempting, Fresh
<1>10. \A m \in wire : m.who # a
  BY <1>1, NothingSent
<1> QED BY <1>1, <1>4, <1>5, <1>8, <1>9, <1>10, QuietStep DEF IInv, Typed

LEMMA PreparedKeeps == ASSUME IInv, NEW a \in Attempts, Prepared(a) PROVE IInv'
<1>1. PICK pc \in {"done", "fail", "failed"} :
        /\ at' = Go(a, pc) /\ (pc = "done" => desc[Req[a]] = a)
        /\ pc = "fail" => at[a].reply # "won" \/ desc[Req[a]] # a
  BY DEF Prepared
<1>2. /\ a \in Procs /\ a \notin Disposers /\ Attempting(a) /\ Place(a)
      /\ at[a].pc = "prepared" /\ at[a].reply # "none"
      /\ UNCHANGED <<files, pin, desc, disposing, lock, wire>>
  BY Constants DEF IInv, Places, Prepared, owner
<1>3. at'[a] = Moved(a, pc) /\ at' = [at EXCEPT ![a] = Moved(a, pc)] /\ Moved(a, pc) \in Where
      /\ Moved(a, pc).pc = pc /\ Moved(a, pc).ns = at[a].ns
  BY <1>1, <1>2, GoMoves DEF Pcs
<1> HIDE DEF Moved
<1>4. pc = "fail" => desc[Req[a]] # a
  BY <1>1, <1>2 DEF Attempting
<1>5. Place(a)'
  BY <1>1, <1>2, <1>3 DEF Place, Released, Locked
<1>6. Attempting(a)'
  BY <1>1, <1>2, <1>3, <1>4 DEF Attempting, Fresh
<1>7. \A m \in wire : m.who # a
  BY <1>2, NothingSent
<1> QED BY <1>1, <1>2, <1>3, <1>5, <1>6, <1>7, QuietStep DEF IInv, Typed

LEMMA OwnKeeps == ASSUME IInv, NEW p \in Procs, Own(p) PROVE IInv'
<1> DEFINE v == IF pin[at[p].ns].set THEN pin[at[p].ns].ver ELSE 0
           x == [at[p] EXCEPT !.pc = "others", !.ver = v]
<1>1. Place(p) /\ at[p].pc = "own" /\ UNCHANGED <<files, pin, desc, disposing, lock, wire>>
  BY DEF IInv, Places, Own, owner
<1>2. at[p].ns \in Attempts
  BY <1>1, Constants DEF IInv, Places, Attempting, Disposing, Releases
<1>3. /\ at[p] \in Where /\ at \in [Procs -> Where]
      /\ pin[at[p].ns].set => pin[at[p].ns].ver = 1
  BY <1>2 DEF IInv, Typed
<1>4. v \in 0 .. 1 /\ (v = 0 => ~ pin[at[p].ns].set) /\ (v # 0 => pin[at[p].ns].ver # 0)
  BY <1>3
<1> HIDE DEF v
<1>5. x \in Where /\ x.pc = "others" /\ x.ns = at[p].ns /\ x.ver = v
  BY <1>3, <1>4 DEF Where, Pcs, Locked
<1>6. at' = [at EXCEPT ![p] = x]
  BY <1>3 DEF Own, Where, v
<1> HIDE DEF x
<1>7. at'[p] = x
  BY <1>3, <1>6
<1>8. Place(p)'
  BY <1>1, <1>4, <1>5, <1>7 DEF Place, Released, Locked
<1>9. ASSUME p \in Attempts PROVE Attempting(p)'
  BY <1>1, <1>5, <1>7, <1>9 DEF IInv, Places, Attempting, Fresh
<1>10. ASSUME p \in Disposers PROVE Disposing(p)'
  BY <1>1, <1>5, <1>7, <1>10 DEF IInv, Places, Disposing, Releases, Closed
<1>11. \A m \in wire : m.who # p
  BY <1>1, NothingSent
<1> QED BY <1>1, <1>5, <1>6, <1>8, <1>9, <1>10, <1>11, QuietStep DEF IInv, Typed

\* What is released is not relied on.
LEMMA ReleasedNotRelied ==
    ASSUME IInv, NEW p \in Procs, Releases(p)
    PROVE  at[p].ns \in Attempts /\ ~ Relied(at[p].ns)
<1>1. CASE p \in Attempts
  <2>1. at[p].ns = p /\ at[p].pc \notin {"prepare", "prepared", "done", "dead"} /\ desc[Req[p]] # p
    BY <1>1 DEF IInv, Places, Attempting, Releases
  <2>2. ~ Preparing(p)
    BY <2>1, <1>1 DEF IInv, Sent, Expected, Waits, Preparing
  <2> QED BY <1>1, <2>1, <2>2 DEF Relied
<1>2. CASE p \in Disposers
  BY <1>2 DEF IInv, Places, Disposing, Relied
<1> QED BY <1>1, <1>2, Constants

LEMMA OthersKeeps == ASSUME IInv, NEW p \in Procs, Others(p) PROVE IInv'
<1> DEFINE K == {Content[b] : b \in {b \in Attempts : pin[b].set /\ (b = at[p].ns => at[p].ver = 0)}}
           x == [at[p] EXCEPT !.kept = K, !.pc = IF at[p].ver = 0 THEN "sweep" ELSE "unpin",
                              !.then = IF p \in Disposers THEN "reduce" ELSE "done"]
<1>1. Place(p) /\ at[p].pc = "others" /\ UNCHANGED <<files, pin, desc, disposing, lock, wire>>
  BY DEF IInv, Places, Others, owner
<1>2. at[p].ns \in Attempts /\ ~ Relied(at[p].ns)
  BY <1>1, ReleasedNotRelied DEF Releases
<1>3. at[p] \in Where /\ at \in [Procs -> Where]
  BY DEF IInv, Typed
<1>4. K \in SUBSET Inputs
  BY Constants
<1>5. at' = [at EXCEPT ![p] = x]
  BY <1>3 DEF Others, Where
<1>6. \A b \in Attempts : Relied(b) => Content[b] \in K
  BY <1>2 DEF IInv, Held, Has
<1> HIDE DEF K
<1>7. /\ x \in Where /\ x.ns = at[p].ns /\ x.kept = K /\ x.ver = at[p].ver
      /\ x.pc = (IF at[p].ver = 0 THEN "sweep" ELSE "unpin")
      /\ x.then = (IF p \in Disposers THEN "reduce" ELSE "done")
  BY <1>3, <1>4 DEF Where, Pcs, Locked
<1> HIDE DEF x
<1>8. at'[p] = x
  BY <1>3, <1>5
<1>9. \A b \in Attempts : Relied(b)' => Content[b] \in K
  BY <1>1, <1>3, <1>5, <1>6, <1>7, <1>8, Constants DEF Relied, Preparing, Closed
<1>10. Place(p)'
  <2>1. at[p].ver \in 0 .. 1 /\ (at[p].ver # 0 => pin[at[p].ns].ver # 0)
    BY <1>1, <1>3 DEF Place, Where
  <2> QED BY <1>1, <1>7, <1>8, <1>9, <2>1 DEF Place, Released, Locked
<1>11. ASSUME p \in Attempts PROVE Attempting(p)'
  BY <1>1, <1>7, <1>8, <1>11, Constants DEF IInv, Places, Attempting, Fresh
<1>12. ASSUME p \in Disposers PROVE Disposing(p)'
  BY <1>1, <1>7, <1>8, <1>12 DEF IInv, Places, Disposing, Releases, Closed
<1>13. \A m \in wire : m.who # p
  BY <1>1, NothingSent
<1> QED BY <1>1, <1>5, <1>7, <1>10, <1>11, <1>12, <1>13, QuietStep DEF IInv, Typed

LEMMA UnpinnedKeeps == ASSUME IInv, NEW p \in Procs, Unpinned(p) PROVE IInv'
<1>1. /\ Place(p) /\ at[p].pc = "unpinned" /\ at[p].reply # "none" /\ lock = p
      /\ UNCHANGED <<files, pin, desc, disposing, wire>>
  BY DEF IInv, Places, Place, Locked, Unpinned, owner
<1>2. \A m \in wire : m.who # p
  BY <1>1, NothingSent
<1>3. PICK pc \in {"sweep", "start", "failed"} :
        /\ at' = Go(p, pc) /\ lock' = (IF pc = "sweep" THEN p ELSE None)
        /\ pc = "start" <=> pc # "sweep" /\ p \in Disposers
  BY <1>1 DEF Unpinned, Unlock, Ended
<1>4. /\ at'[p] = Moved(p, pc) /\ at' = [at EXCEPT ![p] = Moved(p, pc)] /\ Moved(p, pc) \in Where
      /\ Moved(p, pc).pc = pc /\ Moved(p, pc).ns = at[p].ns /\ Moved(p, pc).kept = at[p].kept
      /\ Moved(p, pc).then = at[p].then
  BY <1>3, GoMoves DEF Pcs, Locked
<1> HIDE DEF Moved
<1>5. \A b \in Attempts : Relied(b)' => Relied(b)
  BY <1>1, <1>3, <1>4, Constants DEF Relied, Preparing, Closed, IInv, Typed
<1>6. Place(p)'
  BY <1>1, <1>3, <1>4, <1>5, Constants DEF Place, Released, Locked
<1>7. ASSUME p \in Attempts PROVE Attempting(p)'
  BY <1>1, <1>3, <1>4, <1>7, Constants DEF IInv, Places, Attempting, Fresh, Place, Released
<1>8. ASSUME p \in Disposers PROVE Disposing(p)'
  <2>1. at[p].then = "reduce" /\ Disposing(p) /\ pc \in {"start", "sweep"}
    BY <1>1, <1>3, <1>8 DEF IInv, Places, Place
  <2> QED BY <1>1, <1>4, <2>1 DEF Disposing, Releases, Closed
<1> QED BY <1>1, <1>2, <1>3, <1>4, <1>6, <1>7, <1>8, QuietStep, LockMoves

LEMMA BreakKeeps == ASSUME IInv, NEW p \in Procs, Break(p) PROVE IInv'
<1>1. /\ Place(p) /\ at[p].pc \in Locked \ {"pinned", "unpinned"} /\ lock = p /\ lock' = None
      /\ UNCHANGED <<files, pin, desc, disposing, wire>>
  BY DEF IInv, Places, Place, Locked, Break, Unlock, owner
<1>2. PICK pc \in {"fail", "failed", "start"} :
        /\ at' = Go(p, pc) /\ (p \in Disposers => pc # "failed") /\ (p \notin Disposers => pc # "start")
        /\ pc = "fail" => ~ Discards(p)
  BY DEF Break, Unlock, Ended
<1>3. /\ at'[p] = Moved(p, pc) /\ at' = [at EXCEPT ![p] = Moved(p, pc)] /\ Moved(p, pc) \in Where
      /\ Moved(p, pc).pc = pc /\ Moved(p, pc).ns = at[p].ns
  BY <1>2, GoMoves DEF Pcs
<1> HIDE DEF Moved
<1>4. Place(p)'
  BY <1>1, <1>2, <1>3, Constants DEF Place, Released, Locked
<1>5. ASSUME p \in Attempts PROVE Attempting(p)'
  BY <1>1, <1>2, <1>3, <1>5, Constants DEF IInv, Places, Attempting, Fresh, Locked
<1>6. ASSUME p \in Disposers PROVE Disposing(p)'
  <2>1. Disposing(p) /\ at[p].pc \in {"own", "others", "unpin", "sweep"}
    BY <1>1, <1>6 DEF IInv, Places, Disposing, Locked
  <2>2. pc = "fail" => Releases(p)
    BY <1>2, <2>1 DEF Disposing, Discards, Releases
  <2> QED BY <1>1, <1>2, <1>3, <1>6, <2>1, <2>2 DEF Disposing, Releases, Closed
<1>7. \A m \in wire : m.who # p
  BY <1>1, NothingSent DEF Locked
<1> QED BY <1>1, <1>2, <1>3, <1>4, <1>5, <1>6, <1>7, QuietStep, LockMoves

LEMMA DieKeeps == ASSUME IInv, NEW p \in Procs, Die(p) PROVE IInv'
<1> DEFINE x == At("dead", at[p].ns)
<1>1. /\ UNCHANGED <<files, pin, desc, disposing, wire>> /\ at' = [at EXCEPT ![p] = x]
      /\ lock' = (IF lock = p THEN None ELSE lock) /\ at[p] \in Where
  BY DEF Die, owner, IInv, Typed
<1>2. x \in Where /\ x.pc = "dead" /\ x.ns = at[p].ns
  BY <1>1 DEF At, Where, Pcs, Locked
<1>3. at'[p] = x
  BY <1>1 DEF IInv, Typed
<1> HIDE DEF x
<1>4. lock' \in Procs \union {None} /\ lock' # p /\ \A q \in Procs \ {p} : lock = q <=> lock' = q
  BY <1>1, Constants DEF IInv, Typed
<1>5. Place(p)'
  BY <1>2, <1>3, <1>4 DEF Place, Released, Locked
<1>6. ASSUME p \in Attempts PROVE Attempting(p)'
  BY <1>2, <1>3, <1>6 DEF IInv, Places, Attempting, Fresh
<1>7. ASSUME p \in Disposers PROVE Disposing(p)'
  BY <1>2, <1>3, <1>7 DEF Disposing, Releases
<1> QED BY <1>1, <1>2, <1>4, <1>5, <1>6, <1>7, QuietStep

LEMMA WriteKeeps == ASSUME IInv, NEW a \in Attempts, Write(a) PROVE IInv'
<1>1. /\ a \in Procs /\ a \notin Disposers /\ Attempting(a) /\ Place(a) /\ at[a].pc = "write" /\ lock = a
      /\ UNCHANGED <<pin, desc, disposing, wire>> /\ Content[a] \in Inputs
  BY Constants DEF IInv, Places, Place, Locked, Write, owner
<1>2. \A m \in wire : m.who # a
  BY <1>1, NothingSent
<1>3. PICK pc \in {"pin", "fail"} :
        /\ at' = Go(a, pc) /\ lock' = (IF pc = "pin" THEN a ELSE None)
        /\ \/ pc = "fail" /\ files' = files
           \/ /\ pc = "pin" /\ files' = files \union {Content[a]}
              /\ Content[a] \in files \/ Cardinality(files) < MaxFiles
  BY <1>1 DEF Write, Unlock
<1>4. /\ at'[a] = Moved(a, pc) /\ at' = [at EXCEPT ![a] = Moved(a, pc)] /\ Moved(a, pc) \in Where
      /\ Moved(a, pc).pc = pc /\ Moved(a, pc).ns = at[a].ns
  BY <1>1, <1>3, GoMoves DEF Pcs, Locked
<1> HIDE DEF Moved
<1>5. \A b \in Attempts : Relied(b)' => Relied(b)
  BY <1>1, <1>3, <1>4, Constants DEF Relied, Preparing, Closed, IInv, Typed
<1>6. files' \subseteq Inputs /\ IsFiniteSet(files') /\ Cardinality(files') <= MaxFiles
  <2>1. files \subseteq Inputs /\ IsFiniteSet(files) /\ Cardinality(files) \in Nat /\ Cardinality(files) <= MaxFiles
    BY FS_CardinalityType DEF IInv, Typed
  <2>2. CASE Content[a] \in files \/ files' = files
    <3>1. files' = files
      BY <1>3, <2>2
    <3> QED BY <2>1, <3>1
  <2>3. CASE Content[a] \notin files /\ Cardinality(files) < MaxFiles /\ files' = files \union {Content[a]}
    <3>1. IsFiniteSet(files') /\ Cardinality(files') = Cardinality(files) + 1
      BY <2>1, <2>3, FS_AddElement
    <3> QED BY <1>1, <2>1, <2>3, <3>1, PinsAssumption
  <2> QED BY <1>3, <2>2, <2>3
<1>7. \A b \in Attempts : Relied(b) => Content[b] \in files'
  BY <1>3 DEF IInv, Held, Has
<1>8. Place(a)'
  BY <1>3, <1>4, Constants DEF Place, Released, Locked
<1>9. Attempting(a)'
  BY <1>1, <1>3, <1>4 DEF Attempting, Fresh
<1> QED BY <1>1, <1>2, <1>3, <1>4, <1>5, <1>6, <1>7, <1>8, <1>9, LocalStep, LockMoves

LEMMA SweepKeeps == ASSUME IInv, NEW p \in Procs, Sweep(p) PROVE IInv'
<1>1. /\ Place(p) /\ at[p].pc = "sweep" /\ lock = p /\ at[p].then \in {"write", "fail", "done", "reduce"}
      /\ UNCHANGED <<pin, desc, disposing, wire>> /\ at \in [Procs -> Where] /\ at[p] \in Where
  BY Constants DEF IInv, Places, Place, Locked, Sweep, owner, Attempting, Disposing, Typed
<1>2. \A m \in wire : m.who # p
  BY <1>1, NothingSent
<1>3. CASE UNCHANGED <<lock, at>> /\ \E f \in files \ at[p].kept : files' = files \ {f}
  <2>1. PICK f \in files \ at[p].kept : files' = files \ {f}
    BY <1>3
  <2>2. files' \subseteq Inputs /\ IsFiniteSet(files') /\ Cardinality(files') <= MaxFiles
    <3>1. IsFiniteSet(files) /\ Cardinality(files) \in Nat /\ Cardinality(files) <= MaxFiles /\ MaxFiles \in Nat
      BY FS_CardinalityType, PinsAssumption DEF IInv, Typed
    <3>2. IsFiniteSet(files') /\ Cardinality(files') = Cardinality(files) - 1
      BY <2>1, <3>1, FS_RemoveElement
    <3> QED BY <2>1, <3>1, <3>2 DEF IInv, Typed
  <2>3. \A b \in Attempts : Relied(b) => Content[b] \in files'
    BY <1>1, <2>1 DEF IInv, Held, Has, Place
  <2>4. at' = [at EXCEPT ![p] = at[p]]
    BY <1>1, <1>3
  <2>5. \A b \in Attempts : Relied(b)' => Relied(b)
    BY <1>1, <1>3 DEF Relied, Preparing, Closed
  <2>6. Place(p)'
    BY <1>1, <1>3, <2>5 DEF Place, Released
  <2>7. ASSUME p \in Attempts PROVE Attempting(p)'
    BY <1>1, <1>3, <2>7 DEF IInv, Places, Attempting, Fresh
  <2>8. ASSUME p \in Disposers PROVE Disposing(p)'
    BY <1>1, <1>3, <2>8 DEF IInv, Places, Disposing, Releases, Closed
  <2> QED BY <1>1, <1>2, <1>3, <2>2, <2>3, <2>4, <2>5, <2>6, <2>7, <2>8, LocalStep DEF IInv, Typed
<1>4. CASE /\ UNCHANGED files /\ at' = Go(p, at[p].then)
           /\ lock' = (IF at[p].then = "write" THEN p ELSE None)
  <2> DEFINE pc == at[p].then
  <2>1. /\ at'[p] = Moved(p, pc) /\ at' = [at EXCEPT ![p] = Moved(p, pc)] /\ Moved(p, pc) \in Where
        /\ Moved(p, pc).pc = pc /\ Moved(p, pc).ns = at[p].ns
    BY <1>1, <1>4, GoMoves DEF Pcs, Locked
  <2> HIDE DEF Moved
  <2>2. Place(p)'
    BY <1>1, <1>4, <2>1, Constants DEF Place, Released, Locked
  <2>3. ASSUME p \in Attempts PROVE Attempting(p)'
    BY <1>1, <1>4, <2>1, <2>3, Constants DEF IInv, Places, Attempting, Fresh, Place, Released
  <2>4. ASSUME p \in Disposers PROVE Disposing(p)'
    BY <1>1, <1>4, <2>1, <2>4 DEF IInv, Places, Disposing, Releases, Closed
  <2> QED BY <1>1, <1>2, <1>4, <2>1, <2>2, <2>3, <2>4, QuietStep, LockMoves
<1> QED BY <1>1, <1>3, <1>4 DEF Sweep, Unlock

LEMMA PinnedKeeps == ASSUME IInv, NEW a \in Attempts, Pinned(a) PROVE IInv'
<1>1. /\ a \in Procs /\ a \notin Disposers /\ Attempting(a) /\ Place(a)
      /\ at[a].pc = "pinned" /\ at[a].reply # "none" /\ lock = a
      /\ UNCHANGED <<files, pin, desc, disposing, wire>>
  BY Constants DEF IInv, Places, Place, Locked, Pinned, owner
<1>2. \A m \in wire : m.who # a
  BY <1>1, NothingSent
<1>3. CASE at[a].reply = "refused" /\ at' = Go(a, "undo") /\ UNCHANGED lock
  <2>1. at'[a] = Moved(a, "undo") /\ at' = [at EXCEPT ![a] = Moved(a, "undo")] /\ Moved(a, "undo") \in Where
        /\ Moved(a, "undo").pc = "undo" /\ Moved(a, "undo").ns = at[a].ns
    BY <1>1, <1>3, GoMoves DEF Pcs, Locked
  <2> HIDE DEF Moved
  <2>2. Place(a)'
    BY <1>1, <1>3, <2>1 DEF Place, Released, Locked
  <2>3. Attempting(a)'
    BY <1>1, <2>1 DEF Attempting, Fresh
  <2> QED BY <1>1, <1>2, <1>3, <2>1, <2>2, <2>3, QuietStep DEF IInv, Typed
<1>4. CASE at[a].reply = "applied" /\ at' = Go(a, "fail") /\ lock' = None
  <2>1. at'[a] = Moved(a, "fail") /\ at' = [at EXCEPT ![a] = Moved(a, "fail")] /\ Moved(a, "fail") \in Where
        /\ Moved(a, "fail").pc = "fail" /\ Moved(a, "fail").ns = at[a].ns
    BY <1>1, <1>4, GoMoves DEF Pcs, Locked
  <2> HIDE DEF Moved
  <2>2. Place(a)'
    BY <1>4, <2>1, Constants DEF Place, Released, Locked
  <2>3. Attempting(a)'
    BY <1>1, <2>1 DEF Attempting, Fresh
  <2> QED BY <1>1, <1>2, <1>4, <2>1, <2>2, <2>3, QuietStep, LockMoves
<1>5. CASE at[a].reply = "applied" /\ at' = Go(a, "prepare") /\ lock' = None
  <2>1. at'[a] = Moved(a, "prepare") /\ at' = [at EXCEPT ![a] = Moved(a, "prepare")] /\ Moved(a, "prepare") \in Where
        /\ Moved(a, "prepare").pc = "prepare" /\ Moved(a, "prepare").ns = at[a].ns
    BY <1>1, <1>5, GoMoves DEF Pcs, Locked
  <2> HIDE DEF Moved
  <2>2. Place(a)'
    BY <1>5, <2>1, Constants DEF Place, Released, Locked
  <2>3. Attempting(a)'
    BY <1>1, <2>1 DEF Attempting, Fresh
  <2>4. Relied(a)' => Has(a)'
    BY <1>1, <1>5 DEF Attempting, Relied, Closed, Has
  <2>5. \A b \in Attempts : Relied(b)' => Relied(b) \/ (b = a /\ lock = a /\ Has(a)')
    BY <1>1, <2>1, <2>4, Constants DEF Relied, Preparing, Closed, IInv, Typed
  <2>6. \A b \in Attempts : Relied(b) => Content[b] \in files'
    BY <1>1 DEF IInv, Held, Has
  <2>7. files' \subseteq Inputs /\ IsFiniteSet(files') /\ Cardinality(files') <= MaxFiles
    BY <1>1 DEF IInv, Typed
  <2> QED BY <1>1, <1>2, <1>5, <2>1, <2>2, <2>3, <2>5, <2>6, <2>7, LocalStep, LockMoves
<1> QED BY <1>3, <1>4, <1>5 DEF Pinned, Unlock

\* A call is sent by a process that then waits for it.
LEMMA SendStep ==
    ASSUME IInv, NEW p \in Procs, NEW pc \in {"pinned", "prepared", "unpinned"}, NEW m \in Calls,
           at[p].pc \notin {"pinned", "prepared", "unpinned", "dead"},
           m.who = p, m.ns = at[p].ns, wire' = wire \union {m}, at' = Go(p, pc),
           UNCHANGED <<files, pin, desc, disposing, lock>>,
           m.op = "prepare" <=> at[p].pc = "prepare", pc = "prepared" <=> at[p].pc = "prepare",
           Expected(m)', Place(p)', p \in Attempts => Attempting(p)', p \in Disposers => Disposing(p)',
           p \in Attempts => at[p].ns = p
    PROVE  IInv'
<1>1. at' = [at EXCEPT ![p] = Moved(p, pc)] /\ Moved(p, pc) \in Where
      /\ Moved(p, pc).pc = pc /\ at'[p] = Moved(p, pc)
  BY GoMoves DEF Pcs, Locked
<1>2. \A n \in wire : n.who # p
  BY NothingSent
<1>3. files' \subseteq Inputs /\ IsFiniteSet(files') /\ Cardinality(files') <= MaxFiles
      /\ lock' \in Procs \union {None}
  BY DEF IInv, Typed
<1>4. \A a \in Attempts : Relied(a) => Content[a] \in files'
  BY DEF IInv, Held, Has
<1> HIDE DEF Moved
<1>5. \A a \in Attempts : Relied(a)' => Relied(a)
  <2> SUFFICES ASSUME NEW a \in Attempts, Relied(a)' PROVE Relied(a)
    OBVIOUS
  <2>1. Closed(a)' <=> Closed(a)
    BY DEF Closed
  <2>2. at'[a].pc \in {"prepare", "prepared"} => at[a].pc \in {"prepare", "prepared"}
    BY <1>1, Constants DEF IInv, Typed
  <2>3. Preparing(a)' => Preparing(a) \/ (m.op = "prepare" /\ m.ns = a)
    BY DEF Preparing
  <2>4. m.op = "prepare" /\ m.ns = a => at[a].pc = "prepare"
    <3>1. m.op = "prepare" => p \in Attempts
      BY Constants DEF IInv, Places, Disposing
    <3> QED BY <3>1
  <2> QED BY <2>1, <2>2, <2>3, <2>4 DEF Relied
<1> QED BY <1>1, <1>2, <1>3, <1>4, <1>5, LocalStep

LEMMA SendPinKeeps == ASSUME IInv, NEW a \in Attempts, SendPin(a) PROVE IInv'
<1>1. /\ a \in Procs /\ a \notin Disposers /\ Attempting(a) /\ Place(a) /\ at[a].pc = "pin" /\ at[a].ns = a
      /\ UNCHANGED <<files, pin, desc, disposing, lock>> /\ at' = Go(a, "pinned")
      /\ wire' = wire \union {[who |-> a, op |-> "pin", ns |-> a, ver |-> 0]}
  BY Constants DEF IInv, Places, Attempting, SendPin, Call, owner
<1>2. PICK m \in Calls :
        m.who = a /\ m.ns = a /\ m.op = "pin" /\ m.ver = 0 /\ wire' = wire \union {m}
  <2> DEFINE c == [who |-> a, op |-> "pin", ns |-> a, ver |-> 0]
  <2>1. c \in Calls /\ c.who = a /\ c.ns = a /\ c.op = "pin" /\ c.ver = 0
    BY <1>1 DEF Calls
  <2>2. wire' = wire \union {c}
    BY <1>1
  <2> HIDE DEF c
  <2> QED BY <2>1, <2>2
<1>3. at'[a] = Moved(a, "pinned") /\ Moved(a, "pinned").pc = "pinned" /\ Moved(a, "pinned").ns = a
      /\ Moved(a, "pinned").reply = "none"
  BY <1>1, GoMoves DEF Pcs, Locked
<1> HIDE DEF Moved
<1>4. Expected(m)'
  BY <1>1, <1>2, <1>3 DEF Expected, Waits, Attempting, Fresh
<1>5. Place(a)'
  BY <1>1, <1>3 DEF Place, Released, Locked
<1>6. Attempting(a)'
  BY <1>1, <1>3 DEF Attempting, Fresh
<1> QED BY <1>1, <1>2, <1>4, <1>5, <1>6, SendStep

LEMMA SendPrepareKeeps == ASSUME IInv, NEW a \in Attempts, SendPrepare(a) PROVE IInv'
<1>1. /\ a \in Procs /\ a \notin Disposers /\ Attempting(a) /\ Place(a) /\ at[a].pc = "prepare" /\ at[a].ns = a
      /\ UNCHANGED <<files, pin, desc, disposing, lock>> /\ at' = Go(a, "prepared")
      /\ wire' = wire \union {[who |-> a, op |-> "prepare", ns |-> a, ver |-> 0]}
  BY Constants DEF IInv, Places, Attempting, SendPrepare, Call, owner
<1>2. PICK m \in Calls :
        m.who = a /\ m.ns = a /\ m.op = "prepare" /\ m.ver = 0 /\ wire' = wire \union {m}
  <2> DEFINE c == [who |-> a, op |-> "prepare", ns |-> a, ver |-> 0]
  <2>1. c \in Calls /\ c.who = a /\ c.ns = a /\ c.op = "prepare" /\ c.ver = 0
    BY <1>1 DEF Calls
  <2>2. wire' = wire \union {c}
    BY <1>1
  <2> HIDE DEF c
  <2> QED BY <2>1, <2>2
<1>3. at'[a] = Moved(a, "prepared") /\ Moved(a, "prepared").pc = "prepared" /\ Moved(a, "prepared").ns = a
      /\ Moved(a, "prepared").reply = "none"
  BY <1>1, GoMoves DEF Pcs
<1> HIDE DEF Moved
<1>4. Expected(m)'
  BY <1>1, <1>2, <1>3 DEF Expected, Waits, Attempting
<1>5. Place(a)'
  BY <1>1, <1>3 DEF Place, Released, Locked
<1>6. Attempting(a)'
  BY <1>1, <1>3 DEF Attempting, Fresh
<1> QED BY <1>1, <1>2, <1>4, <1>5, <1>6, SendStep

LEMMA SendUnpinKeeps == ASSUME IInv, NEW p \in Procs, SendUnpin(p) PROVE IInv'
<1>1. /\ Place(p) /\ at[p].pc = "unpin" /\ at[p].ver = 1 /\ pin[at[p].ns].ver # 0
      /\ UNCHANGED <<files, pin, desc, disposing, lock>> /\ at' = Go(p, "unpinned")
      /\ wire' = wire \union {[who |-> p, op |-> "unpin", ns |-> at[p].ns, ver |-> 1]}
  BY DEF IInv, Places, Place, SendUnpin, Call, owner
<1>2. at[p].ns \in Attempts /\ ~ Relied(at[p].ns) /\ Releases(p)
  BY <1>1, ReleasedNotRelied DEF Releases
<1>3. PICK m \in Calls :
        m.who = p /\ m.ns = at[p].ns /\ m.op = "unpin" /\ m.ver = 1 /\ wire' = wire \union {m}
  <2> DEFINE c == [who |-> p, op |-> "unpin", ns |-> at[p].ns, ver |-> 1]
  <2>1. c \in Calls /\ c.who = p /\ c.ns = at[p].ns /\ c.op = "unpin" /\ c.ver = 1
    BY <1>1, <1>2 DEF Calls
  <2>2. wire' = wire \union {c}
    BY <1>1
  <2> HIDE DEF c
  <2> QED BY <2>1, <2>2
<1>4. at'[p] = Moved(p, "unpinned") /\ Moved(p, "unpinned").pc = "unpinned" /\ Moved(p, "unpinned").ns = at[p].ns
      /\ Moved(p, "unpinned").reply = "none" /\ Moved(p, "unpinned").kept = at[p].kept
      /\ Moved(p, "unpinned").ver = 1 /\ Moved(p, "unpinned").then = at[p].then
      /\ at' = [at EXCEPT ![p] = Moved(p, "unpinned")]
  BY <1>1, GoMoves DEF Pcs, Locked
<1> HIDE DEF Moved
<1>5. \A b \in Attempts : Relied(b)' => Relied(b)
  <2>1. \A b \in Attempts : Preparing(b)' => Preparing(b)
    BY <1>1, <1>3 DEF Preparing
  <2>2. \A b \in Attempts : at'[b].pc \in {"prepare", "prepared"} => at[b].pc \in {"prepare", "prepared"}
    BY <1>1, <1>4, Constants DEF IInv, Typed
  <2> QED BY <1>1, <2>1, <2>2 DEF Relied, Closed
<1>6. Place(p)'
  BY <1>1, <1>4, <1>5 DEF Place, Released, Locked
<1>7. ASSUME p \in Attempts PROVE Attempting(p)' /\ at[p].ns = p
  BY <1>1, <1>4, <1>7 DEF IInv, Places, Attempting, Fresh
<1>8. ASSUME p \in Disposers PROVE Disposing(p)'
  BY <1>1, <1>4, <1>8 DEF IInv, Places, Disposing, Releases, Closed
<1>9. Expected(m)'
  <2>1. Waits(m, "unpinned")'
    BY <1>3, <1>4 DEF Waits
  <2>2. CASE p \in Attempts
    <3>1. at[p].ns = p /\ desc[Req[p]] # p /\ ~ Preparing(p)
      BY <1>1, <1>7, <2>2 DEF IInv, Places, Attempting, Sent, Expected, Waits, Preparing
    <3>2. ~ Preparing(p)'
      BY <1>1, <1>3, <3>1 DEF Preparing
    <3> QED BY <1>1, <1>3, <2>1, <3>1, <3>2 DEF Expected
  <2>3. CASE p \in Disposers
    <3>1. Closed(at[p].ns) /\ at[p].ns # p
      BY <1>2, <2>3, Constants DEF IInv, Places, Disposing
    <3> QED BY <1>1, <1>3, <2>1, <2>3, <3>1 DEF Expected, Closed
  <2> QED BY <2>2, <2>3, Constants
<1> QED BY <1>1, <1>3, <1>6, <1>7, <1>8, <1>9, SendStep

\* The owner answers a call: nothing but the caller's reply changes, and every
\* other call on its way is of another process, or of a dead one.
LEMMA Answered ==
    ASSUME IInv, NEW m \in wire, NEW reply \in {"applied", "refused", "won", "lost"},
           Answer(m.who, reply), wire' = wire \ {m}
    PROVE  /\ m \in Calls /\ m.who \in Procs /\ m.ns \in Attempts /\ Expected(m)
           /\ at' \in [Procs -> Where]
           /\ \A q \in Procs :
                 /\ at'[q].pc = at[q].pc /\ at'[q].ns = at[q].ns /\ at'[q].then = at[q].then
                 /\ at'[q].kept = at[q].kept /\ at'[q].ver = at[q].ver
                 /\ q # m.who \/ at[q].pc = "dead" => at'[q] = at[q]
                 /\ q = m.who /\ at[q].pc # "dead" => at'[q].reply = reply
           /\ \A n \in wire' : n \in wire /\ n \in Calls /\ at'[n.who] = at[n.who]
           /\ \A a \in Attempts : Preparing(a)' => Preparing(a)
<1>1. m \in Calls /\ m.who \in Procs /\ m.ns \in Attempts /\ Expected(m)
  BY DEF IInv, Typed, Sent, Calls
<1>2. at \in [Procs -> Where] /\ \A q \in Procs : at[q] \in Where
  BY DEF IInv, Typed
<1>3. at' = at \/ at' = [at EXCEPT ![m.who] = [at[m.who] EXCEPT !.reply = reply]]
  BY <1>1, <1>2 DEF Answer, Where
<1>4. [at[m.who] EXCEPT !.reply = reply] \in Where
  BY <1>1, <1>2 DEF Where
<1>5. at' \in [Procs -> Where]
  BY <1>1, <1>2, <1>3, <1>4
<1>6. ASSUME NEW q \in Procs
      PROVE  /\ at'[q].pc = at[q].pc /\ at'[q].ns = at[q].ns /\ at'[q].then = at[q].then
             /\ at'[q].kept = at[q].kept /\ at'[q].ver = at[q].ver
             /\ q # m.who => at'[q] = at[q]
  BY <1>1, <1>2, <1>3 DEF Where
<1>7. at[m.who].pc = "dead" => at' = at
  BY DEF Answer
<1>8. at[m.who].pc # "dead" => at'[m.who].reply = reply
  <2>1. at[m.who].pc # "dead" => at' = [at EXCEPT ![m.who] = [at[m.who] EXCEPT !.reply = reply]]
    BY <1>1, <1>2 DEF Answer, Where
  <2> QED BY <1>1, <1>2, <2>1 DEF Where
<1>9. ASSUME NEW n \in wire' PROVE n \in wire /\ n \in Calls /\ at'[n.who] = at[n.who]
  <2>1. n \in wire /\ n # m /\ n \in Calls /\ n.who \in Procs /\ Expected(n)
    BY DEF IInv, Typed, Sent, Calls
  <2>2. CASE n.who = m.who /\ at[m.who].pc # "dead"
    <3>1. n.op = m.op /\ n.ns = m.ns /\ n.ver = m.ver
      BY <1>1, <2>1, <2>2 DEF Expected, Waits, Calls
    <3> QED BY <1>1, <2>1, <2>2, <3>1 DEF Calls
  <2> QED BY <1>6, <1>7, <2>1, <2>2
<1>10. \A a \in Attempts : Preparing(a)' => Preparing(a)
  BY DEF Preparing
<1> QED BY <1>1, <1>5, <1>6, <1>7, <1>8, <1>9, <1>10

\* The owner changes a reference, or does not.
LEMMA ServePinKeeps == ASSUME IInv, NEW m \in wire, Serve(m), ServePin(m) PROVE IInv'
<1>1. PICK reply \in {"applied", "refused"} :
        /\ Answer(m.who, reply) /\ wire' = wire \ {m} /\ m.op \in {"pin", "unpin"}
        /\ UNCHANGED <<files, lock, desc, disposing>>
        /\ \/ /\ reply = "applied" /\ pin[m.ns].ver = m.ver
              /\ pin' = [pin EXCEPT ![m.ns] = [set |-> m.op = "pin", ver |-> @.ver + 1]]
           \/ reply = "refused" /\ (pin[m.ns].ver # m.ver \/ m.op = "pin") /\ UNCHANGED pin
  BY DEF Serve, ServePin
<1>2. /\ m \in Calls /\ m.who \in Procs /\ m.ns \in Attempts /\ Expected(m)
      /\ at' \in [Procs -> Where]
      /\ \A q \in Procs :
            /\ at'[q].pc = at[q].pc /\ at'[q].ns = at[q].ns /\ at'[q].then = at[q].then
            /\ at'[q].kept = at[q].kept /\ at'[q].ver = at[q].ver
            /\ q # m.who \/ at[q].pc = "dead" => at'[q] = at[q]
            /\ q = m.who /\ at[q].pc # "dead" => at'[q].reply = reply
      /\ \A n \in wire' : n \in wire /\ n \in Calls /\ at'[n.who] = at[n.who]
      /\ \A a \in Attempts : Preparing(a)' => Preparing(a)
  BY <1>1, Answered
<1>3. \A a \in Attempts : a \in Procs /\ pin[a] \in Pin /\ (pin[a].set <=> pin[a].ver = 1)
  BY Constants DEF IInv, Typed
<1>4. /\ pin' \in [Attempts -> Pin] /\ \A a \in Attempts : a # m.ns => pin'[a] = pin[a]
      /\ reply = "refused" => pin' = pin /\ ~ pin[m.ns].set
      /\ reply = "applied" /\ m.op = "pin" => pin[m.ns].ver = 0 /\ pin'[m.ns].set /\ pin'[m.ns].ver = 1
      /\ reply = "applied" /\ m.op = "unpin" => pin[m.ns].ver = 1 /\ ~ pin'[m.ns].set /\ pin'[m.ns].ver = 2
  <2>1. CASE reply = "refused"
    BY <1>1, <1>2, <1>3, <2>1 DEF Expected, IInv, Typed
  <2>2. CASE reply = "applied"
    <3> DEFINE c == [set |-> m.op = "pin", ver |-> pin[m.ns].ver + 1]
    <3>1. pin[m.ns].ver = m.ver /\ pin' = [pin EXCEPT ![m.ns] = c]
      BY <1>1, <2>2
    <3>2. m.ver = IF m.op = "pin" THEN 0 ELSE 1
      BY <1>1, <1>2 DEF Expected
    <3>3. c.set <=> m.op = "pin"
      OBVIOUS
    <3>4. c \in Pin /\ c.ver = m.ver + 1
      BY <3>1, <3>2 DEF Pin
    <3> HIDE DEF c
    <3> QED BY <1>1, <1>2, <2>2, <3>1, <3>2, <3>3, <3>4 DEF IInv, Typed
  <2> QED BY <1>1, <2>1, <2>2
<1>5. \A a \in Attempts : (Closed(a)' <=> Closed(a)) /\ (Relied(a)' => Relied(a))
  BY <1>1, <1>2, <1>3 DEF Closed, Relied
<1>6. m.op = "unpin" => ~ Relied(m.ns)
  BY <1>2, <1>3 DEF Expected, Waits, Relied
<1>7. Typed'
  <2>1. \A a \in Attempts : pin'[a].set <=> pin'[a].ver = 1
    BY <1>1, <1>3, <1>4
  <2> QED BY <1>1, <1>2, <1>4, <2>1 DEF IInv, Typed
<1>8. Held' /\ Prepares'
  BY <1>1, <1>3, <1>4, <1>5, <1>6 DEF IInv, Held, Has, Prepares
<1>9. ASSUME NEW q \in Procs PROVE Place(q)'
  <2>1. Place(q)
    BY DEF IInv, Places
  <2>2. Released(q)' => ~ pin'[at[q].ns].set
    <3>1. CASE Released(q)
      <4>1. ~ pin[at[q].ns].set
        BY <2>1, <3>1 DEF Place
      <4>2. at[q].ns \in Attempts
        BY <3>1, Constants DEF IInv, Places, Attempting, Disposing, Released, Releases
      <4>3. CASE at[q].ns = m.ns /\ m.op = "pin"
        <5>1. q # m.ns
          BY <1>2, <3>1, <4>3 DEF Expected, Waits, Released
        <5>2. q \in Disposers
          BY <4>3, <5>1, Constants DEF IInv, Places, Attempting
        <5>3. pin[m.ns].ver # 0
          BY <3>1, <4>3, <5>2 DEF IInv, Places, Disposing, Released, Releases
        <5> QED BY <1>2, <4>3, <5>3 DEF Expected
      <4> QED BY <1>1, <1>4, <4>1, <4>2, <4>3
    <3>2. CASE ~ Released(q) /\ Released(q)'
      <4>1. q = m.who /\ at[q].pc = "unpinned"
        BY <1>2, <3>2 DEF Released
      <4>2. m.op = "unpin" /\ at[q].ns = m.ns
        BY <1>1, <1>2, <4>1 DEF Expected, Waits
      <4> QED BY <1>1, <1>4, <4>2
    <3> QED BY <3>1, <3>2
  <2>3. at[q].pc \in {"others", "unpin", "unpinned"} /\ at[q].ver # 0 => pin'[at[q].ns].ver # 0
    <3>1. at[q].pc \in {"others", "unpin", "unpinned"} => at[q].ns \in Attempts
      BY Constants DEF IInv, Places, Attempting, Disposing, Releases
    <3> QED BY <1>1, <1>4, <2>1, <3>1 DEF Place
  <2> QED BY <1>1, <1>2, <1>5, <2>1, <2>2, <2>3 DEF Place
<1>10. ASSUME NEW a \in Attempts PROVE Attempting(a)'
  <2>1. Attempting(a) /\ a \in Procs
    BY Constants DEF IInv, Places
  <2>2. CASE m.who = a /\ at[a].pc # "dead"
    <3>1. m.ns = a /\ at'[a].pc = at[a].pc /\ at'[a].reply = reply
          /\ at[a].pc = (IF m.op = "pin" THEN "pinned" ELSE "unpinned")
      BY <1>1, <1>2, <2>1, <2>2 DEF Expected, Waits, Attempting
    <3> QED BY <1>1, <1>2, <1>4, <2>1, <3>1 DEF Attempting, Fresh
  <2>3. CASE m.who # a \/ at[a].pc = "dead"
    <3>1. at'[a] = at[a]
      BY <1>2, <2>1, <2>3
    <3>2. CASE m.ns # a
      BY <1>1, <1>4, <2>1, <3>1, <3>2 DEF Attempting, Fresh
    <3>3. CASE m.ns = a /\ m.who # a
      <4>1. m.op = "unpin" /\ Closed(a)
        BY <1>1, <1>2, <3>3 DEF Expected
      <4> QED BY <1>1, <1>4, <2>1, <3>1, <3>3, <4>1 DEF Attempting, Fresh, Closed
    <3>4. CASE m.ns = a /\ at[a].pc = "dead"
      BY <2>1, <3>1, <3>4 DEF Attempting, Fresh
    <3> QED BY <2>3, <3>2, <3>3, <3>4
  <2> QED BY <2>2, <2>3
<1>11. ASSUME NEW d \in Disposers PROVE Disposing(d)'
  <2>1. Disposing(d) /\ d \in Procs
    BY Constants DEF IInv, Places
  <2>2. Releases(d)' <=> Releases(d)
    BY <1>2, <2>1 DEF Releases
  <2>3. Releases(d) => pin'[at[d].ns].ver # 0
    BY <1>1, <1>4, <2>1 DEF Disposing
  <2> QED BY <1>2, <1>5, <2>1, <2>2, <2>3 DEF Disposing
<1>12. ASSUME NEW n \in wire' PROVE Expected(n)'
  <2>1. Expected(n) /\ at'[n.who] = at[n.who] /\ n \in Calls /\ n.ns \in Attempts
    BY <1>2 DEF IInv, Sent, Calls
  <2>2. n.op = "pin" => n.ns # m.ns \/ pin'[n.ns] = pin[n.ns]
    <3>1. CASE n.op = "pin" /\ n.ns = m.ns /\ m.op = "pin"
      <4>1. n.who = m.who /\ n.ver = m.ver
        BY <1>2, <2>1, <3>1 DEF Expected
      <4>2. n = m
        BY <1>2, <2>1, <3>1, <4>1 DEF Calls
      <4> QED BY <1>1, <4>2
    <3>2. CASE n.op = "pin" /\ n.ns = m.ns /\ m.op = "unpin"
      BY <1>2, <2>1, <3>2 DEF Expected
    <3> QED BY <1>1, <3>1, <3>2
  <2>3. pin[n.ns].ver # 0 => pin'[n.ns].ver # 0
    BY <1>1, <1>4, <2>1
  <2> QED BY <1>1, <1>2, <1>4, <1>5, <2>1, <2>2, <2>3 DEF Expected, Waits
<1> QED BY <1>7, <1>8, <1>9, <1>10, <1>11, <1>12 DEF IInv, Places, Sent

\* The owner makes the operation of a request, or has one already, or refuses.
LEMMA ServePrepareKeeps == ASSUME IInv, NEW m \in wire, Serve(m), ServePrepare(m) PROVE IInv'
<1>1. PICK reply \in {"won", "lost", "refused"} :
        /\ Answer(m.who, reply) /\ wire' = wire \ {m} /\ m.op = "prepare"
        /\ UNCHANGED <<files, lock, pin, disposing>>
        /\ \/ reply = "won" /\ desc[Req[m.ns]] = None /\ desc' = [desc EXCEPT ![Req[m.ns]] = m.ns]
           \/ reply # "won" /\ UNCHANGED desc
  BY DEF Serve, ServePrepare
<1>2. /\ m \in Calls /\ m.who \in Procs /\ m.ns \in Attempts /\ Expected(m)
      /\ at' \in [Procs -> Where]
      /\ \A q \in Procs :
            /\ at'[q].pc = at[q].pc /\ at'[q].ns = at[q].ns /\ at'[q].then = at[q].then
            /\ at'[q].kept = at[q].kept /\ at'[q].ver = at[q].ver
            /\ q # m.who \/ at[q].pc = "dead" => at'[q] = at[q]
            /\ q = m.who /\ at[q].pc # "dead" => at'[q].reply = reply
      /\ \A n \in wire' : n \in wire /\ n \in Calls /\ at'[n.who] = at[n.who]
      /\ \A a \in Attempts : Preparing(a)' => Preparing(a)
  BY <1>1, Answered
<1>3. /\ m.who = m.ns /\ m.ver = 0 /\ Preparing(m.ns) /\ desc[Req[m.ns]] # m.ns
      /\ at[m.ns].pc \in {"prepared", "dead"}
      /\ at[m.ns].pc # "dead" => at[m.ns].reply = "none"
  BY <1>1, <1>2 DEF Expected, Waits, Preparing
<1>4. \A r \in RequestIds : desc'[r] = desc[r] \/ (r = Req[m.ns] /\ desc[r] = None /\ desc'[r] = m.ns /\ reply = "won")
  BY <1>1, Constants DEF IInv, Typed
<1>5. \A a \in Attempts : Closed(a) => Closed(a)'
  BY <1>1, <1>4, Constants DEF Closed
<1>6. reply = "won" => Relied(m.ns)
  BY <1>1, <1>2, <1>3, Constants DEF Relied, Closed
<1>7. \A a \in Attempts : Relied(a)' => Relied(a)
  <2> SUFFICES ASSUME NEW a \in Attempts, Relied(a)' PROVE Relied(a)
    OBVIOUS
  <2>1. ~ Closed(a) /\ Req[a] \in RequestIds /\ a \in Procs
    BY <1>5, Constants DEF Relied
  <2>2. desc'[Req[a]] = a => desc[Req[a]] = a \/ (a = m.ns /\ reply = "won")
    BY <1>4, <2>1
  <2> QED BY <1>2, <1>6, <2>1, <2>2 DEF Relied
<1>8. Typed'
  <2>1. desc' \in [RequestIds -> Attempts \union {None, Gone}]
    BY <1>1, <1>2 DEF IInv, Typed
  <2>2. \A r \in RequestIds : desc'[r] \in Attempts => Req[desc'[r]] = r
    BY <1>4 DEF IInv, Typed
  <2> QED BY <1>1, <1>2, <2>1, <2>2 DEF IInv, Typed
<1>9. Held'
  BY <1>1, <1>7 DEF IInv, Held, Has
<1>10. Prepares'
  <2>1. reply = "won" => pin[m.ns].ver # 0
    BY <1>2, <1>6 DEF IInv, Held, Has, Typed
  <2> QED BY <1>1, <1>4, <2>1, Constants DEF IInv, Prepares
<1>11. ASSUME NEW q \in Procs PROVE Place(q)'
  <2>1. Place(q) /\ (Released(q)' => Released(q))
    BY <1>2, <1>3 DEF IInv, Places, Released
  <2> QED BY <1>1, <1>2, <1>7, <2>1 DEF Place
<1>12. ASSUME NEW a \in Attempts PROVE Attempting(a)'
  <2>1. Attempting(a) /\ a \in Procs /\ Req[a] \in RequestIds
    BY Constants DEF IInv, Places
  <2>2. CASE a = m.ns
    <3>1. at[a].pc # "dead" => at'[a].reply = reply /\ at'[a].pc = "prepared"
      BY <1>2, <1>3, <2>1, <2>2
    <3>2. reply # "won" => desc'[Req[a]] # a
      BY <1>1, <1>3, <2>2
    <3>3. at[a].pc = "dead" => at'[a].pc = "dead"
      BY <1>2, <2>1
    <3> QED BY <1>1, <1>2, <1>3, <2>1, <2>2, <3>1, <3>2, <3>3 DEF Attempting, Fresh
  <2>3. CASE a # m.ns
    <3>1. at'[a] = at[a] /\ (desc'[Req[a]] = a <=> desc[Req[a]] = a) /\ (desc[Req[a]] = Gone => desc'[Req[a]] = Gone)
      BY <1>2, <1>3, <1>4, <2>1, <2>3, Constants
    <3> QED BY <1>1, <2>1, <3>1 DEF Attempting, Fresh
  <2> QED BY <2>2, <2>3
<1>13. ASSUME NEW d \in Disposers PROVE Disposing(d)'
  <2>1. Disposing(d) /\ d \in Procs
    BY Constants DEF IInv, Places
  <2>2. Releases(d)' <=> Releases(d)
    BY <1>2, <2>1 DEF Releases
  <2> QED BY <1>1, <1>2, <1>5, <2>1, <2>2 DEF Disposing
<1>14. ASSUME NEW n \in wire' PROVE Expected(n)'
  <2>1. Expected(n) /\ at'[n.who] = at[n.who] /\ n \in Calls /\ n.ns \in Attempts /\ n # m
        /\ Req[n.ns] \in RequestIds
    BY <1>1, <1>2, Constants DEF IInv, Sent, Calls
  <2>2. n.op = "prepare" => desc'[Req[n.ns]] # n.ns
    <3>1. n.op = "prepare" => n.ns # m.ns
      BY <1>1, <1>2, <1>3, <2>1 DEF Expected, Calls
    <3> QED BY <1>4, <2>1, <3>1 DEF Expected
  <2>3. n.op = "unpin" /\ n.who = n.ns => ~ Preparing(n.ns)' /\ desc'[Req[n.ns]] # n.ns
    <3>1. n.op = "unpin" /\ n.who = n.ns => n.ns # m.ns
      BY <1>3, <2>1 DEF Expected
    <3> QED BY <1>2, <1>4, <2>1, <3>1 DEF Expected
  <2> QED BY <1>1, <1>5, <2>1, <2>2, <2>3 DEF Expected, Waits
<1> QED BY <1>8, <1>9, <1>10, <1>11, <1>12, <1>13, <1>14 DEF IInv, Places, Sent

\* An operation admits nothing any more, or is gone: what was closed stays closed.
LEMMA CloseStep ==
    ASSUME IInv, NEW d \in Disposers, NEW x \in Where, at' = [at EXCEPT ![d] = x],
           at[d].pc \notin Locked, at[d].pc # "dead", x.pc \notin Locked, x.pc # "reduce",
           UNCHANGED <<files, pin, lock, wire>>, disposing' \subseteq RequestIds,
           \A r \in RequestIds : desc'[r] = desc[r] \/ (desc'[r] = Gone /\ ~ pin[desc[r]].set),
           desc' \in [RequestIds -> Attempts \union {None, Gone}],
           \A a \in Attempts : Closed(a) => Closed(a)',
           Disposing(d)'
    PROVE  IInv'
<1>1. at' \in [Procs -> Where] /\ at'[d] = x /\ \A q \in Procs \ {d} : at'[q] = at[q]
  BY Constants DEF IInv, Typed
<1>2. d \in Procs /\ d \notin Attempts /\ \A m \in wire : m.who # d
  BY Constants, NothingSent DEF Locked, IInv, Places, Disposing
<1>3. \A a \in Attempts : a \in Procs \ {d} /\ Req[a] \in RequestIds
  BY <1>2, Constants
<1>4. \A a \in Attempts : (desc'[Req[a]] = a => desc[Req[a]] = a) /\ (desc[Req[a]] = Gone => desc'[Req[a]] = Gone)
  BY <1>3, Constants
<1>5. \A a \in Attempts : Relied(a)' => Relied(a)
  BY <1>1, <1>3, <1>4 DEF Relied, Preparing
<1>6. Typed'
  BY <1>1, Constants DEF IInv, Typed
<1>7. Held' /\ Prepares'
  BY <1>4, <1>5 DEF IInv, Held, Has, Prepares
<1>8. ASSUME NEW q \in Procs PROVE Place(q)'
  <2>1. Place(q)
    BY DEF IInv, Places
  <2>2. CASE q = d
    BY <1>1, <2>1, <2>2 DEF Place, Released, Locked
  <2>3. CASE q # d
    BY <1>1, <1>5, <2>1, <2>3 DEF Place, Released
  <2> QED BY <2>2, <2>3
<1>9. ASSUME NEW a \in Attempts PROVE Attempting(a)'
  <2>1. Attempting(a) /\ at'[a] = at[a]
    BY <1>1, <1>3 DEF IInv, Places
  <2>2. desc[Req[a]] = a => desc'[Req[a]] = a \/ ~ pin[a].set
    BY <1>3
  <2> QED BY <1>4, <2>1, <2>2 DEF Attempting, Fresh
<1>10. ASSUME NEW e \in Disposers PROVE Disposing(e)'
  <2>1. Disposing(e) /\ e \in Procs
    BY Constants DEF IInv, Places
  <2>2. CASE e # d
    BY <1>1, <2>1, <2>2 DEF Disposing, Releases
  <2> QED BY <2>2
<1>11. ASSUME NEW m \in wire PROVE Expected(m)'
  <2>1. Expected(m) /\ m.ns \in Attempts /\ at'[m.who] = at[m.who]
    BY <1>1, <1>2 DEF IInv, Typed, Sent, Calls
  <2> QED BY <1>4, <2>1 DEF Expected, Waits, Preparing
<1> QED BY <1>6, <1>7, <1>8, <1>9, <1>10, <1>11 DEF IInv, Places, Sent

LEMMA BeginDiscardKeeps ==
    ASSUME IInv, NEW d \in Disposers, NEW r \in RequestIds, BeginDiscard(d, r) PROVE IInv'
<1> DEFINE x == At("fail", desc[r])
<1>1. /\ d \in Procs /\ at[d].pc = "start" /\ desc[r] \in Attempts /\ desc[r] \in Procs
      /\ disposing' = disposing \union {r} /\ at' = [at EXCEPT ![d] = x]
      /\ UNCHANGED <<files, pin, desc, lock, wire>>
  BY Constants DEF BeginDiscard
<1>2. x \in Where /\ x.pc = "fail" /\ x.ns = desc[r]
  BY <1>1 DEF At, Where, Pcs, Locked
<1>3. at'[d] = x
  BY <1>1 DEF IInv, Typed
<1> HIDE DEF x
<1>4. Req[desc[r]] = r /\ pin[desc[r]].ver # 0
  BY <1>1 DEF IInv, Typed, Prepares
<1>5. \A a \in Attempts : Closed(a) => Closed(a)'
  BY <1>1 DEF Closed
<1>6. Disposing(d)'
  <2>1. PICK a \in Attempts : a = desc[r]
    BY <1>1
  <2>2. at'[d].ns = a /\ desc'[Req[a]] = a /\ Req[a] \in disposing' /\ pin'[a].ver # 0
    BY <1>1, <1>2, <1>3, <1>4, <2>1
  <2>3. at'[d].pc = "fail"
    BY <1>2, <1>3
  <2> QED BY <2>2, <2>3 DEF Disposing, Closed
<1>7. disposing' \subseteq RequestIds /\ desc' \in [RequestIds -> Attempts \union {None, Gone}]
  BY <1>1 DEF IInv, Typed
<1> QED BY <1>1, <1>2, <1>5, <1>6, <1>7, CloseStep DEF Locked

\* A descriptor is removed when its reference is gone.
LEMMA ReduceReleased ==
    ASSUME IInv, NEW d \in Disposers, Reduce(d)
    PROVE  /\ d \in Procs /\ at[d].pc = "reduce" /\ at[d].ns \in Attempts /\ Closed(at[d].ns)
           /\ ~ pin[at[d].ns].set /\ Req[at[d].ns] \in RequestIds
           /\ desc' = [desc EXCEPT ![Req[at[d].ns]] = Gone]
           /\ desc[Req[at[d].ns]] \in {at[d].ns, Gone}
  BY Constants DEF IInv, Places, Place, Disposing, Releases, Released, Reduce, Closed

LEMMA ReduceKeeps == ASSUME IInv, NEW d \in Disposers, Reduce(d) PROVE IInv'
<1> DEFINE r == Req[at[d].ns]
<1>1. /\ d \in Procs /\ at[d].pc = "reduce" /\ r \in RequestIds /\ desc' = [desc EXCEPT ![r] = Gone]
      /\ ~ pin[at[d].ns].set /\ desc[r] \in {at[d].ns, Gone}
  BY ReduceReleased
<1>2. at' = Go(d, "start") /\ disposing' = disposing \ {r} /\ UNCHANGED <<files, pin, lock, wire>>
  BY DEF Reduce
<1>3. at' = [at EXCEPT ![d] = Moved(d, "start")] /\ Moved(d, "start") \in Where
      /\ Moved(d, "start").pc = "start" /\ at'[d] = Moved(d, "start")
  BY <1>1, <1>2, GoMoves DEF Pcs
<1> HIDE DEF Moved
<1>4. desc' \in [RequestIds -> Attempts \union {None, Gone}] /\ disposing' \subseteq RequestIds
      /\ desc \in [RequestIds -> Attempts \union {None, Gone}]
  BY <1>1, <1>2 DEF IInv, Typed
<1>5. \A a \in Attempts : Closed(a) => Closed(a)'
  <2> SUFFICES ASSUME NEW a \in Attempts, Closed(a) PROVE Closed(a)'
    OBVIOUS
  <2>1. Req[a] \in RequestIds
    BY Constants
  <2>2. CASE Req[a] = r
    BY <1>1, <1>4, <2>2 DEF Closed
  <2>3. CASE Req[a] # r
    BY <1>1, <1>2, <1>4, <2>1, <2>3 DEF Closed
  <2> QED BY <2>2, <2>3
<1>6. Disposing(d)'
  BY <1>3 DEF Disposing, Releases
<1>7. \A s \in RequestIds : desc'[s] = desc[s] \/ (desc'[s] = Gone /\ ~ pin[desc[s]].set)
  BY <1>1, <1>4
<1> HIDE DEF r
<1> QED BY <1>1, <1>2, <1>3, <1>4, <1>5, <1>6, <1>7, CloseStep DEF Locked

LEMMA InitIInv == ASSUME Init PROVE IInv
<1>1. \A p \in Procs : at[p] = At("start", p) /\ At("start", p) \in Where
                       /\ at[p].pc = "start" /\ at[p].ns = p
  BY DEF Init, At, Where, Pcs, Locked
<1>2. pin \in [Attempts -> Pin] /\ \A a \in Attempts : ~ pin[a].set /\ pin[a].ver = 0
  BY DEF Init, Pin
<1>3. Typed
  <2>1. IsFiniteSet(files) /\ Cardinality(files) = 0 /\ files = {}
    BY FS_EmptySet DEF Init
  <2>2. at \in [Procs -> Where]
    BY <1>1 DEF Init
  <2>3. \A r \in RequestIds : desc[r] = None
    BY DEF Init
  <2> QED BY <1>2, <2>1, <2>2, <2>3, PinsAssumption, Constants DEF Init, Typed
<1>4. Held /\ Prepares /\ Sent
  BY <1>1, Constants DEF Init, Held, Prepares, Sent, Relied, Preparing
<1>5. \A p \in Procs : Place(p)
  BY <1>1, Constants DEF Init, Place, Released, Locked
<1>6. \A a \in Attempts : Attempting(a)
  BY <1>1, <1>2, Constants DEF Init, Attempting, Fresh
<1>7. \A d \in Disposers : Disposing(d)
  BY <1>1, Constants DEF Disposing, Releases
<1> QED BY <1>3, <1>4, <1>5, <1>6, <1>7 DEF IInv, Places

LEMMA NextIInv == ASSUME IInv, [Next]_vars PROVE IInv'
<1>1. CASE UNCHANGED vars
  <2>1. Typed' /\ Held' /\ Prepares'
    BY <1>1 DEF IInv, Typed, Held, Has, Prepares, Relied, Preparing, Closed, vars
  <2>2. Places'
    BY <1>1 DEF IInv, Places, Place, Attempting, Disposing, Released, Releases, Fresh, Relied, Preparing, Closed, vars
  <2>3. Sent'
    BY <1>1 DEF IInv, Sent, Expected, Waits, Preparing, Closed, vars
  <2> QED BY <2>1, <2>2, <2>3 DEF IInv
<1>2. CASE \E m \in wire : Serve(m)
  BY <1>2, ServePinKeeps, ServePrepareKeeps DEF Serve
<1>3. CASE \E a \in Attempts : Attempt(a)
  BY <1>3, StartKeeps, CollectKeeps, WriteKeeps, SendPinKeeps, PinnedKeeps, SendPrepareKeeps,
     PreparedKeeps DEF Attempt
<1>4. CASE \E p \in Procs : Discard(p) \/ Break(p) \/ Die(p)
  BY <1>4, LockKeeps, OwnKeeps, OthersKeeps, SendUnpinKeeps, UnpinnedKeeps, SweepKeeps, BreakKeeps,
     DieKeeps DEF Discard
<1>5. CASE \E d \in Disposers : Reduce(d) \/ \E r \in RequestIds : BeginDiscard(d, r)
  BY <1>5, ReduceKeeps, BeginDiscardKeeps
<1> QED BY <1>1, <1>2, <1>3, <1>4, <1>5 DEF Next

\* The inductive invariant holds.
THEOREM Invariance == Spec => []IInv
  BY InitIInv, NextIInv, PTL DEF Spec

\* An operation that may be invoked has its reference and its bytes, what was
\* retained stays until it is discarded, and an attempt that ends leaves no
\* reference behind (retain_content, discard): what is relied on is held.
THEOREM InputsAreKept == Spec => []InputsKept
<1>1. ASSUME IInv PROVE TypeOK
  <2>1. \A a \in Attempts : pin[a].set \in BOOLEAN /\ pin[a].ver \in 0 .. 2
    BY <1>1 DEF IInv, Typed, Pin
  <2> QED BY <1>1, <2>1 DEF IInv, Typed, TypeOK, Inputs
<1>2. ASSUME IInv PROVE OperationHasInputs
  <2> SUFFICES ASSUME NEW r \in RequestIds \ disposing, desc[r] \in Attempts PROVE Has(desc[r])
    BY DEF OperationHasInputs
  <2>1. Req[desc[r]] = r
    BY <1>2 DEF IInv, Typed
  <2>2. Relied(desc[r])
    BY <2>1, Constants DEF Relied, Closed
  <2> QED BY <1>2, <2>2 DEF IInv, Held
<1>3. ASSUME IInv PROVE RetainedStays
  BY <1>3 DEF IInv, Held, Relied, Closed, RetainedStays
<1>4. ASSUME IInv PROVE NothingLeftBehind
  BY <1>4 DEF IInv, Places, Attempting, NothingLeftBehind
<1> QED BY <1>1, <1>2, <1>3, <1>4, Invariance, PTL DEF InputsKept

\* The descriptor of an operation is removed after its reference.
THEOREM DisposalReleases == Spec => DisposedIsReleased
<1> DEFINE Step == \A r \in RequestIds : desc[r] \in Attempts /\ desc'[r] = Gone => ~pin'[desc[r]].set
<1>1. ASSUME IInv, [Next]_vars PROVE [Step]_vars
  <2>1. CASE \E d \in Disposers : Reduce(d)
    <3>1. PICK d \in Disposers : Reduce(d)
      BY <2>1
    <3>2. /\ ~ pin[at[d].ns].set /\ desc' = [desc EXCEPT ![Req[at[d].ns]] = Gone] /\ pin' = pin
          /\ desc[Req[at[d].ns]] \in {at[d].ns, Gone} /\ at[d].ns \in Attempts
      BY <1>1, <3>1, ReduceReleased DEF Reduce
    <3>3. desc \in [RequestIds -> Attempts \union {None, Gone}]
      BY <1>1 DEF IInv, Typed
    <3> QED BY <3>2, <3>3, Constants
  <2>2. CASE \E m \in wire : Serve(m)
    <3>1. PICK m \in wire : ServePin(m) \/ ServePrepare(m)
      BY <2>2 DEF Serve
    <3>2. desc \in [RequestIds -> Attempts \union {None, Gone}] /\ m.ns \in Attempts
      BY <1>1 DEF IInv, Typed, Calls
    <3>3. \A r \in RequestIds : desc'[r] = Gone => desc[r] = Gone
      BY <3>1, <3>2, Constants DEF ServePin, ServePrepare
    <3> QED BY <3>3, Constants
  <2>3. CASE UNCHANGED desc
    BY <2>3, Constants
  <2> QED BY <1>1, <2>1, <2>2, <2>3
       DEF Next, Attempt, Discard, Start, Collect, Write, SendPin, Pinned, SendPrepare, Prepared, Lock, Own,
           Others, SendUnpin, Unpinned, Sweep, Break, Die, BeginDiscard, owner, vars
<1> QED BY <1>1, Invariance, PTL DEF Spec, DisposedIsReleased

=============================================================================
