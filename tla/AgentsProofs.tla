---------------------------- MODULE AgentsProofs ----------------------------
(***************************************************************************)
(* Theorems about Agents, for any threads, folders and sessions, any caps  *)
(* and every move of the environment.                                      *)
(*                                                                         *)
(* OwnedOnce is not inductive.  A folder's agent is started when the pool  *)
(* has none, so it must be known that the reserved session of such a       *)
(* folder has no window left (Once), and that what the pool holds is what  *)
(* is reserved (PoolReserved).                                             *)
(***************************************************************************)
EXTENDS Agents, TLAPS

Windows == [Sid -> [n : Nat, stage : Stages, mcp : BOOLEAN, idle : Idle]]
OffHasNone(w) == \A s \in Sid : w[s].stage = "off" <=> w[s].n = 0

\* Folders for which nothing runs: their reserved session has no window
Free == {c \in targets : (up /\ mem.pool[c] = None) \/ ~owner}

\* The parts of the invariant, of any reservations, windows and pool
Distinct(r) == \A c, d \in Cwd : r[c] # None /\ r[c] = r[d] => c = d
Alone(r, w, free, rev) ==
    \A c \in Cwd : r[c] # None /\ r[c] \notin rev =>
        w[r[c]].n < 2 /\ (c \in free => w[r[c]].n = 0)
Backed(p, r) == \A c \in Cwd : p[c] # None => r[c] = p[c]

PoolReserved == Backed(mem.pool, reserved)
Once == Alone(reserved, win, Free, revived)
Owners == OneOwner /\ PoolReserved /\ Once
IInv == TypeOK /\ Owners

(* What a step of the system may do to the memory keeps its type. *)
LEMMA MemoryFields ==
    ASSUME NEW m, m \in Memory
    PROVE  /\ m.pool \in [Cwd -> Sid \cup {None}] /\ m.resumed \subseteq Cwd /\ m.gaveUp \subseteq Cwd
           /\ m.starting \subseteq Sid /\ m.mcp \subseteq Sid /\ m.ended \subseteq Sid
           /\ m.watch \in [Sid -> Thread \cup {None, Unknown}] /\ m.drain \in [Thread -> Sid \cup {None}]
BY DEF Memory

LEMMA BlankIsMemory == Blank \in Memory
BY DEF Blank, Memory

LEMMA ForgotIsMemory ==
    ASSUME NEW m \in Memory, NEW ss
    PROVE  Forgot(m, ss) \in Memory /\ Forgot(m, ss).pool = m.pool
           /\ Forgot(m, ss).drain = m.drain /\ Forgot(m, ss).watch = m.watch
BY DEF Forgot, Memory

LEMMA ReleasedIsMemory ==
    ASSUME NEW m \in Memory, NEW c \in Cwd
    PROVE  Released(m, c) \in Memory
           /\ Released(m, c).pool = [m.pool EXCEPT ![c] = None]
BY DEF Released, Memory

LEMMA WatchedIsMemory ==
    ASSUME NEW m \in Memory, NEW s \in Sid, NEW t \in Thread \cup {None}
    PROVE  Watched(m, s, t) \in Memory /\ Watched(m, s, t).pool = m.pool
BY DEF Watched, Memory

(* Opening adds a window, closing takes one away. *)
LEMMA OpenedIsWindows ==
    ASSUME NEW w \in Windows, OffHasNone(w), NEW s \in Sid
    PROVE  Opened(w, s) \in Windows /\ OffHasNone(Opened(w, s))
           /\ Opened(w, s)[s].n = w[s].n + 1
           /\ \A x \in Sid \ {s} : Opened(w, s)[x] = w[x]
BY DEF Opened, Windows, OffHasNone, Stages, Idle

LEMMA ClosedIsWindows ==
    ASSUME NEW w \in Windows, OffHasNone(w), NEW s \in Sid
    PROVE  Closed(w, s) \in Windows /\ OffHasNone(Closed(w, s))
           /\ Closed(w, s)[s].n <= w[s].n /\ (w[s].n < 2 => Closed(w, s)[s].n = 0)
           /\ \A x \in Sid \ {s} : Closed(w, s)[x] = w[x]
<1>1. CASE w[s].n > 1
  BY <1>1 DEF Closed, Windows, OffHasNone, Stages, Idle
<1>2. CASE ~(w[s].n > 1)
  BY <1>2 DEF Closed, Windows, OffHasNone, Stages, Idle, NoWindow
<1>3. QED BY <1>1, <1>2

LEMMA ClosedAllIsWindows ==
    ASSUME NEW w \in Windows, OffHasNone(w), NEW ss
    PROVE  /\ ClosedAll(w, ss) \in Windows /\ OffHasNone(ClosedAll(w, ss))
           /\ \A s \in Sid : ClosedAll(w, ss)[s].n <= w[s].n
           /\ \A s \in Sid : s \in ss /\ w[s].n < 2 => ClosedAll(w, ss)[s].n = 0
           /\ \A s \in Sid : s \notin ss => ClosedAll(w, ss)[s] = w[s]
<1>1. \A s \in Sid : /\ ClosedAll(w, ss)[s] \in [n : Nat, stage : Stages, mcp : BOOLEAN, idle : Idle]
                     /\ ClosedAll(w, ss)[s].stage = "off" <=> ClosedAll(w, ss)[s].n = 0
                     /\ ClosedAll(w, ss)[s].n <= w[s].n
                     /\ s \in ss /\ w[s].n < 2 => ClosedAll(w, ss)[s].n = 0
                     /\ s \notin ss => ClosedAll(w, ss)[s] = w[s]
  <2> TAKE s \in Sid
  <2>1. CASE s \in ss
    <3>1. ClosedAll(w, ss)[s] = Closed(w, s)[s]  BY <2>1 DEF ClosedAll
    <3>2. Closed(w, s) \in Windows /\ OffHasNone(Closed(w, s)) /\ Closed(w, s)[s].n <= w[s].n
          /\ (w[s].n < 2 => Closed(w, s)[s].n = 0)
      BY ClosedIsWindows
    <3>3. QED BY <2>1, <3>1, <3>2 DEF Windows, OffHasNone
  <2>2. CASE s \notin ss
    <3>1. ClosedAll(w, ss)[s] = w[s]  BY <2>2 DEF ClosedAll
    <3>2. QED BY <2>2, <3>1 DEF Windows, OffHasNone
  <2>3. QED BY <2>1, <2>2
<1>2. ClosedAll(w, ss) \in Windows  BY <1>1 DEF ClosedAll, Windows
<1>3. QED BY <1>1, <1>2 DEF OffHasNone

-----------------------------------------------------------------------------
(* Filling the pool                                                        *)

\* What Refill does, by the folders it starts an agent for, those of them it
\* resumes, and the session each gets
Started(m, w, r, need, resume, sid) ==
    /\ need \subseteq Wanted(owner', targets') /\ resume \subseteq need
    /\ \A c \in need : m.pool[c] = None
    /\ \A c \in resume : sid[c] = r[c] /\ r[c] \in Sid
    /\ \A c \in need \ resume :
          /\ sid[c] \in Sid /\ w[sid[c]].n = 0
          /\ sid[c] \notin Bound(bound') \cup Held(r)
    /\ \A c, d \in need \ resume : sid[c] = sid[d] => c = d
    /\ reserved' = [c \in Cwd |-> IF c \in need THEN sid[c] ELSE r[c]]
    /\ win' = [s \in Sid |-> IF s \in {sid[c] : c \in need} THEN Opened(w, s)[s] ELSE w[s]]
    /\ history' \subseteq history
    /\ mem' \in Memory
    /\ mem'.pool = [c \in Cwd |-> IF c \in need THEN sid[c]
                                  ELSE IF c \in Wanted(owner', targets') THEN m.pool[c] ELSE None]

FillsPool(m, w, r) == \E need, resume \in SUBSET Cwd : \E sid : Started(m, w, r, need, resume, sid)

LEMMA RefillFills ==
    ASSUME NEW m \in Memory, NEW w \in Windows, NEW r \in [Cwd -> Sid \cup {None}],
           history \subseteq Sid, targets' \subseteq Cwd, Refill(m, w, r)
    PROVE  FillsPool(m, w, r)
<1> DEFINE want == Wanted(owner', targets')
           kept == [c \in Cwd |-> IF c \in want THEN m.pool[c] ELSE None]
           need == IF limited THEN {}
                   ELSE {c \in want \ (Missing \cup m.gaveUp) : kept[c] = None}
           resume == {c \in need : r[c] # None /\ r[c] \in history}
           spare == Spare(w, bound', r, [m EXCEPT !.pool = kept])
           cuts == {f \in [need \ resume -> spare] :
                      \A c, d \in need \ resume : f[c] = f[d] => c = d}
           cut == CHOOSE f \in cuts : TRUE
           sid == [c \in need |-> IF c \in resume THEN r[c] ELSE cut[c]]
           new == {sid[c] : c \in need}
<1>1. /\ cuts # {}
      /\ reserved' = [c \in Cwd |-> IF c \in need THEN sid[c] ELSE r[c]]
      /\ win' = [s \in Sid |-> IF s \in new THEN Opened(w, s)[s] ELSE w[s]]
      /\ mem' = [m EXCEPT !.pool = [c \in Cwd |-> IF c \in need THEN sid[c] ELSE kept[c]],
                          !.resumed = (@ \ need) \cup resume,
                          !.starting = @ \cup new,
                          !.watch = [s \in Sid |-> IF s \in new THEN None ELSE @[s]],
                          !.ended = @ \ {sid[c] : c \in need \ resume},
                          !.mcp = @ \ {sid[c] : c \in need \ resume}]
      /\ history' = history \ {sid[c] : c \in need \ resume}
  BY DEF Refill
<1>2. want \subseteq Cwd /\ need \subseteq want /\ need \subseteq Cwd /\ resume \subseteq need
  BY DEF Wanted
<1>3. cut \in cuts  BY <1>1
<1>4. cut \in [need \ resume -> spare] /\ \A c, d \in need \ resume : cut[c] = cut[d] => c = d
  BY <1>3
<1>5. \A s \in spare : s \in Sid /\ w[s].n = 0 /\ s \notin Bound(bound') \cup Held(r)
  BY DEF Spare
<1>6. \A c \in need : m.pool[c] = None  BY <1>2
<1>7. \A c \in resume : sid[c] = r[c] /\ r[c] \in Sid  BY <1>2
<1>8. \A c \in need \ resume : sid[c] = cut[c] /\ sid[c] \in spare  BY <1>2, <1>4
<1>9. \A c, d \in need \ resume : sid[c] = sid[d] => c = d  BY <1>4, <1>8
<1>10. \A c \in need : sid[c] \in Sid  BY <1>5, <1>7, <1>8
<1>11. new \subseteq Sid
  <2> HIDE DEF want, kept, need, resume, spare, cuts, cut, sid
  <2>1. QED BY <1>10
<1>12. mem' \in Memory
       /\ mem'.pool = [c \in Cwd |-> IF c \in need THEN sid[c] ELSE kept[c]]
  <2> HIDE DEF want, kept, need, resume, spare, cuts, cut, sid
  <2>1. m.pool \in [Cwd -> Sid \cup {None}]  BY MemoryFields
  <2>2. [c \in Cwd |-> IF c \in need THEN sid[c] ELSE kept[c]] \in [Cwd -> Sid \cup {None}]
    BY <1>10, <2>1 DEF kept
  <2>3. [s \in Sid |-> IF s \in new THEN None ELSE m.watch[s]] \in [Sid -> Thread \cup {None, Unknown}]
    BY MemoryFields
  <2>4. (m.resumed \ need) \cup resume \subseteq Cwd /\ m.starting \cup new \subseteq Sid
    BY MemoryFields, <1>2, <1>11
  <2>5. QED BY <1>1, <2>2, <2>3, <2>4 DEF Memory
<1>13. mem'.pool = [c \in Cwd |-> IF c \in need THEN sid[c] ELSE IF c \in want THEN m.pool[c] ELSE None]
  BY <1>12
<1>14. Started(m, w, r, need, resume, sid)
  <2> HIDE DEF want, kept, need, resume, spare, cuts, cut, sid
  <2>1. \A c \in need \ resume : sid[c] \in Sid /\ w[sid[c]].n = 0 /\ sid[c] \notin Bound(bound') \cup Held(r)
    BY <1>5, <1>8
  <2>2. need \subseteq Wanted(owner', targets')  BY <1>2 DEF want
  <2>3. mem'.pool = [c \in Cwd |-> IF c \in need THEN sid[c]
                                  ELSE IF c \in Wanted(owner', targets') THEN m.pool[c] ELSE None]
    BY <1>13 DEF want
  <2>4. QED BY <1>1, <1>2, <1>6, <1>7, <2>1, <1>9, <1>12, <2>2, <2>3 DEF Started
<1>15. need \in SUBSET Cwd /\ resume \in SUBSET Cwd  BY <1>2
<1>16. QED
  <2> HIDE DEF want, kept, need, resume, spare, cuts, cut, sid
  <2>1. QED BY <1>14, <1>15 DEF FillsPool

(* A refill keeps the invariant: what it starts had no window, and belongs  *)
(* to one folder and to no thread.                                         *)
LEMMA RefillKeeps ==
    ASSUME NEW m \in Memory, NEW w \in Windows, NEW r \in [Cwd -> Sid \cup {None}],
           OffHasNone(w), None \notin Sid,
           history \subseteq Sid, targets' \subseteq Cwd,
           Refill(m, w, r),
           Distinct(r), Backed(m.pool, r), Bound(bound') \cap Held(r) = {},
           Alone(r, w, {c \in targets' : m.pool[c] = None \/ ~owner'}, revived')
    PROVE  /\ reserved' \in [Cwd -> Sid \cup {None}] /\ win' \in Windows /\ OffHasNone(win')
           /\ mem' \in Memory /\ history' \subseteq Sid
           /\ Distinct(reserved') /\ Backed(mem'.pool, reserved') /\ Bound(bound') \cap Held(reserved') = {}
           /\ Alone(reserved', win', {c \in targets' : mem'.pool[c] = None \/ ~owner'}, revived')
<1>1. FillsPool(m, w, r)  BY RefillFills
<1>2. PICK need \in SUBSET Cwd, resume \in SUBSET Cwd : \E sid : Started(m, w, r, need, resume, sid)
  BY <1>1 DEF FillsPool
<1>3. PICK sid : Started(m, w, r, need, resume, sid)  BY <1>2
<1>4. need \subseteq targets' /\ (need # {} => owner')  BY <1>3 DEF Started, Wanted
<1>5. \A c \in need : sid[c] \in Sid  BY <1>3 DEF Started
<1>6. reserved' = [c \in Cwd |-> IF c \in need THEN sid[c] ELSE r[c]]
      /\ win' = [s \in Sid |-> IF s \in {sid[c] : c \in need} THEN Opened(w, s)[s] ELSE w[s]]
      /\ history' \subseteq history /\ mem' \in Memory
      /\ mem'.pool = [c \in Cwd |-> IF c \in need THEN sid[c]
                                    ELSE IF c \in Wanted(owner', targets') THEN m.pool[c] ELSE None]
  BY <1>3 DEF Started
<1>7. \A s \in Sid : /\ win'[s] \in [n : Nat, stage : Stages, mcp : BOOLEAN, idle : Idle]
                     /\ win'[s].stage = "off" <=> win'[s].n = 0
                     /\ s \in {sid[c] : c \in need} => win'[s].n = w[s].n + 1
                     /\ s \notin {sid[c] : c \in need} => win'[s] = w[s]
  <2> TAKE s \in Sid
  <2>1. Opened(w, s) \in Windows /\ OffHasNone(Opened(w, s)) /\ Opened(w, s)[s].n = w[s].n + 1
    BY OpenedIsWindows
  <2>2. QED BY <2>1, <1>6 DEF Windows, OffHasNone
<1>8. win' \in Windows /\ OffHasNone(win')
  BY <1>6, <1>7 DEF Windows, OffHasNone
<1>9. reserved' \in [Cwd -> Sid \cup {None}]  BY <1>5, <1>6
<1>10. \A c \in need, d \in Cwd : sid[c] = reserved'[d] => c = d
  <2> TAKE c \in need, d \in Cwd
  <2>1. CASE d \in need
    <3>1. reserved'[d] = sid[d]  BY <2>1, <1>6
    <3>2. CASE c \in resume /\ d \in resume
      BY <3>1, <3>2, <1>3 DEF Started, Distinct
    <3>3. CASE c \in resume /\ d \notin resume
      <4>1. sid[c] = r[c] /\ r[c] \in Sid /\ sid[d] \notin Held(r)  BY <3>3, <2>1, <1>3 DEF Started
      <4>2. QED BY <3>1, <4>1 DEF Held
    <3>4. CASE c \notin resume /\ d \in resume
      <4>1. sid[d] = r[d] /\ r[d] \in Sid /\ sid[c] \notin Held(r)  BY <3>4, <2>1, <1>3 DEF Started
      <4>2. QED BY <3>1, <4>1 DEF Held
    <3>5. CASE c \notin resume /\ d \notin resume
      BY <3>1, <3>5, <2>1, <1>3 DEF Started
    <3>6. QED BY <3>2, <3>3, <3>4, <3>5
  <2>2. CASE d \notin need
    <3>1. reserved'[d] = r[d]  BY <2>2, <1>6
    <3>2. CASE c \in resume
      BY <3>1, <3>2, <1>3 DEF Started, Distinct
    <3>3. CASE c \notin resume
      <4>1. sid[c] \in Sid /\ sid[c] \notin Held(r)  BY <3>3, <1>3 DEF Started
      <4>2. QED BY <3>1, <4>1 DEF Held
    <3>4. QED BY <3>2, <3>3
  <2>3. QED BY <2>1, <2>2
<1>11. Distinct(reserved')
  BY <1>6, <1>10 DEF Distinct
<1>12. Backed(mem'.pool, reserved')
  BY <1>6 DEF Backed
<1>13. Bound(bound') \cap Held(reserved') = {}
  <2>1. \A c \in need : sid[c] \notin Bound(bound')
    <3> TAKE c \in need
    <3>1. CASE c \in resume
      <4>1. sid[c] = r[c] /\ r[c] \in Held(r)  BY <3>1, <1>3 DEF Started, Held
      <4>2. QED BY <4>1
    <3>2. CASE c \notin resume  BY <3>2, <1>3 DEF Started
    <3>3. QED BY <3>1, <3>2
  <2>2. \A c \in Cwd \ need : reserved'[c] = r[c]  BY <1>6
  <2>3. \A c \in need : reserved'[c] = sid[c]  BY <1>6
  <2>4. QED BY <2>1, <2>2, <2>3 DEF Held
<1>14. ASSUME NEW c \in Cwd, reserved'[c] # None, reserved'[c] \notin revived'
       PROVE  /\ win'[reserved'[c]].n < 2
              /\ c \in targets' /\ (mem'.pool[c] = None \/ ~owner') => win'[reserved'[c]].n = 0
  <2>1. CASE c \in need
    <3>1. reserved'[c] = sid[c] /\ mem'.pool[c] = sid[c] /\ sid[c] \in Sid /\ owner' /\ c \in targets'
      BY <2>1, <1>4, <1>5, <1>6
    <3>2. w[sid[c]].n = 0
      <4>1. CASE c \in resume
        <5>1. sid[c] = r[c] /\ r[c] # None /\ m.pool[c] = None  BY <2>1, <4>1, <1>3 DEF Started
        <5>2. QED BY <5>1, <3>1, <1>14 DEF Alone
      <4>2. CASE c \notin resume  BY <2>1, <4>2, <1>3 DEF Started
      <4>3. QED BY <4>1, <4>2
    <3>3. win'[sid[c]].n = 1  BY <3>1, <3>2, <2>1, <1>7
    <3>4. QED BY <3>1, <3>3
  <2>2. CASE c \notin need
    <3>1. reserved'[c] = r[c] /\ r[c] \in Sid  BY <2>2, <1>6, <1>14
    <3>2. r[c] \notin {sid[d] : d \in need}  BY <3>1, <2>2, <1>10
    <3>3. win'[r[c]] = w[r[c]]  BY <3>1, <3>2, <1>7
    <3>4. w[r[c]].n < 2 /\ (c \in targets' /\ (m.pool[c] = None \/ ~owner') => w[r[c]].n = 0)
      BY <3>1, <1>14 DEF Alone
    <3>5. c \in targets' /\ (mem'.pool[c] = None \/ ~owner') => (m.pool[c] = None \/ ~owner')
      BY <2>2, <1>6 DEF Wanted
    <3>6. QED BY <3>1, <3>3, <3>4, <3>5
  <2>3. QED BY <2>1, <2>2
<1>15. Alone(reserved', win', {c \in targets' : mem'.pool[c] = None \/ ~owner'}, revived')
  BY <1>14 DEF Alone
<1>16. QED BY <1>6, <1>8, <1>9, <1>11, <1>12, <1>13, <1>15

-----------------------------------------------------------------------------
(* Whose the agents are, step by step                                      *)

(* A step that gives no thread and no folder anything, and opens no window,  *)
(* keeps the invariant, as long as the folders it leaves without an agent  *)
(* leave none running.                                                     *)
LEMMA FewerKeeps ==
    ASSUME None \notin Sid, None # Unknown, Unknown \notin Sid,
           win \in Windows, win' \in Windows,
           reserved \in [Cwd -> Sid \cup {None}], mem.pool \in [Cwd -> Sid \cup {None}],
           Owners,
           \A t \in Thread : bound'[t] \in {bound[t], None, Unknown},
           \A c \in Cwd : reserved'[c] \in {reserved[c], None},
           \A c \in Cwd : /\ mem'.pool[c] \in {mem.pool[c], None}
                          /\ mem'.pool[c] # None => reserved'[c] = reserved[c],
           \A s \in Sid : win'[s].n <= win[s].n,
           revived' = revived,
           \A c \in Free' : \/ c \in Free \/ reserved'[c] = None \/ reserved[c] \in revived
                            \/ win'[reserved[c]].n = 0
    PROVE  Owners'
<1>1. Bound(bound') \subseteq Bound(bound)  BY DEF Bound
<1>2. Held(reserved') \subseteq Held(reserved) /\ Held(mem'.pool) \subseteq Held(mem.pool)  BY DEF Held
<1>3. OneOwner'
  <2>1. \A t, u \in Thread : bound'[t] \in Sid /\ bound'[t] = bound'[u] => t = u
    BY DEF Owners, OneOwner
  <2>2. \A c, d \in Cwd : reserved'[c] # None /\ reserved'[c] = reserved'[d] => c = d
    BY DEF Owners, OneOwner
  <2>3. Bound(bound') \cap (Held(reserved') \cup Held(mem'.pool)) = {}
    BY <1>1, <1>2 DEF Owners, OneOwner
  <2>4. QED BY <2>1, <2>2, <2>3 DEF OneOwner
<1>4. PoolReserved'
  BY DEF Owners, PoolReserved, Backed
<1>5. Once'
  <2> SUFFICES ASSUME NEW c \in Cwd, reserved'[c] # None, reserved'[c] \notin revived'
               PROVE  win'[reserved'[c]].n < 2 /\ (c \in Free' => win'[reserved'[c]].n = 0)
    BY DEF Once, Alone
  <2>1. reserved'[c] = reserved[c] /\ reserved[c] \in Sid /\ reserved[c] \notin revived  OBVIOUS
  <2>2. win[reserved[c]].n < 2 /\ (c \in Free => win[reserved[c]].n = 0)
    BY <2>1 DEF Owners, Once, Alone
  <2>3. win'[reserved[c]].n <= win[reserved[c]].n
        /\ win[reserved[c]].n \in Nat /\ win'[reserved[c]].n \in Nat
    BY <2>1 DEF Windows
  <2>4. QED BY <2>1, <2>2, <2>3
<1>6. QED BY <1>3, <1>4, <1>5 DEF Owners

\* What the proofs need of the types, step by step
Typed == TypeOK /\ TypeOK'

LEMMA TypeFields ==
    ASSUME TypeOK
    PROVE  /\ bound \in [Thread -> Sid \cup {None, Unknown}]
           /\ reserved \in [Cwd -> Sid \cup {None}]
           /\ win \in Windows /\ OffHasNone(win) /\ history \subseteq Sid
           /\ mem \in Memory /\ mem.pool \in [Cwd -> Sid \cup {None}]
           /\ targets \subseteq Cwd /\ owner \in BOOLEAN /\ up \in BOOLEAN
BY MemoryFields DEF TypeOK, Windows, OffHasNone

(* Quiet steps: nobody's agent changes hands and no window is opened. *)
LEMMA QuietKeeps ==
    ASSUME IInv, Typed,
           bound' = bound, reserved' = reserved, settings' = settings, owner' = owner,
           mem'.pool = mem.pool, up' = up,
           \A s \in Sid : win'[s].n <= win[s].n
    PROVE  Owners'
<1>1. win' \in Windows /\ win \in Windows /\ mem.pool \in [Cwd -> Sid \cup {None}]
      /\ reserved \in [Cwd -> Sid \cup {None}]
  BY TypeFields DEF Typed, TypeOK, Windows
<1>2. Free' = Free  BY DEF Free, settings
<1>3. revived' = revived  BY DEF settings
<1>4. Owners  BY DEF IInv
<1>5. QED BY <1>1, <1>2, <1>3, <1>4, FewerKeeps, NamesAssumption

(* After a refill the whole invariant holds. *)
LEMMA Refilled ==
    ASSUME NEW m \in Memory, NEW w \in Windows, NEW r \in [Cwd -> Sid \cup {None}],
           OffHasNone(w), TypeOK,
           Refill(m, w, r), up' = TRUE, limited' = limited,
           targets' \subseteq Cwd, revived' \subseteq Sid, owner' \in BOOLEAN,
           owed' \subseteq Thread, asked' \subseteq Thread \X Prompts, faults' \in 0 .. MaxFaults,
           bound' \in [Thread -> Sid \cup {None, Unknown}],
           \A t, u \in Thread : bound'[t] \in Sid /\ bound'[t] = bound'[u] => t = u,
           Distinct(r), Backed(m.pool, r), Bound(bound') \cap Held(r) = {},
           Alone(r, w, {c \in targets' : m.pool[c] = None \/ ~owner'}, revived')
    PROVE  IInv'
<1>1. history \subseteq Sid /\ limited \in BOOLEAN  BY DEF TypeOK
<1>2. /\ reserved' \in [Cwd -> Sid \cup {None}] /\ win' \in Windows /\ OffHasNone(win')
      /\ mem' \in Memory /\ history' \subseteq Sid
      /\ Distinct(reserved') /\ Backed(mem'.pool, reserved') /\ Bound(bound') \cap Held(reserved') = {}
      /\ Alone(reserved', win', {c \in targets' : mem'.pool[c] = None \/ ~owner'}, revived')
  BY <1>1, RefillKeeps, NamesAssumption
<1>3. TypeOK'
  BY <1>1, <1>2 DEF TypeOK, Windows, OffHasNone
<1>4. Held(mem'.pool) \subseteq Held(reserved')
  BY <1>2 DEF Backed, Held
<1>5. OneOwner'
  BY <1>2, <1>4 DEF OneOwner, Distinct
<1>6. Free' = {c \in targets' : mem'.pool[c] = None \/ ~owner'}
  BY DEF Free
<1>7. Owners'
  BY <1>2, <1>5, <1>6 DEF Owners, PoolReserved, Once
<1>8. QED BY <1>3, <1>7 DEF IInv

\* What the invariant says of the reservations as they are
LEMMA AsReserved ==
    ASSUME IInv
    PROVE  /\ Distinct(reserved) /\ Backed(mem.pool, reserved)
           /\ Bound(bound) \cap Held(reserved) = {}
           /\ \A t, u \in Thread : bound[t] \in Sid /\ bound[t] = bound[u] => t = u
           /\ Alone(reserved, win, Free, revived)
BY DEF IInv, Owners, OneOwner, Distinct, PoolReserved, Once

LEMMA StepSweep ==
    ASSUME IInv, Sweep
    PROVE  IInv'
<1>1. TypeOK  BY DEF IInv
<1>2. up /\ up' = TRUE /\ bound' = bound /\ settings' = settings /\ owner' = owner /\ limited' = limited
      /\ talk' = talk /\ faults' = faults /\ Refill(mem, win, reserved)
  BY <1>1 DEF Sweep, TypeOK
<1>3. {c \in targets' : mem.pool[c] = None \/ ~owner'} = Free
  BY <1>2 DEF Free, settings
<1>4. Alone(reserved, win, {c \in targets' : mem.pool[c] = None \/ ~owner'}, revived')
  BY <1>2, <1>3, AsReserved DEF settings
<1>5. targets' \subseteq Cwd /\ revived' \subseteq Sid /\ owner' \in BOOLEAN /\ owed' \subseteq Thread
      /\ asked' \subseteq Thread \X Prompts /\ faults' \in 0 .. MaxFaults /\ bound' \in [Thread -> Sid \cup {None, Unknown}]
  BY <1>1, <1>2 DEF TypeOK, settings, talk
<1>6. Bound(bound') \cap Held(reserved) = {}
      /\ \A t, u \in Thread : bound'[t] \in Sid /\ bound'[t] = bound'[u] => t = u
  BY <1>2, AsReserved
<1>7. QED BY <1>1, <1>2, <1>4, <1>5, <1>6, TypeFields, AsReserved, Refilled

(* Whatever folders are wanted: one that is wanted again has no window of its *)
(* reserved session left, or is marked.                                    *)
LEMMA StepSetTargets ==
    ASSUME IInv, NEW tgs \in SUBSET Cwd, SetTargets(tgs)
    PROVE  IInv'
<1>1. TypeOK  BY DEF IInv
<1>2. /\ up /\ up' = TRUE /\ bound' = bound /\ owner' = owner /\ limited' = limited /\ talk' = talk
      /\ targets' = tgs /\ Refill(mem, win, reserved)
      /\ revived' = revived \cup {s \in Sid : HasWindow(s) /\ \E c \in tgs \ targets : reserved[c] = s}
      /\ faults' = faults + 1 /\ faults < MaxFaults
  BY <1>1 DEF SetTargets, TypeOK, Fault
<1>3. ASSUME NEW c \in Cwd, reserved[c] # None, reserved[c] \notin revived'
      PROVE  /\ win[reserved[c]].n < 2
             /\ c \in tgs /\ (mem.pool[c] = None \/ ~owner') => win[reserved[c]].n = 0
  <2>1. reserved[c] \in Sid /\ win[reserved[c]].n \in Nat  BY <1>3, TypeFields, <1>1 DEF Windows
  <2>2. reserved[c] \notin revived  BY <1>2, <1>3
  <2>3. win[reserved[c]].n < 2 /\ (c \in Free => win[reserved[c]].n = 0)
    BY <1>3, <2>2, AsReserved DEF Alone
  <2>4. CASE c \in targets
    BY <2>3, <2>4, <1>2 DEF Free
  <2>5. CASE c \in tgs \ targets
    <3>1. ~HasWindow(reserved[c])  BY <1>2, <1>3, <2>1, <2>5
    <3>2. QED BY <2>1, <2>3, <3>1 DEF HasWindow
  <2>6. QED BY <2>3, <2>4, <2>5
<1>4. Alone(reserved, win, {c \in targets' : mem.pool[c] = None \/ ~owner'}, revived')
  BY <1>2, <1>3 DEF Alone
<1>5. targets' \subseteq Cwd /\ revived' \subseteq Sid /\ owner' \in BOOLEAN /\ owed' \subseteq Thread
      /\ asked' \subseteq Thread \X Prompts /\ bound' \in [Thread -> Sid \cup {None, Unknown}]
  BY <1>1, <1>2 DEF TypeOK, talk
<1>6. faults' \in 0 .. MaxFaults  BY <1>1, <1>2, PolicyAssumption DEF TypeOK
<1>7. Bound(bound') \cap Held(reserved) = {}
      /\ \A t, u \in Thread : bound'[t] \in Sid /\ bound'[t] = bound'[u] => t = u
  BY <1>2, AsReserved
<1>8. QED BY <1>1, <1>2, <1>4, <1>5, <1>6, <1>7, TypeFields, AsReserved, Refilled

LEMMA StepLogin ==
    ASSUME IInv, Login
    PROVE  IInv'
<1> DEFINE m == [mem EXCEPT !.gaveUp = {}]
<1>1. TypeOK  BY DEF IInv
<1>2. /\ up /\ up' = TRUE /\ bound' = bound /\ ~owner /\ owner' = TRUE /\ limited' = limited /\ talk' = talk
      /\ settings' = settings /\ faults' = faults /\ Refill(m, win, reserved)
  BY <1>1 DEF Login, TypeOK
<1>3. m \in Memory /\ m.pool = mem.pool  BY <1>1, TypeFields DEF Memory
<1>4. Alone(reserved, win, {c \in targets' : m.pool[c] = None \/ ~owner'}, revived')
  BY <1>2, <1>3, AsReserved DEF settings, Alone, Free
<1>5. targets' \subseteq Cwd /\ revived' \subseteq Sid /\ owner' \in BOOLEAN /\ owed' \subseteq Thread
      /\ asked' \subseteq Thread \X Prompts /\ faults' \in 0 .. MaxFaults /\ bound' \in [Thread -> Sid \cup {None, Unknown}]
  BY <1>1, <1>2 DEF TypeOK, settings, talk
<1>6. Bound(bound') \cap Held(reserved) = {}
      /\ \A t, u \in Thread : bound'[t] \in Sid /\ bound'[t] = bound'[u] => t = u
  BY <1>2, AsReserved
<1>7. Backed(m.pool, reserved)  BY <1>3, AsReserved
<1> HIDE DEF m
<1>8. QED BY <1>1, <1>2, <1>3, <1>4, <1>5, <1>6, <1>7, TypeFields, AsReserved, Refilled

(* Signing out closes the pool's windows: nothing reserved runs after it,  *)
(* but what was let go of before.                                          *)
LEMMA StepLogout ==
    ASSUME IInv, Logout
    PROVE  IInv'
<1> DEFINE gone == Ended \cup Held(mem.pool)
           m == Forgot(Unpooled(mem), gone)
           w == ClosedAll(win, gone)
<1>1. TypeOK  BY DEF IInv
<1>2. /\ up /\ up' = TRUE /\ bound' = bound /\ owner' = FALSE /\ limited' = limited /\ asked' = asked
      /\ settings' = settings /\ owed' = LeftOwed /\ Refill(m, w, reserved)
      /\ faults' = faults + 1 /\ faults < MaxFaults
  BY <1>1 DEF Logout, TypeOK, Fault
<1>3. m \in Memory /\ m.pool = [c \in Cwd |-> None]
  <2>1. Unpooled(mem) \in Memory /\ Unpooled(mem).pool = [c \in Cwd |-> None]
    BY <1>1, TypeFields DEF Memory, Unpooled
  <2>2. QED BY <2>1, ForgotIsMemory
<1>4. /\ w \in Windows /\ OffHasNone(w)
      /\ \A s \in Sid : w[s].n <= win[s].n
      /\ \A s \in Sid : s \in gone /\ win[s].n < 2 => w[s].n = 0
  BY <1>1, TypeFields, ClosedAllIsWindows
<1>4a. Held(mem.pool) \subseteq gone  OBVIOUS
<1> HIDE DEF m, w, gone
<1>5. ASSUME NEW c \in Cwd, reserved[c] # None, reserved[c] \notin revived
      PROVE  w[reserved[c]].n < 2 /\ (c \in targets => w[reserved[c]].n = 0)
  <2>1. reserved[c] \in Sid  BY <1>5, <1>1, TypeFields
  <2>2. win[reserved[c]].n \in Nat /\ w[reserved[c]].n \in Nat  BY <2>1, <1>1, <1>4, TypeFields DEF Windows
  <2>3. win[reserved[c]].n < 2 /\ (c \in Free => win[reserved[c]].n = 0)
    BY <1>5, AsReserved DEF Alone
  <2>4. w[reserved[c]].n <= win[reserved[c]].n  BY <1>4, <2>1
  <2>5. CASE mem.pool[c] = None
    BY <2>2, <2>3, <2>4, <2>5, <1>2 DEF Free
  <2>6. CASE mem.pool[c] # None
    <3>1. reserved[c] = mem.pool[c]  BY <2>6, AsReserved DEF Backed
    <3>2. reserved[c] \in gone  BY <2>6, <3>1, <1>4a DEF Held
    <3>3. QED BY <1>4, <2>1, <2>3, <3>2
  <2>7. QED BY <2>5, <2>6
<1>6. Alone(reserved, w, {c \in targets' : m.pool[c] = None \/ ~owner'}, revived')
  BY <1>2, <1>5 DEF settings, Alone
<1>7. targets' \subseteq Cwd /\ revived' \subseteq Sid /\ owner' \in BOOLEAN /\ owed' \subseteq Thread
      /\ asked' \subseteq Thread \X Prompts /\ bound' \in [Thread -> Sid \cup {None, Unknown}]
  BY <1>1, <1>2 DEF TypeOK, settings, LeftOwed
<1>8. faults' \in 0 .. MaxFaults  BY <1>1, <1>2, PolicyAssumption DEF TypeOK
<1>9. Bound(bound') \cap Held(reserved) = {}
      /\ \A t, u \in Thread : bound'[t] \in Sid /\ bound'[t] = bound'[u] => t = u
  BY <1>2, AsReserved
<1>10. Backed(m.pool, reserved)  BY <1>3 DEF Backed
<1>11. QED BY <1>1, <1>2, <1>3, <1>4, <1>6, <1>7, <1>8, <1>9, <1>10, TypeFields, AsReserved, Refilled

(* The pool's agent goes to the thread, and its reservation with it.       *)
LEMMA StepClaim ==
    ASSUME IInv, NEW t \in Thread, Claim(t)
    PROVE  IInv'
<1> DEFINE c == CwdOf[t]
           s == mem.pool[c]
           m == Released(mem, c)
           w == [win EXCEPT ![s] = [@ EXCEPT !.idle = 0]]
           r == [reserved EXCEPT ![c] = None]
<1>1. TypeOK /\ c \in Cwd  BY FolderAssumption DEF IInv
<1>2. /\ up /\ up' = TRUE /\ owner' = owner /\ limited' = limited /\ asked' = asked
      /\ settings' = settings /\ faults' = faults /\ owed' = owed \cup {t}
      /\ bound[t] = Unknown /\ s # None /\ HasWindow(s) /\ bound' = [bound EXCEPT ![t] = s]
      /\ Refill(m, w, r)
  BY <1>1 DEF Claim, Takes, Offered, TypeOK
<1>3. m \in Memory /\ m.pool = [mem.pool EXCEPT ![c] = None]
  BY <1>1, TypeFields, ReleasedIsMemory
<1>4. s \in Sid /\ reserved[c] = s  BY <1>1, <1>2, TypeFields, AsReserved DEF Backed
<1>5. w \in Windows /\ OffHasNone(w) /\ \A x \in Sid : w[x].n = win[x].n
  BY <1>1, <1>4, TypeFields DEF Windows, OffHasNone, Idle
<1>6. r \in [Cwd -> Sid \cup {None}] /\ r[c] = None /\ \A d \in Cwd \ {c} : r[d] = reserved[d]
  BY <1>1, TypeFields
<1>7. s \notin Bound(bound)
  <2>1. s \in Held(reserved)  BY <1>1, <1>4, NamesAssumption DEF Held
  <2>2. QED BY <2>1, AsReserved
<1> HIDE DEF c, s, m, w, r
<1>8. bound' \in [Thread -> Sid \cup {None, Unknown}]  BY <1>1, <1>2, <1>4, TypeFields
<1>9. \A u \in Thread : bound'[u] = IF u = t THEN s ELSE bound[u]  BY <1>1, <1>2, TypeFields
<1>10. \A u, v \in Thread : bound'[u] \in Sid /\ bound'[u] = bound'[v] => u = v
  <2>1. \A u \in Thread : bound[u] # s  BY <1>4, <1>7, NamesAssumption DEF Bound
  <2>2. QED BY <2>1, <1>9, AsReserved
<1>11. Distinct(r)  BY <1>6, AsReserved DEF Distinct
<1>12. Backed(m.pool, r)  BY <1>1, <1>3, <1>6, TypeFields, AsReserved DEF Backed
<1>13. Bound(bound') \cap Held(r) = {}
  <2>1. Bound(bound') \subseteq Bound(bound) \cup {s}  BY <1>9 DEF Bound
  <2>2. Held(r) \subseteq Held(reserved)  BY <1>6 DEF Held
  <2>3. s \notin Held(r)
    <3>1. \A d \in Cwd \ {c} : reserved[d] # s  BY <1>1, <1>4, AsReserved, NamesAssumption DEF Distinct
    <3>2. QED BY <3>1, <1>2, <1>6 DEF Held
  <2>4. QED BY <2>1, <2>2, <2>3, AsReserved
<1>14. ASSUME NEW d \in Cwd, r[d] # None, r[d] \notin revived
       PROVE  w[r[d]].n < 2 /\ (d \in targets /\ (m.pool[d] = None \/ ~owner) => w[r[d]].n = 0)
  <2>1. d # c /\ r[d] = reserved[d] /\ reserved[d] \in Sid  BY <1>6, <1>14
  <2>2. m.pool[d] = mem.pool[d]  BY <2>1, <1>1, <1>3, TypeFields
  <2>3. w[r[d]].n = win[reserved[d]].n  BY <2>1, <1>5
  <2>4. win[reserved[d]].n < 2 /\ (d \in Free => win[reserved[d]].n = 0)
    BY <2>1, <1>14, AsReserved DEF Alone
  <2>5. QED BY <2>2, <2>3, <2>4, <1>2 DEF Free
<1>15. Alone(r, w, {d \in targets' : m.pool[d] = None \/ ~owner'}, revived')
  BY <1>2, <1>14 DEF settings, Alone
<1>16. targets' \subseteq Cwd /\ revived' \subseteq Sid /\ owner' \in BOOLEAN /\ owed' \subseteq Thread
       /\ asked' \subseteq Thread \X Prompts /\ faults' \in 0 .. MaxFaults
  BY <1>1, <1>2 DEF TypeOK, settings
<1>17. QED BY <1>1, <1>2, <1>3, <1>5, <1>6, <1>8, <1>10, <1>11, <1>12, <1>13, <1>15, <1>16, Refilled

(* A new session has no window and nobody holds it. *)
LEMMA StepSpawnNew ==
    ASSUME IInv, NEW t \in Thread, SpawnNew(t)
    PROVE  IInv'
<1> DEFINE m == IF Offered(t) # None THEN Released(mem, CwdOf[t]) ELSE mem
           spare == Spare(win, bound, reserved, m)
           s == CHOOSE x \in spare : TRUE
<1>1. TypeOK /\ CwdOf[t] \in Cwd  BY FolderAssumption DEF IInv
<1>2. /\ UNCHANGED <<reserved, settings, owner, limited, asked, up, faults>>
      /\ up /\ owed' = owed \cup {t} /\ spare # {}
      /\ bound' = [bound EXCEPT ![t] = s] /\ win' = Opened(win, s)
      /\ mem' = Watched(Forgot(m, {s}), s, t) /\ history' = history \ {s}
      /\ (Offered(t) # None => ~HasWindow(Offered(t)))
  BY DEF SpawnNew, Takes
<1>3. m \in Memory /\ \A d \in Cwd : m.pool[d] = mem.pool[d]
                                     \/ (d = CwdOf[t] /\ Offered(t) # None /\ m.pool[d] = None)
  <2>1. mem \in Memory /\ mem.pool \in [Cwd -> Sid \cup {None}]  BY <1>1, TypeFields
  <2>2. CASE Offered(t) # None
    <3>1. m = Released(mem, CwdOf[t])  BY <2>2
    <3>2. m \in Memory /\ m.pool = [mem.pool EXCEPT ![CwdOf[t]] = None]
      BY <3>1, <2>1, <1>1, ReleasedIsMemory
    <3>3. QED BY <2>1, <2>2, <3>2, <1>1
  <2>3. CASE Offered(t) = None
    BY <2>1, <2>3
  <2>4. QED BY <2>2, <2>3
<1>4. s \in spare  BY <1>2
<1>5. s \in Sid /\ win[s].n = 0 /\ s \notin Bound(bound) \cup Held(reserved) \cup Held(m.pool)
  BY <1>4 DEF Spare
<1> HIDE DEF m, spare, s
<1>6. win' \in Windows /\ OffHasNone(win') /\ \A x \in Sid \ {s} : win'[x] = win[x]
  BY <1>1, <1>2, <1>5, TypeFields, OpenedIsWindows
<1>7. mem' \in Memory /\ mem'.pool = m.pool
  BY <1>2, <1>3, <1>5, ForgotIsMemory, WatchedIsMemory
<1>8. TypeOK'
  BY <1>1, <1>2, <1>5, <1>6, <1>7 DEF TypeOK, Windows, OffHasNone, settings
<1>9. \A u \in Thread : bound'[u] = IF u = t THEN s ELSE bound[u]  BY <1>1, <1>2, TypeFields
<1>10. s \notin Held(reserved) /\ \A u \in Thread : bound[u] # s
  BY <1>5, NamesAssumption DEF Bound
<1>11. PoolReserved'
  BY <1>1, <1>2, <1>3, <1>7, AsReserved DEF PoolReserved, Backed
<1>12. Held(mem'.pool) \subseteq Held(reserved')
  BY <1>11 DEF PoolReserved, Backed, Held
<1>13. OneOwner'
  <2>1. Bound(bound') \subseteq Bound(bound) \cup {s}  BY <1>9 DEF Bound
  <2>2. \A u, v \in Thread : bound'[u] \in Sid /\ bound'[u] = bound'[v] => u = v
    BY <1>9, <1>10, AsReserved
  <2>3. reserved' = reserved  BY <1>2
  <2>4. QED BY <2>1, <2>2, <2>3, <1>10, <1>12, AsReserved DEF OneOwner, Distinct
<1>14. ASSUME NEW d \in Cwd, reserved[d] # None, reserved[d] \notin revived
       PROVE  win'[reserved[d]].n < 2 /\ (d \in Free' => win'[reserved[d]].n = 0)
  <2>1. reserved[d] \in Sid /\ reserved[d] # s  BY <1>14, <1>1, <1>10, TypeFields DEF Held
  <2>2. win'[reserved[d]] = win[reserved[d]]  BY <2>1, <1>6
  <2>3. win[reserved[d]].n < 2 /\ (d \in Free => win[reserved[d]].n = 0)
    BY <1>14, AsReserved DEF Alone
  <2>4. CASE mem'.pool[d] = mem.pool[d]
    BY <2>2, <2>3, <2>4, <1>2 DEF Free, settings
  <2>5. CASE mem'.pool[d] # mem.pool[d]
    <3>1. d = CwdOf[t] /\ Offered(t) # None  BY <2>5, <1>3, <1>7
    <3>2. Offered(t) = mem.pool[d] /\ mem.pool[d] # None  BY <3>1 DEF Offered
    <3>3. reserved[d] = mem.pool[d]  BY <3>2, AsReserved DEF Backed
    <3>4. ~HasWindow(reserved[d])  BY <3>1, <3>2, <3>3, <1>2
    <3>5. win[reserved[d]].n = 0  BY <3>4, <2>1, <1>1, TypeFields DEF HasWindow, Windows
    <3>6. QED BY <2>2, <3>5
  <2>6. QED BY <2>4, <2>5
<1>15. Once'
  BY <1>2, <1>14 DEF Once, Alone, settings
<1>16. QED BY <1>8, <1>11, <1>13, <1>15 DEF IInv, Owners

(* A session resumed for its thread is nobody else's. *)
LEMMA StepSpawnResume ==
    ASSUME IInv, NEW t \in Thread, SpawnResume(t)
    PROVE  IInv'
<1> DEFINE s == bound[t]
<1>1. TypeOK  BY DEF IInv
<1>2. /\ UNCHANGED <<bound, reserved, settings, owner, history, limited, asked, up, faults>>
      /\ owed' = owed \cup {t} /\ s \in Sid
      /\ win' = Opened(win, s) /\ mem' = Watched(mem, s, t)
  BY DEF SpawnResume, disk
<1>3. s \notin Held(reserved)
  <2>1. s \in Bound(bound)  BY <1>2, NamesAssumption DEF Bound
  <2>2. QED BY <2>1, AsReserved
<1> HIDE DEF s
<1>4. win' \in Windows /\ OffHasNone(win') /\ \A x \in Sid \ {s} : win'[x] = win[x]
  BY <1>1, <1>2, TypeFields, OpenedIsWindows
<1>5. mem' \in Memory /\ mem'.pool = mem.pool
  BY <1>1, <1>2, TypeFields, WatchedIsMemory
<1>6. TypeOK'
  BY <1>1, <1>2, <1>4, <1>5 DEF TypeOK, Windows, OffHasNone, settings
<1>7. OneOwner' /\ PoolReserved'
  BY <1>2, <1>5 DEF IInv, Owners, OneOwner, PoolReserved
<1>8. \A d \in Cwd : reserved[d] # None => reserved[d] # s  BY <1>3 DEF Held
<1>9. Free' = Free  BY <1>2, <1>5 DEF Free, settings
<1>10. \A d \in Cwd : reserved[d] # None => win'[reserved[d]] = win[reserved[d]]
  BY <1>1, <1>4, <1>8, TypeFields
<1>11. Once'
  BY <1>2, <1>9, <1>10, AsReserved DEF Once, Alone, settings
<1>12. QED BY <1>6, <1>7, <1>11 DEF IInv, Owners

(* The next process takes the reserved sessions that still run for its pool,  *)
(* and ends those of folders no longer wanted.                             *)
LEMMA StepBoot ==
    ASSUME IInv, Boot
    PROVE  IInv'
<1> DEFINE m == [Blank EXCEPT !.pool = [c \in Cwd |-> IF Restored(c) THEN reserved[c] ELSE None],
                              !.mcp = {reserved[c] : c \in {d \in Cwd : Restored(d)}}]
           w == ClosedAll(win, Discarded)
           r == [c \in Cwd |-> IF c \in targets THEN reserved[c] ELSE None]
<1>1. TypeOK /\ None \notin Sid  BY NamesAssumption DEF IInv
<1>2. /\ up' = TRUE /\ bound' = Resumable(bound, win)
      /\ UNCHANGED <<settings, owner, limited, faults>>
      /\ owed' = {t \in owed : bound'[t] \in Sid /\ HasWindow(bound'[t])} /\ asked' = {}
      /\ owner => Refill(m, w, r)
      /\ ~owner => mem' = Blank /\ UNCHANGED <<win, history, reserved>>
  BY DEF Boot
<1>3. bound' \in [Thread -> Sid \cup {None, Unknown}]
      /\ \A t \in Thread : bound'[t] \in {bound[t], Unknown}
  BY <1>1, <1>2, TypeFields DEF Resumable
<1>4. Bound(bound') \subseteq Bound(bound)  BY <1>3 DEF Bound
<1>5. \A t, u \in Thread : bound'[t] \in Sid /\ bound'[t] = bound'[u] => t = u
  BY <1>3, AsReserved, NamesAssumption
<1>6. targets' \subseteq Cwd /\ revived' \subseteq Sid /\ owner' \in BOOLEAN /\ owed' \subseteq Thread
      /\ asked' \subseteq Thread \X Prompts /\ faults' \in 0 .. MaxFaults
  BY <1>1, <1>2 DEF TypeOK, settings
<1>7. CASE owner
  <2>1. \A c \in Cwd : Restored(c) => reserved[c] \in Sid
    BY <1>1, TypeFields DEF Restored
  <2>2. m \in Memory /\ m.pool = [c \in Cwd |-> IF Restored(c) THEN reserved[c] ELSE None]
    <3>1. [c \in Cwd |-> IF Restored(c) THEN reserved[c] ELSE None] \in [Cwd -> Sid \cup {None}]
      BY <2>1
    <3>2. {reserved[c] : c \in {d \in Cwd : Restored(d)}} \subseteq Sid  BY <2>1
    <3>3. QED BY <3>1, <3>2, BlankIsMemory DEF Memory
  <2>3. w \in Windows /\ OffHasNone(w) /\ \A s \in Sid : w[s].n <= win[s].n
    BY <1>1, TypeFields, ClosedAllIsWindows
  <2>4. r \in [Cwd -> Sid \cup {None}] /\ \A c \in Cwd : r[c] # None => c \in targets /\ r[c] = reserved[c]
    BY <1>1, TypeFields
  <2> HIDE DEF m, w, r
  <2>5. Distinct(r)  BY <2>4, AsReserved DEF Distinct
  <2>6. Backed(m.pool, r)
    <3>1. \A c \in Cwd : Restored(c) => r[c] = reserved[c]  BY DEF Restored, r
    <3>2. QED BY <2>2, <3>1 DEF Backed
  <2>7. Bound(bound') \cap Held(r) = {}
    <3>1. Held(r) \subseteq Held(reserved)  BY <2>4 DEF Held
    <3>2. QED BY <1>4, <3>1, AsReserved
  <2>8. ASSUME NEW c \in Cwd, r[c] # None, r[c] \notin revived
        PROVE  w[r[c]].n < 2 /\ (c \in targets /\ (m.pool[c] = None \/ ~owner) => w[r[c]].n = 0)
    <3>1. c \in targets /\ r[c] = reserved[c] /\ reserved[c] \in Sid  BY <2>4, <2>8
    <3>2. win[r[c]].n \in Nat /\ w[r[c]].n \in Nat /\ w[r[c]].n <= win[r[c]].n
      BY <3>1, <2>3, <1>1, TypeFields DEF Windows
    <3>3. win[r[c]].n < 2  BY <3>1, <2>8, AsReserved DEF Alone
    <3>4. ASSUME m.pool[c] = None PROVE win[r[c]].n = 0
      <4>1. ~Restored(c)  BY <3>4, <2>1, <2>2, <1>1
      <4>2. ~HasWindow(reserved[c])  BY <4>1, <3>1, <1>1 DEF Restored
      <4>3. QED BY <4>2, <3>1, <3>2 DEF HasWindow
    <3>5. QED BY <3>2, <3>3, <3>4, <1>7
  <2>9. Alone(r, w, {c \in targets' : m.pool[c] = None \/ ~owner'}, revived')
    BY <1>2, <2>8 DEF Alone, settings
  <2>10. Refill(m, w, r) /\ limited' = limited  BY <1>2, <1>7
  <2>11. QED BY <1>1, <1>2, <1>3, <1>5, <1>6, <2>2, <2>3, <2>4, <2>5, <2>6, <2>7, <2>9, <2>10, Refilled
<1>8. CASE ~owner
  <2>1. mem' = Blank /\ UNCHANGED <<win, history, reserved, settings, owner, limited>>  BY <1>2, <1>8
  <2>2. mem' \in Memory /\ \A c \in Cwd : mem'.pool[c] = None  BY <2>1, BlankIsMemory DEF Blank
  <2>3. TypeOK'  BY <1>1, <1>2, <1>3, <1>6, <2>1, <2>2 DEF TypeOK, settings
  <2>4. Free' = Free  BY <2>1, <1>8 DEF Free, settings
  <2>5. Owners'
    <3>1. win \in Windows /\ win' \in Windows /\ reserved \in [Cwd -> Sid \cup {None}]
          /\ mem.pool \in [Cwd -> Sid \cup {None}] /\ Owners
      BY <1>1, <2>1, TypeFields DEF IInv
    <3>2. \A s \in Sid : win'[s].n <= win[s].n  BY <2>1, <3>1 DEF Windows
    <3>3. revived' = revived /\ reserved' = reserved  BY <2>1 DEF settings
    <3>4. QED BY <3>1, <3>2, <3>3, <2>2, <2>4, <1>3, FewerKeeps, NamesAssumption
  <2>6. QED BY <2>3, <2>5 DEF IInv
<1>9. QED BY <1>7, <1>8

(* An agent that says it ended leaves the pool, with no window of its own.  *)
LEMMA StepExit ==
    ASSUME IInv, NEW s \in Sid, Exit(s)
    PROVE  IInv'
<1>1. TypeOK /\ None \notin Sid  BY NamesAssumption DEF IInv
<1>2. /\ win' = Closed(win, s) /\ UNCHANGED <<disk, limited, talk, history, up>>
      /\ mem' = IF up THEN [mem EXCEPT !.ended = @ \cup {s},
                                       !.pool = [c \in Cwd |-> IF @[c] = s THEN None ELSE @[c]]] ELSE mem
      /\ faults < MaxFaults /\ faults' = faults + 1
  BY DEF Exit, Fault, EndOnly, Told
<1>3. /\ win' \in Windows /\ OffHasNone(win') /\ win'[s].n <= win[s].n /\ (win[s].n < 2 => win'[s].n = 0)
      /\ \A x \in Sid \ {s} : win'[x] = win[x]
  BY <1>1, <1>2, TypeFields, ClosedIsWindows
<1>4. /\ mem' \in Memory
      /\ \A c \in Cwd : mem'.pool[c] = mem.pool[c] \/ (mem.pool[c] = s /\ mem'.pool[c] = None)
  <2>1. mem.pool \in [Cwd -> Sid \cup {None}] /\ mem \in Memory  BY <1>1, TypeFields
  <2>2. [c \in Cwd |-> IF mem.pool[c] = s THEN None ELSE mem.pool[c]] \in [Cwd -> Sid \cup {None}]  BY <2>1
  <2>3. CASE up  BY <2>1, <2>2, <2>3, <1>2 DEF Memory
  <2>4. CASE ~up  BY <2>1, <2>4, <1>2
  <2>5. QED BY <2>3, <2>4
<1>5. faults' \in 0 .. MaxFaults  BY <1>1, <1>2, PolicyAssumption DEF TypeOK
<1>6. TypeOK'
  BY <1>1, <1>2, <1>3, <1>4, <1>5 DEF TypeOK, Windows, OffHasNone, disk, settings, talk
<1>7. bound' = bound /\ reserved' = reserved /\ revived' = revived /\ targets' = targets
      /\ owner' = owner /\ up' = up
  BY <1>2 DEF disk, settings
<1>8. ASSUME NEW c \in Free'
      PROVE  \/ c \in Free \/ reserved'[c] = None \/ reserved[c] \in revived \/ win'[reserved[c]].n = 0
  <2>1. c \in Cwd  BY <1>1, <1>7, <1>8, TypeFields DEF Free
  <2>2. CASE mem'.pool[c] = mem.pool[c]  BY <2>2, <1>7, <1>8 DEF Free
  <2>3. CASE mem.pool[c] = s
    <3>1. reserved[c] = s  BY <2>1, <2>3, <1>1, AsReserved DEF Backed
    <3>2. reserved[c] \in revived \/ win[s].n < 2  BY <2>1, <3>1, <1>1, AsReserved DEF Alone
    <3>3. QED BY <3>1, <3>2, <1>3
  <2>4. QED BY <2>1, <2>2, <2>3, <1>4
<1>9. \A x \in Sid : win'[x].n <= win[x].n
  BY <1>1, <1>3, TypeFields DEF Windows
<1>10. Owners'
  <2>1. win \in Windows /\ reserved \in [Cwd -> Sid \cup {None}]
        /\ mem.pool \in [Cwd -> Sid \cup {None}] /\ Owners
    BY <1>1, TypeFields DEF IInv
  <2>2. QED BY <2>1, <1>3, <1>4, <1>7, <1>8, <1>9, FewerKeeps, NamesAssumption
<1>11. QED BY <1>6, <1>10 DEF IInv

(* What is given up is closed. *)
LEMMA StepGiveUp ==
    ASSUME IInv, NEW cs \in SUBSET Cwd, GiveUp(cs)
    PROVE  IInv'
<1> DEFINE gone == {mem.pool[c] : c \in cs}
<1>1. TypeOK /\ None \notin Sid  BY NamesAssumption DEF IInv
<1>2. /\ win' = ClosedAll(win, gone) /\ UNCHANGED <<bound, settings, owner, limited, history, talk, up, faults>>
      /\ mem' = [Forgot(mem, gone) EXCEPT
                     !.pool = [c \in Cwd |-> IF c \in cs THEN None ELSE @[c]],
                     !.gaveUp = @ \cup (cs \ mem.resumed),
                     !.resumed = @ \ cs]
      /\ reserved' = [c \in Cwd |-> IF c \in cs \cap mem.resumed THEN None ELSE reserved[c]]
      /\ \A c \in cs : mem.pool[c] # None
  BY DEF GiveUp
<1>3. /\ win' \in Windows /\ OffHasNone(win') /\ \A s \in Sid : win'[s].n <= win[s].n
      /\ \A s \in Sid : s \in gone /\ win[s].n < 2 => win'[s].n = 0
  BY <1>1, <1>2, TypeFields, ClosedAllIsWindows
<1>4. /\ mem' \in Memory
      /\ \A c \in Cwd : mem'.pool[c] = IF c \in cs THEN None ELSE mem.pool[c]
  <2>1. Forgot(mem, gone) \in Memory /\ Forgot(mem, gone).pool = mem.pool
    BY <1>1, TypeFields, ForgotIsMemory
  <2> HIDE DEF gone
  <2>2. mem.pool \in [Cwd -> Sid \cup {None}]  BY <1>1, TypeFields
  <2>3. [c \in Cwd |-> IF c \in cs THEN None ELSE mem.pool[c]] \in [Cwd -> Sid \cup {None}]  BY <2>2
  <2>4. QED BY <2>1, <2>3, <1>2 DEF Memory
<1>5. TypeOK'
  <2> HIDE DEF gone
  <2>1. reserved' \in [Cwd -> Sid \cup {None}]  BY <1>1, <1>2, TypeFields
  <2>2. QED BY <1>1, <1>2, <1>3, <1>4, <2>1 DEF TypeOK, Windows, OffHasNone, settings, talk
<1>6. \A c \in cs : mem.pool[c] \in gone  OBVIOUS
<1> HIDE DEF gone
<1>7. \A c \in Cwd : reserved'[c] \in {reserved[c], None} /\ (c \notin cs => reserved'[c] = reserved[c])
  BY <1>1, <1>2, TypeFields
<1>8. ASSUME NEW c \in Free'
      PROVE  \/ c \in Free \/ reserved'[c] = None \/ reserved[c] \in revived \/ win'[reserved[c]].n = 0
  <2>1. c \in Cwd  BY <1>1, <1>2, <1>8, TypeFields DEF Free, settings
  <2>2. CASE c \notin cs  BY <2>1, <2>2, <1>2, <1>4, <1>8 DEF Free, settings
  <2>3. CASE c \in cs
    <3>1. reserved[c] = mem.pool[c] /\ reserved[c] # None /\ reserved[c] \in gone
      BY <2>1, <2>3, <1>2, <1>6, AsReserved DEF Backed
    <3>2. reserved[c] \in Sid  BY <2>1, <3>1, <1>1, TypeFields
    <3>3. reserved[c] \in revived \/ win[reserved[c]].n < 2  BY <2>1, <3>1, AsReserved DEF Alone
    <3>4. QED BY <3>1, <3>2, <3>3, <1>3
  <2>4. QED BY <2>2, <2>3
<1>9. Owners'
  <2>1. win \in Windows /\ reserved \in [Cwd -> Sid \cup {None}]
        /\ mem.pool \in [Cwd -> Sid \cup {None}] /\ Owners /\ bound' = bound /\ revived' = revived
    BY <1>1, <1>2, TypeFields DEF IInv, settings
  <2>2. QED BY <2>1, <1>3, <1>4, <1>7, <1>8, FewerKeeps, NamesAssumption
<1>10. QED BY <1>5, <1>9 DEF IInv

-----------------------------------------------------------------------------
(* Steps that change no owner                                              *)

(* A window that is written over keeps its number. *)
LEMMA MarkedIsWindows ==
    ASSUME NEW w \in Windows, OffHasNone(w), NEW s \in Sid,
           NEW v \in [n : Nat, stage : Stages, mcp : BOOLEAN, idle : Idle],
           v.n = w[s].n, v.stage = "off" <=> v.n = 0
    PROVE  /\ [w EXCEPT ![s] = v] \in Windows /\ OffHasNone([w EXCEPT ![s] = v])
           /\ \A x \in Sid : [w EXCEPT ![s] = v][x].n <= w[x].n
<1>1. \A x \in Sid : w[x].n \in Nat  BY DEF Windows
<1>2. \A x \in Sid : [w EXCEPT ![s] = v][x] = IF x = s THEN v ELSE w[x]  BY DEF Windows
<1>3. [w EXCEPT ![s] = v] \in Windows  BY DEF Windows
<1>4. QED BY <1>1, <1>2, <1>3 DEF OffHasNone

(* Quiet steps, with the types they leave. *)
LEMMA QuietStep ==
    ASSUME IInv,
           bound' = bound, reserved' = reserved, settings' = settings, owner' = owner, up' = up,
           mem' \in Memory, mem'.pool = mem.pool,
           win' \in Windows, OffHasNone(win'), \A s \in Sid : win'[s].n <= win[s].n,
           history' \subseteq Sid, owed' \subseteq Thread, asked' \subseteq Thread \X Prompts,
           limited' \in BOOLEAN, faults' \in 0 .. MaxFaults
    PROVE  IInv'
<1>1. TypeOK'  BY DEF IInv, TypeOK, Windows, OffHasNone, settings
<1>2. Owners'  BY <1>1, QuietKeeps DEF IInv, Typed
<1>3. QED BY <1>1, <1>2 DEF IInv

\* What a step leaves alone keeps its type
LEMMA Unmoved ==
    ASSUME IInv
    PROVE  /\ mem \in Memory /\ win \in Windows /\ OffHasNone(win)
           /\ \A s \in Sid : win[s] \in [n : Nat, stage : Stages, mcp : BOOLEAN, idle : Idle]
           /\ \A s \in Sid : win[s].n <= win[s].n
           /\ \A s \in Sid : win[s].stage = "off" <=> win[s].n = 0
           /\ history \subseteq Sid /\ owed \subseteq Thread /\ asked \subseteq Thread \X Prompts
           /\ limited \in BOOLEAN /\ faults \in 0 .. MaxFaults
           /\ (faults < MaxFaults => faults + 1 \in 0 .. MaxFaults)
<1>1. TypeOK  BY DEF IInv
<1>2. win \in Windows /\ OffHasNone(win)  BY <1>1, TypeFields
<1>3. QED BY <1>1, <1>2, PolicyAssumption DEF TypeOK, Windows

LEMMA StepHand ==
    ASSUME IInv, NEW t \in Thread, Hand(t)
    PROVE  IInv'
<1> DEFINE s == bound[t]
           v == [win[s] EXCEPT !.idle = 0]
<1>1. /\ s \in Sid /\ win' \in {[win EXCEPT ![s] = v], win} /\ owed' = owed \cup {t}
      /\ UNCHANGED <<bound, reserved, settings, owner, history, limited, mem, asked, up, faults>>
  BY DEF Hand, disk
<1>2. v \in [n : Nat, stage : Stages, mcp : BOOLEAN, idle : Idle] /\ v.n = win[s].n
      /\ (v.stage = "off" <=> v.n = 0)
  BY <1>1, Unmoved DEF Idle
<1> HIDE DEF s, v
<1>3. win' \in Windows /\ OffHasNone(win') /\ \A x \in Sid : win'[x].n <= win[x].n
  <2>1. CASE win' = [win EXCEPT ![s] = v]  BY <1>1, <1>2, <2>1, Unmoved, MarkedIsWindows
  <2>2. CASE win' = win  BY <2>2, Unmoved
  <2>3. QED BY <1>1, <2>1, <2>2
<1>4. QED BY <1>1, <1>3, Unmoved, QuietStep

(* The agent's own steps, and its end unnoticed. *)
LEMMA StepSessionStart ==
    ASSUME IInv, NEW s \in Sid, SessionStart(s)
    PROVE  IInv'
<1> DEFINE v == [win[s] EXCEPT !.stage = "begun"]
           m == [mem EXCEPT !.ended = @ \ {s}]
<1>1. /\ win[s].stage = "boot" /\ win' = [win EXCEPT ![s] = v] /\ mem' \in {m, mem}
      /\ UNCHANGED <<bound, reserved, settings, owner, history, limited, owed, asked, up, faults>>
  BY DEF SessionStart, AgentOnly, Told, disk, talk
<1>2. v \in [n : Nat, stage : Stages, mcp : BOOLEAN, idle : Idle] /\ v.n = win[s].n
      /\ (v.stage = "off" <=> v.n = 0)
  BY <1>1, Unmoved DEF Stages
<1>3. m \in Memory /\ m.pool = mem.pool  BY Unmoved DEF Memory
<1> HIDE DEF v, m
<1>4. win' \in Windows /\ OffHasNone(win') /\ \A x \in Sid : win'[x].n <= win[x].n
  BY <1>1, <1>2, Unmoved, MarkedIsWindows
<1>5. QED BY <1>1, <1>3, <1>4, Unmoved, QuietStep

LEMMA StepMcpUp ==
    ASSUME IInv, NEW s \in Sid, McpUp(s)
    PROVE  IInv'
<1> DEFINE v == [win[s] EXCEPT !.mcp = TRUE]
           m == [mem EXCEPT !.mcp = @ \cup {s}]
<1>1. /\ win' = [win EXCEPT ![s] = v] /\ mem' \in {m, mem}
      /\ UNCHANGED <<bound, reserved, settings, owner, history, limited, owed, asked, up, faults>>
  BY DEF McpUp, AgentOnly, Told, disk, talk
<1>2. v \in [n : Nat, stage : Stages, mcp : BOOLEAN, idle : Idle] /\ v.n = win[s].n
      /\ v.stage = win[s].stage
  BY Unmoved
<1>3. m \in Memory /\ m.pool = mem.pool  BY Unmoved DEF Memory
<1> HIDE DEF v, m
<1>4. win' \in Windows /\ OffHasNone(win') /\ \A x \in Sid : win'[x].n <= win[x].n
  BY <1>1, <1>2, Unmoved, MarkedIsWindows
<1>5. QED BY <1>1, <1>3, <1>4, Unmoved, QuietStep

LEMMA StepFirstTurn ==
    ASSUME IInv, NEW s \in Sid, FirstTurn(s)
    PROVE  IInv'
<1> DEFINE v == [win[s] EXCEPT !.stage = "turned"]
           m == [mem EXCEPT !.starting = @ \ {s}, !.watch = [@ EXCEPT ![s] = Unknown]]
<1>1. /\ win[s].stage = "begun" /\ win' = [win EXCEPT ![s] = v] /\ mem' \in {m, mem}
      /\ history' = history \cup {s}
      /\ UNCHANGED <<bound, reserved, settings, owner, limited, owed, asked, up, faults>>
  BY DEF FirstTurn, AgentOnly, Told, disk, talk
<1>2. v \in [n : Nat, stage : Stages, mcp : BOOLEAN, idle : Idle] /\ v.n = win[s].n
      /\ (v.stage = "off" <=> v.n = 0)
  BY <1>1, Unmoved DEF Stages
<1>3. m \in Memory /\ m.pool = mem.pool  BY Unmoved DEF Memory
<1> HIDE DEF v, m
<1>4. win' \in Windows /\ OffHasNone(win') /\ \A x \in Sid : win'[x].n <= win[x].n
  BY <1>1, <1>2, Unmoved, MarkedIsWindows
<1>5. QED BY <1>1, <1>3, <1>4, Unmoved, QuietStep

LEMMA StepSilent ==
    ASSUME IInv, NEW s \in Sid, Silent(s)
    PROVE  IInv'
<1> DEFINE v == [win[s] EXCEPT !.idle = win[s].idle + 1]
<1>1. /\ win[s].idle < 2 /\ win' = [win EXCEPT ![s].idle = win[s].idle + 1]
      /\ UNCHANGED <<bound, reserved, settings, owner, limited, history, mem, owed, asked, up, faults>>
  BY Unmoved DEF Silent, AgentOnly, disk, talk, Windows
<1>2. win' = [win EXCEPT ![s] = v]  BY <1>1, Unmoved DEF Windows
<1>3. v \in [n : Nat, stage : Stages, mcp : BOOLEAN, idle : Idle] /\ v.n = win[s].n
      /\ v.stage = win[s].stage
  BY <1>1, Unmoved DEF Idle
<1> HIDE DEF v
<1>4. win' \in Windows /\ OffHasNone(win') /\ \A x \in Sid : win'[x].n <= win[x].n
  BY <1>2, <1>3, Unmoved, MarkedIsWindows
<1>5. QED BY <1>1, <1>4, Unmoved, QuietStep

LEMMA StepKill ==
    ASSUME IInv, NEW s \in Sid, Kill(s)
    PROVE  IInv'
<1>1. /\ win' = Closed(win, s) /\ faults < MaxFaults /\ faults' = faults + 1
      /\ UNCHANGED <<bound, reserved, settings, owner, limited, history, mem, owed, asked, up>>
  BY DEF Kill, EndOnly, Fault, disk, talk
<1>2. win' \in Windows /\ OffHasNone(win') /\ \A x \in Sid : win'[x].n <= win[x].n
  <2>1. /\ Closed(win, s) \in Windows /\ OffHasNone(Closed(win, s))
        /\ Closed(win, s)[s].n <= win[s].n /\ \A x \in Sid \ {s} : Closed(win, s)[x] = win[x]
    BY Unmoved, ClosedIsWindows
  <2>2. QED BY <1>1, <2>1, Unmoved
<1>3. QED BY <1>1, <1>2, Unmoved, QuietStep

LEMMA StepHusk ==
    ASSUME IInv, NEW s \in Sid, Husk(s)
    PROVE  IInv'
<1> DEFINE v == [win[s] EXCEPT !.stage = "husk", !.idle = 0, !.mcp = FALSE]
<1>1. /\ win[s].n = 1 /\ win' = [win EXCEPT ![s] = v] /\ faults < MaxFaults /\ faults' = faults + 1
      /\ UNCHANGED <<bound, reserved, settings, owner, limited, history, mem, owed, asked, up>>
  BY DEF Husk, EndOnly, Fault, disk, talk
<1>2. v \in [n : Nat, stage : Stages, mcp : BOOLEAN, idle : Idle] /\ v.n = win[s].n
      /\ (v.stage = "off" <=> v.n = 0)
  <2>1. win[s] \in [n : Nat, stage : Stages, mcp : BOOLEAN, idle : Idle]  BY Unmoved
  <2>2. "husk" \in Stages /\ 0 \in Idle  BY DEF Stages, Idle
  <2>3. v \in [n : Nat, stage : Stages, mcp : BOOLEAN, idle : Idle] /\ v.n = 1 /\ v.stage = "husk"
    BY <1>1, <2>1, <2>2
  <2>4. QED BY <1>1, <2>3
<1> HIDE DEF v
<1>3. win' \in Windows /\ OffHasNone(win') /\ \A x \in Sid : win'[x].n <= win[x].n
  BY <1>1, <1>2, Unmoved, MarkedIsWindows
<1>4. QED BY <1>1, <1>3, Unmoved, QuietStep

(* What the person and the clock do to an agent that keeps its owner. *)
LEMMA StepAnswerAsk ==
    ASSUME IInv, NEW t \in Thread, Answer(t) \/ \E p \in Prompts : Ask(t, p)
    PROVE  IInv'
<1> DEFINE s == bound[t]
           v == [win[s] EXCEPT !.idle = 0]
<1>1. /\ s \in Sid /\ win' = [win EXCEPT ![s] = v] /\ owed' \subseteq owed /\ asked' \subseteq Thread \X Prompts
      /\ UNCHANGED <<bound, reserved, settings, owner, history, limited, mem, up, faults>>
  <2>1. CASE Answer(t)
    BY <2>1, Unmoved DEF Answer, Works, disk
  <2>2. CASE \E p \in Prompts : Ask(t, p)
    BY <2>2, Unmoved DEF Ask, Works, disk
  <2>3. QED BY <2>1, <2>2
<1>2. v \in [n : Nat, stage : Stages, mcp : BOOLEAN, idle : Idle] /\ v.n = win[s].n
      /\ v.stage = win[s].stage
  BY <1>1, Unmoved DEF Idle
<1> HIDE DEF s, v
<1>3. win' \in Windows /\ OffHasNone(win') /\ \A x \in Sid : win'[x].n <= win[x].n
  <2>1. win' = [win EXCEPT ![s] = v] /\ s \in Sid  BY <1>1
  <2>2. QED BY <2>1, <1>2, Unmoved, MarkedIsWindows
<1>4. QED BY <1>1, <1>3, Unmoved, QuietStep

LEMMA StepClick ==
    ASSUME IInv, NEW t \in Thread, NEW p \in Prompts, Click(t, p)
    PROVE  IInv'
<1>1. /\ asked' \subseteq Thread \X Prompts
      /\ UNCHANGED <<bound, reserved, settings, owner, limited, win, history, mem, owed, up, faults>>
  BY Unmoved DEF Click, disk
<1>2. QED BY <1>1, Unmoved, QuietStep

LEMMA StepUserExit ==
    ASSUME IInv, NEW t \in Thread, UserExit(t)
    PROVE  IInv'
<1> DEFINE m == [mem EXCEPT !.drain = [@ EXCEPT ![t] = bound[t]]]
<1>1. /\ bound[t] \in Sid /\ mem' \in {m, mem} /\ owed' \in {owed, owed \ {t}}
      /\ UNCHANGED <<bound, reserved, settings, owner, limited, win, history, asked, up, faults>>
  BY DEF UserExit, disk
<1>2. m \in Memory /\ m.pool = mem.pool  BY <1>1, Unmoved DEF Memory
<1> HIDE DEF m
<1>3. QED BY <1>1, <1>2, Unmoved, QuietStep

\* terminate, as far as the invariant goes
LEMMA TerminateKeeps ==
    ASSUME IInv, NEW t \in Thread, NEW s \in Sid, Terminate(t, s)
    PROVE  /\ win' \in Windows /\ OffHasNone(win') /\ \A x \in Sid : win'[x].n <= win[x].n
           /\ mem' \in Memory /\ mem'.pool = mem.pool /\ owed' \subseteq Thread
<1>1. /\ win' = Closed(win, s) /\ owed' = owed \ {t}
      /\ mem' = [Forgot(mem, {s}) EXCEPT !.drain = [@ EXCEPT ![t] = None]]
  BY DEF Terminate
<1>2. /\ Closed(win, s) \in Windows /\ OffHasNone(Closed(win, s))
      /\ Closed(win, s)[s].n <= win[s].n /\ \A x \in Sid \ {s} : Closed(win, s)[x] = win[x]
  BY Unmoved, ClosedIsWindows
<1>3. Forgot(mem, {s}) \in Memory /\ Forgot(mem, {s}).pool = mem.pool  BY Unmoved, ForgotIsMemory
<1>4. QED BY <1>1, <1>2, <1>3, Unmoved DEF Memory

LEMMA StepRunDrain ==
    ASSUME IInv, NEW t \in Thread, RunDrain(t)
    PROVE  IInv'
<1>1. /\ mem.drain[t] \in Sid /\ Terminate(t, mem.drain[t])
      /\ UNCHANGED <<bound, reserved, settings, owner, limited, history, asked, up, faults>>
  BY Unmoved DEF RunDrain, disk, Memory
<1>2. QED BY <1>1, TerminateKeeps, Unmoved, QuietStep

LEMMA StepTidy ==
    ASSUME IInv, Tidy
    PROVE  IInv'
<1>1. PICK stray, t : Cleanup(stray, t)  BY DEF Tidy
<1>2. PICK ended, gone : /\ win' = ClosedAll(win, gone) /\ mem' = Forgot(mem, ended)
                         /\ owed' = owed \ {t}
                         /\ UNCHANGED <<bound, reserved, settings, owner, limited, history, asked, up, faults>>
  BY <1>1 DEF Cleanup, disk
<1>3. win' \in Windows /\ OffHasNone(win') /\ \A x \in Sid : win'[x].n <= win[x].n
  BY <1>2, Unmoved, ClosedAllIsWindows
<1>4. mem' \in Memory /\ mem'.pool = mem.pool  BY <1>2, Unmoved, ForgotIsMemory
<1>5. QED BY <1>2, <1>3, <1>4, Unmoved, QuietStep

LEMMA StepLimits ==
    ASSUME IInv, Limit \/ LimitEnds
    PROVE  IInv'
<1>1. /\ limited' \in BOOLEAN /\ faults' \in 0 .. MaxFaults
      /\ UNCHANGED <<bound, reserved, settings, owner, win, history, mem, owed, asked, up>>
  BY Unmoved DEF Limit, LimitEnds, Fault, disk, talk
<1>2. QED BY <1>1, Unmoved, QuietStep

-----------------------------------------------------------------------------
(* Steps that take an agent from its owner                                 *)

(* Threads may lose their session, or the Bridge its memory. *)
LEMMA LosingStep ==
    ASSUME IInv,
           \A t \in Thread : bound'[t] \in {bound[t], None, Unknown},
           bound' \in [Thread -> Sid \cup {None, Unknown}],
           reserved' = reserved, settings' = settings, owner' = owner, up' \in BOOLEAN,
           mem' \in Memory, \A c \in Cwd : mem'.pool[c] \in {mem.pool[c], None},
           up' => up /\ mem'.pool = mem.pool,
           win' \in Windows, OffHasNone(win'), \A s \in Sid : win'[s].n <= win[s].n,
           history' \subseteq Sid, owed' \subseteq Thread, asked' \subseteq Thread \X Prompts,
           limited' \in BOOLEAN, faults' \in 0 .. MaxFaults
    PROVE  IInv'
<1>1. TypeOK /\ Owners  BY DEF IInv
<1>2. TypeOK'  BY <1>1 DEF TypeOK, Windows, OffHasNone, settings
<1>3. Free' \subseteq Free  BY <1>1 DEF Free, settings, TypeOK
<1>4. revived' = revived  BY DEF settings
<1>5. win \in Windows /\ reserved \in [Cwd -> Sid \cup {None}] /\ mem.pool \in [Cwd -> Sid \cup {None}]
  BY <1>1, TypeFields
<1>6. Owners'  BY <1>1, <1>3, <1>4, <1>5, FewerKeeps, NamesAssumption
<1>7. QED BY <1>2, <1>6 DEF IInv

LEMMA StepCommand ==
    ASSUME IInv, NEW t \in Thread, Command(t)
    PROVE  IInv'
<1>1. /\ bound' = [bound EXCEPT ![t] = None] /\ up = TRUE
      /\ UNCHANGED <<reserved, settings, owner, limited, win, history, mem, owed, asked, up, faults>>
  BY DEF Command, talk, IInv, TypeOK
<1>2. bound \in [Thread -> Sid \cup {None, Unknown}]  BY TypeFields DEF IInv
<1>3. QED BY <1>1, <1>2, Unmoved, LosingStep

LEMMA StepSpawnExited ==
    ASSUME IInv, NEW s \in Sid, SpawnExited(s)
    PROVE  IInv'
<1> DEFINE m == [mem EXCEPT !.starting = @ \ {s}, !.watch = [@ EXCEPT ![s] = Unknown]]
<1>1. PICK t : /\ mem' = m /\ up = TRUE
               /\ bound' \in {bound, [bound EXCEPT ![t] = None]} /\ owed' \in {owed, owed \ {t}}
               /\ UNCHANGED <<reserved, settings, owner, limited, win, history, asked, up, faults>>
  BY DEF SpawnExited, IInv, TypeOK
<1>2. bound \in [Thread -> Sid \cup {None, Unknown}]  BY TypeFields DEF IInv
<1>3. m \in Memory /\ m.pool = mem.pool  BY Unmoved DEF Memory
<1> HIDE DEF m
<1>4. QED BY <1>1, <1>2, <1>3, Unmoved, LosingStep

LEMMA StepDelete ==
    ASSUME IInv, NEW t \in Thread, Delete(t)
    PROVE  IInv'
<1>1. /\ bound' = [bound EXCEPT ![t] = Unknown] /\ up = TRUE /\ bound[t] # Unknown
      /\ IF bound[t] # None THEN Terminate(t, bound[t]) ELSE owed' = owed \ {t} /\ UNCHANGED <<win, mem>>
      /\ UNCHANGED <<reserved, settings, owner, limited, history, asked, up>>
      /\ faults < MaxFaults /\ faults' = faults + 1
  BY DEF Delete, Fault, IInv, TypeOK
<1>2. bound \in [Thread -> Sid \cup {None, Unknown}]  BY TypeFields DEF IInv
<1>3. /\ win' \in Windows /\ OffHasNone(win') /\ \A x \in Sid : win'[x].n <= win[x].n
      /\ mem' \in Memory /\ mem'.pool = mem.pool /\ owed' \subseteq Thread
  <2>1. CASE bound[t] # None
    <3>1. bound[t] \in Sid /\ Terminate(t, bound[t])  BY <2>1, <1>1, <1>2
    <3>2. QED BY <3>1, TerminateKeeps
  <2>2. CASE bound[t] = None  BY <2>2, <1>1, Unmoved
  <2>3. QED BY <2>1, <2>2
<1>4. QED BY <1>1, <1>2, <1>3, Unmoved, LosingStep

LEMMA StepCorrupt ==
    ASSUME IInv, Corrupt
    PROVE  IInv'
<1>1. /\ bound' = [t \in Thread |-> Unknown] /\ ~up
      /\ UNCHANGED <<reserved, settings, owner, limited, win, history, mem, owed, asked, up, faults>>
  BY DEF Corrupt, talk
<1>2. up \in BOOLEAN  BY TypeFields DEF IInv
<1>3. QED BY <1>1, <1>2, Unmoved, LosingStep

LEMMA StepShutdown ==
    ASSUME IInv, Shutdown
    PROVE  IInv'
<1>1. PICK gone : /\ win' = ClosedAll(win, gone) /\ mem' = Blank /\ up' = FALSE /\ owed' = owed
                  /\ UNCHANGED <<bound, reserved, settings, owner, limited, history, asked>>
                  /\ faults < MaxFaults /\ faults' = faults + 1
  BY DEF Shutdown, Fault, disk
<1>2. bound \in [Thread -> Sid \cup {None, Unknown}]  BY TypeFields DEF IInv
<1>3. win' \in Windows /\ OffHasNone(win') /\ \A x \in Sid : win'[x].n <= win[x].n
  BY <1>1, Unmoved, ClosedAllIsWindows
<1>4. mem' \in Memory /\ \A c \in Cwd : mem'.pool[c] = None  BY <1>1, BlankIsMemory DEF Blank
<1>5. QED BY <1>1, <1>2, <1>3, <1>4, Unmoved, LosingStep

LEMMA StepRestart ==
    ASSUME IInv, Restart
    PROVE  IInv'
<1>1. /\ mem' = Blank /\ up' = FALSE
      /\ UNCHANGED <<bound, reserved, settings, owner, limited, win, history, owed, asked>>
      /\ faults < MaxFaults /\ faults' = faults + 1
  BY DEF Restart, Fault, disk, talk
<1>2. bound \in [Thread -> Sid \cup {None, Unknown}]  BY TypeFields DEF IInv
<1>3. mem' \in Memory /\ \A c \in Cwd : mem'.pool[c] = None  BY <1>1, BlankIsMemory DEF Blank
<1>4. QED BY <1>1, <1>2, <1>3, Unmoved, LosingStep

-----------------------------------------------------------------------------
(* The theorems                                                            *)

LEMMA InitHolds == Init => IInv
<1> SUFFICES ASSUME Init PROVE IInv
  OBVIOUS
<1>1. Blank \in Memory /\ \A c \in Cwd : Blank.pool[c] = None  BY BlankIsMemory DEF Blank
<1>2. NoWindow \in [n : Nat, stage : Stages, mcp : BOOLEAN, idle : Idle] /\ NoWindow.stage = "off"
      /\ NoWindow.n = 0
  BY DEF NoWindow, Stages, Idle
<1>3. TypeOK
  <2>1. win = [s \in Sid |-> NoWindow]  BY DEF Init
  <2>2. win \in [Sid -> [n : Nat, stage : Stages, mcp : BOOLEAN, idle : Idle]]  BY <1>2, <2>1
  <2>3. \A s \in Sid : win[s].stage = "off" <=> win[s].n = 0  BY <1>2, <2>1
  <2>4. mem \in Memory  BY <1>1 DEF Init
  <2>5. 0 \in 0 .. MaxFaults  BY PolicyAssumption
  <2>6. QED BY <2>2, <2>3, <2>4, <2>5 DEF Init, TypeOK
<1>4. Bound(bound) = {}  BY DEF Init, Bound
<1>5. OneOwner  BY <1>4, NamesAssumption DEF Init, OneOwner
<1>6. PoolReserved /\ Once  BY <1>1 DEF Init, PoolReserved, Backed, Once, Alone
<1>7. QED BY <1>3, <1>5, <1>6 DEF IInv, Owners

LEMMA StepHolds == IInv /\ [Next]_vars => IInv'
<1> SUFFICES ASSUME IInv, [Next]_vars PROVE IInv'
  OBVIOUS
<1>1. CASE UNCHANGED vars
  <2>1. UNCHANGED <<bound, reserved, settings, owner, limited, win, history, mem, owed, asked, up, faults>>
    BY <1>1 DEF vars, settings
  <2>2. QED BY <2>1, Unmoved, QuietStep
<1>2. CASE \E s \in Sid : Agent(s) \/ SpawnExited(s)
  BY <1>2, StepSessionStart, StepMcpUp, StepFirstTurn, StepSilent, StepExit, StepKill, StepHusk,
     StepSpawnExited DEF Agent
<1>3. CASE \E t \in Thread : Person(t)
  BY <1>3, StepClaim, StepSpawnNew, StepSpawnResume, StepHand, StepCommand, StepAnswerAsk, StepClick,
     StepUserExit, StepRunDrain, StepDelete DEF Person, Message
<1>4. CASE Clock
  BY <1>4, StepGiveUp, StepSweep, StepTidy, StepLimits DEF Clock
<1>5. CASE \E tgs \in SUBSET Cwd : SetTargets(tgs)
  BY <1>5, StepSetTargets
<1>6. CASE Limit \/ Logout \/ Login \/ Shutdown \/ Restart \/ Corrupt \/ Boot
  BY <1>6, StepLimits, StepLogout, StepLogin, StepShutdown, StepRestart, StepCorrupt, StepBoot
<1>7. QED BY <1>1, <1>2, <1>3, <1>4, <1>5, <1>6 DEF Next

LEMMA Inductive == Spec => []IInv
<1>1. QED BY InitHolds, StepHolds, PTL DEF Spec

(* The pool runs a session once: what it holds is reserved, and what is     *)
(* reserved runs once.                                                     *)
LEMMA OwnedOnceHolds == IInv => OwnedOnce
<1> SUFFICES ASSUME IInv PROVE OwnedOnce
  OBVIOUS
<1>1. TypeOK /\ OneOwner  BY DEF IInv, Owners
<1>2. Held(mem.pool) \subseteq Held(reserved)  BY AsReserved DEF Backed, Held
<1>3. ASSUME NEW s \in (Held(reserved) \cup Held(mem.pool)) \ revived PROVE win[s].n < 2
  <2>1. PICK c \in Cwd : reserved[c] = s /\ s # None  BY <1>2, <1>3 DEF Held
  <2>2. QED BY <2>1, <1>3, AsReserved DEF Alone
<1>4. QED BY <1>1, <1>3 DEF OwnedOnce, PoolAgentAlone

(* However many threads ask, agents exit, pools are given up, restarted or   *)
(* resumed and settings change: no agent ever has two owners, and what the  *)
(* pool holds runs once, except where its folder is wanted again while the  *)
(* agent it let go of still runs (worker.rs: claim_pool_worker,            *)
(* start_missing_pool_workers, restore_pools, give_up_stale_pools).         *)
THEOREM AlwaysOwnedOnce == Spec => []OwnedOnce
<1>1. QED BY Inductive, OwnedOnceHolds, PTL

-----------------------------------------------------------------------------
(* What no step takes from a thread                                        *)

LEMMA KeepsConversations ==
    ASSUME IInv, Next, NEW t \in Thread, bound[t] \in history, bound'[t] # bound[t]
    PROVE  Delete(t) \/ Corrupt
<1>1. /\ bound \in [Thread -> Sid \cup {None, Unknown}]
      /\ bound[t] \in Sid /\ bound[t] # None /\ bound[t] # Unknown
  BY TypeFields, NamesAssumption DEF IInv
<1>2. CASE \E s \in Sid : Agent(s) \/ SpawnExited(s)
  <2>1. ASSUME NEW s \in Sid, SpawnExited(s)
        PROVE  \/ bound' = bound
               \/ \E u : bound' = [bound EXCEPT ![u] = None] /\ bound[u] = s /\ s \notin history
    BY <2>1 DEF SpawnExited
  <2>2. ASSUME NEW s \in Sid, SpawnExited(s) PROVE FALSE
    BY <2>1, <2>2, <1>1
  <2>3. ASSUME NEW s \in Sid, Agent(s) PROVE bound' = bound
    BY <2>3 DEF Agent, SessionStart, McpUp, FirstTurn, Silent, Exit, Kill, Husk, AgentOnly, EndOnly, disk
  <2>4. QED BY <1>2, <2>2, <2>3
<1>3. CASE \E u \in Thread : Person(u)
  <2>1. PICK u \in Thread : Person(u)  BY <1>3
  <2>2. CASE Claim(u)
    <3>1. bound[u] = Unknown /\ \E s : bound' = [bound EXCEPT ![u] = s]
      BY <2>2 DEF Claim, Offered
    <3>2. QED BY <3>1, <1>1
  <2>3. CASE SpawnNew(u)
    <3>1. bound[u] \in {None, Unknown} /\ \E s : bound' = [bound EXCEPT ![u] = s]
      BY <2>3 DEF SpawnNew
    <3>2. QED BY <3>1, <1>1
  <2>4. CASE Command(u)
    BY <2>4, <1>1 DEF Command
  <2>5. CASE Delete(u)
    <3>1. bound' = [bound EXCEPT ![u] = Unknown]  BY <2>5 DEF Delete
    <3>2. u = t  BY <3>1, <1>1
    <3>3. QED BY <2>5, <3>2
  <2>6. CASE \/ SpawnResume(u) \/ Hand(u) \/ Answer(u) \/ UserExit(u) \/ RunDrain(u)
             \/ \E p \in Prompts : Ask(u, p) \/ Click(u, p)
    <3>1. bound' = bound
      BY <2>6 DEF SpawnResume, Hand, Answer, Ask, Click, UserExit, RunDrain, disk
    <3>2. QED BY <3>1
  <2>7. QED BY <2>1, <2>2, <2>3, <2>4, <2>5, <2>6 DEF Person, Message
<1>4. CASE Clock
  <2>1. bound' = bound
    BY <1>4 DEF Clock, GiveUp, Sweep, Tidy, Cleanup, LimitEnds, disk
  <2>2. QED BY <2>1
<1>5. CASE (\E tgs \in SUBSET Cwd : SetTargets(tgs)) \/ Limit \/ Logout \/ Login \/ Shutdown \/ Restart
  <2>1. bound' = bound
    BY <1>5 DEF SetTargets, Limit, Logout, Login, Shutdown, Restart, disk
  <2>2. QED BY <2>1
<1>6. CASE Boot
  <2>1. bound' = Resumable(bound, win)  BY <1>6 DEF Boot
  <2>2. bound'[t] = bound[t]  BY <2>1 DEF Resumable
  <2>3. QED BY <2>2
<1>7. QED BY <1>2, <1>3, <1>4, <1>5, <1>6 DEF Next

(* What is closed while tidying is a husk, nobody's, or the agent of a     *)
(* thread that waits neither for an answer nor for a permission; and no    *)
(* other thread has that agent.                                            *)
LEMMA Spares ==
    ASSUME IInv, Tidy, NEW t \in Thread, t \in owed \/ Permitting(t), bound[t] \in Sid, Live(bound[t])
    PROVE  win'[bound[t]] = win[bound[t]]
<1>1. PICK stray \in Reapable, e \in Evictable : Cleanup(stray, e)  BY DEF Tidy
<1>2. t \in Thread /\ None \notin Sid  BY Unmoved, NamesAssumption
<1>3. stray # bound[t]
  <2>1. bound[t] \in Owned  BY <1>2, NamesAssumption DEF Owned, Bound
  <2>2. bound[t] \notin Strays  BY <2>1 DEF Strays, Live
  <2>3. QED BY <1>2, <2>2 DEF Reapable
<1>4. e # None => bound[e] # bound[t]
  <2> SUFFICES ASSUME e # None PROVE bound[e] # bound[t]
    OBVIOUS
  <2>1. e \in Select  BY DEF Evictable
  <2>2. e \in Snaps /\ Eligible(e)  BY <2>1 DEF Select, Coldest
  <2>3. e # t  BY <2>2 DEF Eligible
  <2>4. e \in Thread  BY <2>2 DEF Snaps
  <2>5. QED BY <1>2, <2>3, <2>4, AsReserved
<1>5. PICK gone : gone = ({stray} \cup (IF e = None THEN {} ELSE {bound[e]})) \ {None}
                  /\ win' = ClosedAll(win, gone)
  BY <1>1 DEF Cleanup
<1>6. bound[t] \notin gone  BY <1>3, <1>4, <1>5
<1>7. QED BY <1>5, <1>6, Unmoved, ClosedAllIsWindows

(* No failed start, sweep or new request takes from a thread the session its *)
(* conversation is in, and tidying never ends the agent of a thread that    *)
(* waits for an answer or has a tool to permit (forget_unresumable_threads, *)
(* agent_never_started; evict_idle_worker, reap_stray_windows).             *)
THEOREM AlwaysKeptAndSpared == Spec => KeptAndSpared
<1>1. IInv /\ [Next]_vars =>
        [\A t \in Thread : bound[t] \in history /\ bound'[t] # bound[t] => Delete(t) \/ Corrupt]_vars
  BY KeepsConversations
<1>2. IInv /\ [Next]_vars =>
        [\A t \in Thread : (t \in owed \/ Permitting(t)) /\ Ends(t) => ~Tidy]_vars
  <2> SUFFICES ASSUME IInv, NEW t \in Thread, t \in owed \/ Permitting(t), bound[t] \in Sid, Live(bound[t]),
                      win'[bound[t]].n < win[bound[t]].n, Tidy
               PROVE  FALSE
    BY DEF Ends
  <2>1. win'[bound[t]] = win[bound[t]]  BY Spares
  <2>2. win[bound[t]].n \in Nat  BY TypeFields DEF IInv, Windows
  <2>3. QED BY <2>1, <2>2
<1>3. QED BY <1>1, <1>2, Inductive, PTL DEF KeptAndSpared, ConversationKept, TidyingSpares, Spec
=============================================================================
