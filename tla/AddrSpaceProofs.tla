-------------------------- MODULE AddrSpaceProofs --------------------------
(***************************************************************************)
(* Proofs about AddrSpace for every number of tasks, frames and indices,   *)
(* and every layout of areas.                                              *)
(*                                                                         *)
(* The invariant is about `use`: an entry of a table leads to nothing, or  *)
(* to a frame that is used for exactly the path of indices that leads      *)
(* there (Wired).  A frame has one use, so it is reached by one path of    *)
(* one task.                                                               *)
(***************************************************************************)
EXTENDS AddrSpace, TLAPS

USE SizesAssumption, IndicesAssumption DEF None, Idle, First

-----------------------------------------------------------------------------
(* The invariant.                                                          *)

MemoryType == [pt   : [Frames -> [Indices -> Frames]],
               next : 6 .. NFRAMES + 1,
               use  : [Frames -> Uses]]

(* u is the use of a table whose entry i is under the rule of Wired.       *)
Guarded(u, i) == u[1] \in {"middle", "last"} \/ (u[1] = "root" /\ i \in UserIndices)

Wired(m) ==
  \A f \in Frames, i \in Indices :
    Guarded(m.use[f], i) /\ m.pt[f][i] # None =>
      m.use[m.pt[f][i]] = Below(m.use[f], i)

(* Frames from next on are fresh.                                          *)
Fresh(m) ==
  \A f \in Frames : /\ f >= m.next <=> m.use[f] = Unused
                    /\ m.use[f] = Unused => m.pt[f] = NoEntries

(* The kernel's half of every root, and the frames 0 and 1.                *)
KernelHalf(m) ==
  /\ m.use[None] = Kernel /\ m.pt[None] = NoEntries
  /\ m.use[Swapper] = Kernel /\ m.pt[Swapper] = KernelDir
  /\ \A f \in Frames : m.use[f][1] = "root" =>
       \A i \in Indices \ UserIndices : m.pt[f][i] = KernelDir[i]

Sound(m) == m \in MemoryType /\ Wired(m) /\ Fresh(m) /\ KernelHalf(m)

Rooted == \A t \in live \ {Idle} : use[root[t]] = RootOf(t)

IInv == TypeOK /\ Sound(Memory) /\ Rooted

-----------------------------------------------------------------------------
(* Uses.                                                                   *)

LEMMA BelowFacts ==
  ASSUME NEW t, NEW a, NEW b, NEW c
  PROVE  /\ Below(RootOf(t), a) = MiddleOf(t, a)
         /\ Below(MiddleOf(t, a), b) = LastOf(t, a, b)
         /\ Below(LastOf(t, a, b), c) = PageOf(t, <<a, b, c>>)
BY DEF Below, RootOf, MiddleOf, LastOf, PageOf

LEMMA UsesFacts ==
  /\ Unused \in Uses /\ Kernel \in Uses
  /\ \A t \in Slots : TaskPage(t) \in Uses /\ RootOf(t) \in Uses
  /\ \A t \in Slots, a \in UserIndices : MiddleOf(t, a) \in Uses
  /\ \A t \in Slots, a \in UserIndices, b \in Indices : LastOf(t, a, b) \in Uses
  /\ \A t \in Slots, p \in Pages : PageOf(t, p) \in Uses
<1>1. Unused \in Uses /\ Kernel \in Uses
  BY DEF Uses
<1>2. ASSUME NEW t \in Slots PROVE TaskPage(t) \in Uses /\ RootOf(t) \in Uses
  BY DEF Uses
<1>3. ASSUME NEW t \in Slots, NEW a \in UserIndices PROVE MiddleOf(t, a) \in Uses
  BY DEF Uses
<1>4. ASSUME NEW t \in Slots, NEW a \in UserIndices, NEW b \in Indices
      PROVE  LastOf(t, a, b) \in Uses
  BY DEF Uses
<1>5. ASSUME NEW t \in Slots, NEW p \in Pages PROVE PageOf(t, p) \in Uses
  BY DEF Uses
<1> QED
  BY <1>1, <1>2, <1>3, <1>4, <1>5

LEMMA UsesDiffer ==
  ASSUME NEW t, NEW a, NEW b, NEW p
  PROVE  /\ Unused[1] = "unused" /\ Kernel[1] = "kernel" /\ TaskPage(t)[1] = "task"
         /\ RootOf(t)[1] = "root" /\ MiddleOf(t, a)[1] = "middle"
         /\ LastOf(t, a, b)[1] = "last" /\ PageOf(t, p)[1] = "page"
BY DEF Unused, Kernel, TaskPage, RootOf, MiddleOf, LastOf, PageOf

-----------------------------------------------------------------------------
(* Allocation and the three steps of map_final_pgtbl.                      *)

(* Frames keep their use.                                                  *)
Extends(m, n) == \A f \in Frames : m.use[f] # Unused => n.use[f] = m.use[f]

(* The next frame is free, and an empty table.                             *)
LEMMA NextIsFresh ==
  ASSUME NEW m, Sound(m), m.next <= NFRAMES
  PROVE  /\ m.next \in Frames /\ m.next \in 6 .. NFRAMES
         /\ m.use[m.next] = Unused /\ m.pt[m.next] = NoEntries
<1>1. m.next \in 6 .. NFRAMES + 1
  BY DEF Sound, MemoryType
<1>2. m.next \in 6 .. NFRAMES /\ m.next \in Frames /\ m.next >= m.next
  BY <1>1 DEF Frames
<1>3. m.use[m.next] = Unused
  BY <1>2 DEF Sound, Fresh
<1>4. m.pt[m.next] = NoEntries
  BY <1>2, <1>3 DEF Sound, Fresh
<1> QED
  BY <1>2, <1>3, <1>4

LEMMA TakenSound ==
  ASSUME NEW m, Sound(m), m.next <= NFRAMES, NEW u \in Uses,
         u # Unused, u[1] # "root"
  PROVE  /\ Sound(Taken(m, u))
         /\ Extends(m, Taken(m, u))
         /\ Taken(m, u).use[m.next] = u
         /\ Taken(m, u).pt = m.pt
         /\ Taken(m, u).next = m.next + 1
<1> DEFINE n == Taken(m, u)
<1>1. /\ m \in MemoryType /\ m.next \in Frames /\ m.next \in 6 .. NFRAMES
      /\ m.use[m.next] = Unused /\ m.pt[m.next] = NoEntries
  BY NextIsFresh DEF Sound
<1>2. /\ n.pt = m.pt /\ n.next = m.next + 1
      /\ n.use = [m.use EXCEPT ![m.next] = u]
      /\ n \in MemoryType
  <2>1. /\ n.pt = m.pt /\ n.next = m.next + 1
        /\ n.use = [m.use EXCEPT ![m.next] = u]
        /\ n = [pt |-> n.pt, next |-> n.next, use |-> n.use]
    BY DEF Taken
  <2>2. [m.use EXCEPT ![m.next] = u] \in [Frames -> Uses]
    BY <1>1 DEF MemoryType
  <2>3. m.pt \in [Frames -> [Indices -> Frames]] /\ m.next + 1 \in 6 .. NFRAMES + 1
    BY <1>1 DEF MemoryType
  <2> HIDE DEF n
  <2> QED
    BY <2>1, <2>2, <2>3 DEF MemoryType
<1>3. n.use[m.next] = u /\ \A f \in Frames : f # m.next => n.use[f] = m.use[f]
  BY <1>1, <1>2 DEF MemoryType
<1>4. Wired(n)
  <2> SUFFICES ASSUME NEW f \in Frames, NEW i \in Indices,
                      Guarded(n.use[f], i), n.pt[f][i] # None
               PROVE  n.use[n.pt[f][i]] = Below(n.use[f], i)
    BY DEF Wired
  <2>1. f # m.next
    BY <1>1, <1>2 DEF NoEntries
  <2>2. m.use[m.pt[f][i]] = Below(m.use[f], i) /\ m.pt[f][i] \in Frames
    <3>1. n.use[f] = m.use[f] /\ n.pt[f][i] = m.pt[f][i]
      BY <1>2, <1>3, <2>1
    <3>2. m.pt[f][i] \in Frames
      BY <1>1 DEF MemoryType
    <3> QED
      BY <3>1, <3>2 DEF Sound, Wired
  <2>3. Below(m.use[f], i) # Unused
    BY <1>3, <2>1 DEF Guarded, Below, Unused, MiddleOf, LastOf, PageOf
  <2> QED
    BY <1>1, <1>2, <1>3, <2>1, <2>2, <2>3
<1>5. Fresh(n)
  BY <1>1, <1>2, <1>3 DEF Sound, Fresh, MemoryType, Frames
<1>6. KernelHalf(n)
  BY <1>1, <1>2, <1>3 DEF Sound, KernelHalf, Swapper, Frames
<1>7. Extends(m, n)
  BY <1>1, <1>3 DEF Extends
<1> QED
  BY <1>2, <1>3, <1>4, <1>5, <1>6, <1>7 DEF Sound

(* Writing an entry of a table keeps memory sound when the frame it leads  *)
(* to has the use the entry calls for.                                     *)
LEMMA EntrySound ==
  ASSUME NEW m, Sound(m), NEW f \in Frames, NEW i \in Indices, NEW g \in Frames,
         Guarded(m.use[f], i), m.use[g] = Below(m.use[f], i)
  PROVE  /\ Sound([m EXCEPT !.pt[f][i] = g])
         /\ [m EXCEPT !.pt[f][i] = g].use = m.use
         /\ [m EXCEPT !.pt[f][i] = g].next = m.next
         /\ [m EXCEPT !.pt[f][i] = g].pt[f][i] = g
         /\ \A h \in Frames : h # f => [m EXCEPT !.pt[f][i] = g].pt[h] = m.pt[h]
<1> DEFINE n == [m EXCEPT !.pt[f][i] = g]
<1>1. m \in MemoryType
  BY DEF Sound
<1>2. /\ n.use = m.use /\ n.next = m.next
      /\ n.pt = [m.pt EXCEPT ![f] = [m.pt[f] EXCEPT ![i] = g]]
      /\ n \in MemoryType
  BY <1>1 DEF MemoryType
<1>3. /\ \A h \in Frames : h # f => n.pt[h] = m.pt[h]
      /\ \A j \in Indices : n.pt[f][j] = IF j = i THEN g ELSE m.pt[f][j]
  BY <1>1, <1>2 DEF MemoryType
<1>4. Wired(n)
  BY <1>2, <1>3 DEF Sound, Wired
<1>5. Fresh(n)
  BY <1>2, <1>3 DEF Sound, Fresh, Guarded, Unused
<1>6. KernelHalf(n)
  BY <1>2, <1>3 DEF Sound, KernelHalf, Guarded, Kernel
<1> QED
  BY <1>2, <1>3, <1>4, <1>5, <1>6 DEF Sound

(* What an entry of a table leads to is a use like any other.              *)
LEMMA GuardedBelow ==
  ASSUME NEW u \in Uses, NEW i \in Indices, Guarded(u, i)
  PROVE  /\ Below(u, i) \in Uses
         /\ Below(u, i)[1] \in {"middle", "last", "page"}
<1>1. CASE \E t \in Slots : u = RootOf(t)
  <2>1. PICK t \in Slots : u = RootOf(t)
    BY <1>1
  <2>2. i \in UserIndices
    BY <2>1, UsesDiffer DEF Guarded
  <2>3. Below(u, i) = MiddleOf(t, i)
    BY <2>1, BelowFacts
  <2> QED
    BY <2>2, <2>3, UsesFacts, UsesDiffer
<1>2. CASE \E t \in Slots, a \in UserIndices : u = MiddleOf(t, a)
  <2>1. PICK t \in Slots, a \in UserIndices : u = MiddleOf(t, a)
    BY <1>2
  <2>2. Below(u, i) = LastOf(t, a, i)
    BY <2>1, BelowFacts
  <2> QED
    BY <2>1, <2>2, UsesFacts, UsesDiffer
<1>3. CASE \E t \in Slots, a \in UserIndices, b \in Indices : u = LastOf(t, a, b)
  <2>1. PICK t \in Slots, a \in UserIndices, b \in Indices : u = LastOf(t, a, b)
    BY <1>3
  <2>2. <<a, b, i>> \in Pages
    BY DEF Pages
  <2>3. Below(u, i) = PageOf(t, <<a, b, i>>)
    BY <2>1, BelowFacts
  <2> QED
    BY <2>1, <2>2, <2>3, UsesFacts, UsesDiffer
<1>4. \/ u \in {Unused, Kernel} \/ \E t \in Slots : u \in {TaskPage(t), RootOf(t)}
      \/ \E t \in Slots, a \in UserIndices : u = MiddleOf(t, a)
      \/ \E t \in Slots, a \in UserIndices, b \in Indices : u = LastOf(t, a, b)
      \/ \E t \in Slots, p \in Pages : u = PageOf(t, p)
  BY DEF Uses
<1> QED
  BY <1>1, <1>2, <1>3, <1>4, UsesDiffer DEF Guarded

LEMMA SetupSound ==
  ASSUME NEW m, Sound(m), NEW f \in Frames, NEW i \in Indices,
         Guarded(m.use[f], i), m.use[f][1] # "last",
         m.pt[f][i] = None => m.next <= NFRAMES
  PROVE  /\ Sound(SetupPte(m, f, i))
         /\ Extends(m, SetupPte(m, f, i))
         /\ SetupPte(m, f, i).pt[f][i] \in Frames
         /\ SetupPte(m, f, i).use[SetupPte(m, f, i).pt[f][i]] = Below(m.use[f], i)
         /\ m.pt[f][i] # None => SetupPte(m, f, i) = m
         /\ m.pt[f][i] = None =>
              /\ SetupPte(m, f, i).next = m.next + 1
              /\ SetupPte(m, f, i).pt[SetupPte(m, f, i).pt[f][i]] = NoEntries
<1>1. m \in MemoryType /\ m.pt[f][i] \in Frames /\ m.use[f] \in Uses
  BY DEF Sound, MemoryType
<1>2. CASE m.pt[f][i] # None
  BY <1>1, <1>2 DEF SetupPte, Sound, Wired, Extends
<1>3. CASE m.pt[f][i] = None
  <2> DEFINE u == Below(m.use[f], i)
             k == Taken(m, u)
             n == [k EXCEPT !.pt[f][i] = m.next]
  <2>1. SetupPte(m, f, i) = n
    BY <1>3 DEF SetupPte
  <2>2. u \in Uses /\ u # Unused /\ u[1] # "root"
    BY <1>1, GuardedBelow, UsesDiffer
  <2>3. /\ Sound(k) /\ Extends(m, k) /\ k.use[m.next] = u
        /\ k.pt = m.pt /\ k.next = m.next + 1
    BY <1>3, <2>2, TakenSound
  <2>4. m.use[f] # Unused
    BY UsesDiffer DEF Guarded
  <2>5. k.use[f] = m.use[f]
    BY <2>3, <2>4 DEF Extends
  <2>6. m.next \in Frames /\ f # m.next /\ m.pt[m.next] = NoEntries
    <3>1. m.next \in Frames /\ m.use[m.next] = Unused /\ m.pt[m.next] = NoEntries
      <4> HIDE DEF u, k, n
      <4> QED
        BY <1>3, NextIsFresh
    <3> QED
      BY <2>4, <3>1
  <2>7. /\ Sound(n) /\ n.use = k.use /\ n.next = k.next /\ n.pt[f][i] = m.next
        /\ \A h \in Frames : h # f => n.pt[h] = k.pt[h]
    <3> HIDE DEF k, u
    <3> QED
      BY <2>3, <2>5, <2>6, EntrySound DEF u
  <2>8. Extends(m, n)
    BY <2>3, <2>7 DEF Extends
  <2> HIDE DEF n, k, u
  <2>9. /\ n.pt[f][i] \in Frames /\ n.use[n.pt[f][i]] = u
        /\ n.next = m.next + 1 /\ n.pt[n.pt[f][i]] = NoEntries
    BY <2>3, <2>6, <2>7
  <2> QED
    BY <1>3, <2>1, <2>7, <2>8, <2>9 DEF u
<1> QED
  BY <1>2, <1>3

(* map_final_pgtbl keeps memory sound when it maps a page to a frame that  *)
(* was allocated for it, and there is room for the tables it adds.         *)
LEMMA MapFinalSound ==
  ASSUME NEW m, Sound(m), NEW t \in Slots, NEW r \in Frames, m.use[r] = RootOf(t),
         NEW p \in Pages, NEW f \in Frames, m.use[f] = PageOf(t, p),
         m.pt[r][p[1]] = None => m.next + 1 <= NFRAMES,
         m.pt[r][p[1]] # None /\ m.pt[m.pt[r][p[1]]][p[2]] = None => m.next <= NFRAMES
  PROVE  Sound(MapFinal(m, r, p, f)) /\ Extends(m, MapFinal(m, r, p, f))
<1> DEFINE m1 == SetupPte(m, r, p[1])
           l1 == m1.pt[r][p[1]]
           m2 == SetupPte(m1, l1, p[2])
           l0 == m2.pt[l1][p[2]]
           n  == [m2 EXCEPT !.pt[l0][p[3]] = f]
<1>1. MapFinal(m, r, p, f) = n
  BY DEF MapFinal
<1>2. /\ p[1] \in UserIndices /\ p[1] \in Indices /\ p[2] \in Indices /\ p[3] \in Indices
      /\ p = <<p[1], p[2], p[3]>>
  BY DEF Pages
<1>3. Guarded(m.use[r], p[1]) /\ m.use[r][1] # "last" /\ m.next \in Nat
  <2>1. m.use[r][1] = "root"
    BY UsesDiffer
  <2>2. m.next \in 6 .. NFRAMES + 1
    BY DEF Sound, MemoryType
  <2> QED
    BY <1>2, <2>1, <2>2 DEF Guarded
<1>4. /\ Sound(m1) /\ Extends(m, m1) /\ l1 \in Frames /\ m1.use[l1] = MiddleOf(t, p[1])
      /\ m.pt[r][p[1]] # None => m1 = m
      /\ m.pt[r][p[1]] = None => m1.next = m.next + 1 /\ m1.pt[l1] = NoEntries
  <2>1. m.pt[r][p[1]] = None => m.next <= NFRAMES
    BY <1>3
  <2> QED
    BY <1>2, <1>3, <2>1, SetupSound, BelowFacts
<1>5. Guarded(m1.use[l1], p[2]) /\ m1.use[l1][1] # "last"
  BY <1>4, UsesDiffer DEF Guarded
<1>6. m1.pt[l1][p[2]] = None => m1.next <= NFRAMES
  <2>1. CASE m.pt[r][p[1]] = None
    BY <1>4, <2>1
  <2>2. CASE m.pt[r][p[1]] # None
    BY <1>4, <2>2
  <2> QED
    BY <2>1, <2>2
<1> HIDE DEF m1, l1
<1>7. /\ Sound(m2) /\ Extends(m1, m2) /\ l0 \in Frames
      /\ m2.use[l0] = LastOf(t, p[1], p[2])
  BY <1>2, <1>4, <1>5, <1>6, SetupSound, BelowFacts
<1> HIDE DEF m2, l0
<1>8. Extends(m, m2)
  BY <1>4, <1>7 DEF Extends
<1>9. m2.use[f] = PageOf(t, p)
  BY <1>8, UsesDiffer DEF Extends
<1>10. Guarded(m2.use[l0], p[3]) /\ m2.use[f] = Below(m2.use[l0], p[3])
  BY <1>2, <1>7, <1>9, BelowFacts, UsesDiffer DEF Guarded
<1>11. Sound(n) /\ n.use = m2.use
  BY <1>2, <1>7, <1>10, EntrySound
<1> QED
  BY <1>1, <1>8, <1>11 DEF Extends

(* The new root of sys_fork's child.                                       *)
LEMMA NewRootSound ==
  ASSUME NEW m, Sound(m), m.next <= NFRAMES, NEW t \in Slots
  PROVE  /\ Sound([Taken(m, RootOf(t)) EXCEPT !.pt[m.next] = KernelDir])
         /\ Extends(m, [Taken(m, RootOf(t)) EXCEPT !.pt[m.next] = KernelDir])
         /\ [Taken(m, RootOf(t)) EXCEPT !.pt[m.next] = KernelDir].use[m.next] = RootOf(t)
<1> DEFINE k == Taken(m, RootOf(t))
           n == [k EXCEPT !.pt[m.next] = KernelDir]
<1>1. /\ m \in MemoryType /\ m.next \in Frames /\ m.next \in 6 .. NFRAMES
      /\ m.use[m.next] = Unused /\ m.pt[m.next] = NoEntries
  BY DEF Sound, MemoryType, Frames, Fresh
<1>2. /\ k.pt = m.pt /\ k.next = m.next + 1
      /\ k.use = [m.use EXCEPT ![m.next] = RootOf(t)]
      /\ k = [pt |-> k.pt, next |-> k.next, use |-> k.use]
  BY DEF Taken
<1> HIDE DEF k
<1>3. /\ n.pt = [m.pt EXCEPT ![m.next] = KernelDir] /\ n.next = m.next + 1
      /\ n.use = [m.use EXCEPT ![m.next] = RootOf(t)]
      /\ n = [pt |-> n.pt, next |-> n.next, use |-> n.use]
  BY <1>2
<1> HIDE DEF n
<1>4. n \in MemoryType
  <2>1. n.use \in [Frames -> Uses]
    BY <1>1, <1>3, UsesFacts DEF MemoryType
  <2>2. KernelDir \in [Indices -> Frames]
    BY DEF KernelDir, Frames
  <2>3. n.pt \in [Frames -> [Indices -> Frames]] /\ n.next \in 6 .. NFRAMES + 1
    BY <1>1, <1>3, <2>2 DEF MemoryType
  <2> QED
    BY <1>3, <2>1, <2>3 DEF MemoryType
<1>5. /\ n.use[m.next] = RootOf(t) /\ n.pt[m.next] = KernelDir
      /\ \A f \in Frames : f # m.next => n.use[f] = m.use[f] /\ n.pt[f] = m.pt[f]
  BY <1>1, <1>3 DEF MemoryType
<1>6. Wired(n)
  <2> SUFFICES ASSUME NEW f \in Frames, NEW i \in Indices,
                      Guarded(n.use[f], i), n.pt[f][i] # None
               PROVE  n.use[n.pt[f][i]] = Below(n.use[f], i)
    BY DEF Wired
  <2>1. f # m.next
    BY <1>5, UsesDiffer DEF Guarded, KernelDir
  <2>2. m.use[m.pt[f][i]] = Below(m.use[f], i) /\ m.pt[f][i] \in Frames
    <3>1. n.use[f] = m.use[f] /\ n.pt[f][i] = m.pt[f][i]
      BY <1>5, <2>1
    <3>2. m.pt[f][i] \in Frames
      BY <1>1 DEF MemoryType
    <3> QED
      BY <3>1, <3>2 DEF Sound, Wired
  <2>3. Below(m.use[f], i) # Unused
    BY <1>5, <2>1 DEF Guarded, Below, Unused, MiddleOf, LastOf, PageOf
  <2> QED
    BY <1>1, <1>5, <2>1, <2>2, <2>3
<1>7. Fresh(n)
  <2>1. RootOf(t) # Unused
    BY UsesDiffer
  <2> QED
    BY <1>1, <1>3, <1>5, <2>1 DEF Sound, Fresh, MemoryType, Frames
<1>8. KernelHalf(n)
  BY <1>1, <1>5 DEF Sound, KernelHalf, Swapper, Frames
<1>9. Extends(m, n)
  BY <1>1, <1>5 DEF Extends
<1> QED
  BY <1>4, <1>5, <1>6, <1>7, <1>8, <1>9 DEF Sound, n, k

-----------------------------------------------------------------------------
(* The steps of the specification.                                         *)

LEMMA VmasFacts ==
  ASSUME NEW i \in DOMAIN Vmas
  PROVE  /\ DOMAIN Vmas = 1 .. Len(Vmas) /\ Len(Vmas) \in Nat \ {0}
         /\ DOMAIN Vmas[i].pages = 1 .. Len(Vmas[i].pages)
         /\ Len(Vmas[i].pages) \in Nat \ {0}
         /\ PagesOf(i) \subseteq Pages
         /\ \A p \in PagesOf(i) : Contents(i, p) \in Values
<1>1. /\ DOMAIN Vmas = 1 .. Len(Vmas) /\ Len(Vmas) \in Nat \ {0}
      /\ Vmas[i].pages \in Seq(Pages) /\ Len(Vmas[i].pages) >= 1
  <2>1. Vmas \in Seq([pages : Seq(Pages), anon : BOOLEAN]) /\ Len(Vmas) >= 1
    BY VmasAssumption
  <2>2. /\ DOMAIN Vmas = 1 .. Len(Vmas) /\ Len(Vmas) \in Nat \ {0}
        /\ Vmas[i] \in [pages : Seq(Pages), anon : BOOLEAN]
    <3>1. ASSUME NEW S, Vmas \in Seq(S), Len(Vmas) >= 1
          PROVE  /\ DOMAIN Vmas = 1 .. Len(Vmas) /\ Len(Vmas) \in Nat \ {0}
                 /\ Vmas[i] \in S
      BY <3>1
    <3> QED
      BY <2>1, <3>1
  <2>3. Vmas[i].pages \in Seq(Pages)
    BY <2>2
  <2>4. Len(Vmas[i].pages) >= 1
    <3>1. \A k \in DOMAIN Vmas :
            IF Vmas[k].anon THEN Len(Vmas[k].pages) = 1 ELSE Len(Vmas[k].pages) >= 1
      BY VmasAssumption
    <3>2. IF Vmas[i].anon THEN Len(Vmas[i].pages) = 1 ELSE Len(Vmas[i].pages) >= 1
      BY <3>1
    <3>3. Len(Vmas[i].pages) = 1 \/ Len(Vmas[i].pages) >= 1
      BY <3>2
    <3> QED
      BY <3>3
  <2> QED
    BY <2>2, <2>3, <2>4
<1>2. DOMAIN Vmas[i].pages = 1 .. Len(Vmas[i].pages) /\ Len(Vmas[i].pages) \in Nat \ {0}
  BY <1>1
<1>3. PagesOf(i) \subseteq Pages
  BY <1>1, <1>2 DEF PagesOf
<1>4. ASSUME NEW p \in PagesOf(i) PROVE Contents(i, p) \in Values
  <2>1. p \in UserPages
    BY DEF UserPages
  <2> QED
    BY <2>1, ValuesAssumption DEF Contents
<1> QED
  BY <1>1, <1>2, <1>3, <1>4

(* The fault handler and the copy loop map a page of data they have just   *)
(* allocated.                                                              *)
LEMMA MappedSound ==
  ASSUME IInv, NEW t \in live \ {Idle}, NEW p \in Pages, Room(Needed(root[t], p))
  PROVE  Sound(Mapped(t, p)) /\ Extends(Memory, Mapped(t, p))
<1> DEFINE k == Taken(Memory, PageOf(t, p))
<1>1. /\ t \in Slots /\ root[t] \in Frames /\ use[root[t]] = RootOf(t)
      /\ next \in 6 .. NFRAMES + 1
  BY DEF IInv, TypeOK, Rooted
<1>2. /\ Memory.pt = pt /\ Memory.next = next /\ Memory.use = use /\ Sound(Memory)
  BY DEF Memory, IInv
<1>3. /\ next <= NFRAMES
      /\ pt[root[t]][p[1]] = None => next + 2 <= NFRAMES
      /\ pt[root[t]][p[1]] # None /\ pt[pt[root[t]][p[1]]][p[2]] = None => next + 1 <= NFRAMES
  BY <1>1 DEF Room, Needed
<1>4. PageOf(t, p) \in Uses /\ PageOf(t, p) # Unused /\ PageOf(t, p)[1] # "root"
  BY <1>1, UsesFacts, UsesDiffer
<1>5. /\ Sound(k) /\ Extends(Memory, k) /\ k.use[next] = PageOf(t, p)
      /\ k.pt = pt /\ k.next = next + 1
  BY <1>2, <1>3, <1>4, TakenSound
<1>6. next \in Frames /\ k.use[root[t]] = RootOf(t)
  BY <1>1, <1>2, <1>3, <1>5, UsesDiffer DEF Frames, Extends
<1>7. Mapped(t, p) = MapFinal(k, root[t], p, next)
  BY DEF Mapped
<1> HIDE DEF k
<1>8. /\ k.pt[root[t]][p[1]] = None => k.next + 1 <= NFRAMES
      /\ k.pt[root[t]][p[1]] # None /\ k.pt[k.pt[root[t]][p[1]]][p[2]] = None
           => k.next <= NFRAMES
  BY <1>1, <1>3, <1>5
<1>9. /\ Sound(MapFinal(k, root[t], p, next))
      /\ Extends(k, MapFinal(k, root[t], p, next))
  BY <1>1, <1>5, <1>6, <1>8, MapFinalSound
<1> QED
  BY <1>2, <1>5, <1>7, <1>9 DEF Extends

(* A step that keeps memory sound and the tasks' roots keeps the invariant *)
(* when it keeps the types of the other variables.                         *)
LEMMA MemoryStep ==
  ASSUME NEW m, Sound(m), MemoryBecomes(m)
  PROVE  /\ Memory' = m /\ Sound(Memory)'
         /\ pt' \in [Frames -> [Indices -> Frames]]
         /\ next' \in 6 .. NFRAMES + 1 /\ use' \in [Frames -> Uses]
<1>1. m \in MemoryType
  BY DEF Sound
<1>2. /\ m = [pt |-> m.pt, next |-> m.next, use |-> m.use]
      /\ m.pt \in [Frames -> [Indices -> Frames]]
      /\ m.next \in 6 .. NFRAMES + 1 /\ m.use \in [Frames -> Uses]
  BY <1>1 DEF MemoryType
<1>3. Memory' = m
  BY <1>2 DEF Memory, MemoryBecomes
<1>4. Sound(Memory')
  BY <1>3
<1> QED
  BY <1>2, <1>3, <1>4 DEF MemoryBecomes, Sound, MemoryType, Wired, Fresh, KernelHalf

LEMMA RootedStep ==
  ASSUME TypeOK, Rooted, NEW m, Extends(Memory, m), MemoryBecomes(m), UNCHANGED <<live, root>>
  PROVE  Rooted'
<1> SUFFICES ASSUME NEW t \in live \ {Idle} PROVE use'[root[t]] = RootOf(t)
  BY DEF Rooted
<1>1. use[root[t]] = RootOf(t) /\ root[t] \in Frames /\ RootOf(t) # Unused
  BY UsesDiffer DEF Rooted, TypeOK
<1>2. m.use[root[t]] = RootOf(t)
  BY <1>1 DEF Extends, Memory
<1> QED
  BY <1>2 DEF MemoryBecomes

(* Walking the tables of a task ends at a frame.                           *)
LEMMA FrameInFrames ==
  ASSUME TypeOK, NEW t \in Slots, NEW p \in Pages
  PROVE  Frame(t, p) \in Frames
<1>1. p[1] \in Indices /\ p[2] \in Indices /\ p[3] \in Indices
  BY DEF Pages
<1>2. root[t] \in Frames /\ pt \in [Frames -> [Indices -> Frames]]
  BY DEF TypeOK
<1>3. pt[root[t]][p[1]] \in Frames
  BY <1>1, <1>2
<1>4. pt[pt[root[t]][p[1]]][p[2]] \in Frames
  BY <1>1, <1>2, <1>3
<1>5. pt[pt[pt[root[t]][p[1]]][p[2]]][p[3]] \in Frames
  BY <1>1, <1>2, <1>4
<1> QED
  BY <1>5 DEF Frame

LEMMA InitInv == Init => IInv
<1> SUFFICES ASSUME Init PROVE IInv
  OBVIOUS
<1> USE DEF Init
<1>1. /\ Swapper = 1 /\ 5 \in Frames /\ 1 \in Frames /\ 2 \in Frames /\ 0 \in Frames
      /\ 0 \in Slots /\ 1 \in Slots
  BY DEF Swapper, Frames, Slots
<1>2. KernelDir \in [Indices -> Frames] /\ NoEntries \in [Indices -> Frames]
  BY <1>1 DEF KernelDir, NoEntries
<1>3. use \in [Frames -> Uses]
  BY <1>1, UsesFacts
<1>4. pt \in [Frames -> [Indices -> Frames]] /\ next \in 6 .. NFRAMES + 1
  BY <1>2
<1>5. TypeOK
  <2>1. data \in [Frames -> Values]
    BY ValuesAssumption
  <2>2. root \in [Slots -> Frames]
    BY <1>1
  <2>3. 1 \in DOMAIN Vmas /\ 1 \in DOMAIN Vmas[1].pages
    <3>1. 1 \in DOMAIN Vmas
      BY VmasAssumption
    <3> QED
      BY <3>1, VmasFacts
  <2>4. at[1] \in DOMAIN Vmas /\ at[2] \in DOMAIN Vmas[at[1]].pages
    BY <2>3
  <2> QED
    BY <1>1, <1>3, <1>4, <2>1, <2>2, <2>4 DEF TypeOK
<1>6. Memory \in MemoryType
  BY <1>3, <1>4 DEF Memory, MemoryType
<1>7. /\ \A f \in Frames : /\ f <= 3 => use[f] = Kernel
                           /\ f = 4 => use[f] = TaskPage(1)
                           /\ f = 5 => use[f] = RootOf(1)
                           /\ f >= 6 <=> use[f] = Unused
      /\ \A f \in Frames : pt[f] = IF f \in {1, 5} THEN KernelDir ELSE NoEntries
  <2>1. Kernel # Unused /\ TaskPage(1) # Unused /\ RootOf(1) # Unused
    BY UsesDiffer
  <2>2. \A f \in Frames : use[f] = CASE f <= 3 -> Kernel
                                     [] f = 4  -> TaskPage(1)
                                     [] f = 5  -> RootOf(1)
                                     [] OTHER  -> Unused
    BY <1>1
  <2>3. ASSUME NEW f \in Frames
        PROVE  /\ f <= 3 => use[f] = Kernel
               /\ f = 4 => use[f] = TaskPage(1)
               /\ f = 5 => use[f] = RootOf(1)
               /\ f >= 6 <=> use[f] = Unused
    <3>1. f \in Nat
      BY DEF Frames
    <3>2. f <= 3 \/ f = 4 \/ f = 5 \/ f >= 6
      BY <3>1
    <3> QED
      BY <2>1, <2>2, <3>1, <3>2
  <2>4. \A f \in Frames : pt[f] = IF f \in {1, 5} THEN KernelDir ELSE NoEntries
    BY <1>1
  <2> QED
    BY <2>3, <2>4
<1>8. Wired(Memory)
  <2> SUFFICES ASSUME NEW f \in Frames, NEW i \in Indices,
                      Guarded(use[f], i), pt[f][i] # None
               PROVE  FALSE
    BY DEF Wired, Memory
  <2>1. f = 1 \/ f = 5
    BY <1>7 DEF NoEntries
  <2>2. f = 5 /\ i \in UserIndices
    BY <1>7, <2>1, UsesDiffer DEF Guarded
  <2> QED
    BY <1>7, <2>2 DEF KernelDir
<1>9. Fresh(Memory)
  BY <1>7 DEF Fresh, Memory, Frames
<1>10. KernelHalf(Memory)
  <2>1. \A f \in Frames : use[f][1] = "root" => f = 5
    BY <1>7, UsesDiffer DEF Frames
  <2> QED
    BY <1>1, <1>7, <2>1 DEF KernelHalf, Memory
<1>11. Rooted
  <2>1. use[5] = RootOf(1)
    BY <1>1, <1>7
  <2> QED
    BY <1>1, <2>1 DEF Rooted
<1> QED
  BY <1>5, <1>6, <1>8, <1>9, <1>10, <1>11 DEF IInv, Sound

(* The next page of sys_fork's loops is one of an area, or none is left.   *)
LEMMA AfterFacts ==
  ASSUME NEW i \in DOMAIN Vmas, NEW j \in DOMAIN Vmas[i].pages
  PROVE  \/ /\ After(i, j)[1] \in DOMAIN Vmas
            /\ After(i, j)[2] \in DOMAIN Vmas[After(i, j)[1]].pages
         \/ After(i, j) = <<Len(Vmas) + 1, 1>>
<1>1. /\ DOMAIN Vmas = 1 .. Len(Vmas) /\ Len(Vmas) \in Nat \ {0}
      /\ DOMAIN Vmas[i].pages = 1 .. Len(Vmas[i].pages)
      /\ Len(Vmas[i].pages) \in Nat \ {0}
  BY VmasFacts
<1>2. CASE j < Len(Vmas[i].pages)
  <2>1. After(i, j)[1] = i /\ After(i, j)[2] = j + 1
    BY <1>2 DEF After
  <2>2. j + 1 \in DOMAIN Vmas[i].pages
    BY <1>1, <1>2
  <2> QED
    BY <2>1, <2>2
<1>3. CASE ~ (j < Len(Vmas[i].pages))
  <2>1. After(i, j) = <<i + 1, 1>>
    BY <1>3 DEF After
  <2>2. CASE i + 1 \in DOMAIN Vmas
    <3>1. 1 \in DOMAIN Vmas[i + 1].pages
      <4>1. DOMAIN Vmas[i + 1].pages = 1 .. Len(Vmas[i + 1].pages)
        BY <2>2, VmasFacts
      <4>2. Len(Vmas[i + 1].pages) \in Nat \ {0}
        BY <2>2, VmasFacts
      <4> QED
        BY <4>1, <4>2
    <3> QED
      BY <2>1, <2>2, <3>1
  <2>3. CASE i + 1 \notin DOMAIN Vmas
    <3>1. i = Len(Vmas)
      BY <1>1, <2>3
    <3> QED
      BY <2>1, <3>1
  <2> QED
    BY <2>2, <2>3
<1> QED
  BY <1>2, <1>3

(* Each action keeps the invariant.                                        *)
LEMMA StoreInv ==
  ASSUME IInv, NEW p \in UserPages, NEW v \in Values, Store(p, v)
  PROVE  IInv'
<1>1. data' \in [Frames -> Values]
  BY DEF IInv, TypeOK, Store
<1>2. TypeOK'
  BY <1>1 DEF IInv, TypeOK, Store
<1>3. Memory' = Memory
  BY DEF Memory, Store
<1>4. Sound(Memory)'
  BY <1>3 DEF IInv, Sound, MemoryType, Wired, Fresh, KernelHalf
<1>5. Rooted'
  BY DEF IInv, Rooted, Store
<1> QED
  BY <1>2, <1>4, <1>5 DEF IInv

LEMMA PageFaultInv ==
  ASSUME IInv, NEW i \in DOMAIN Vmas, NEW p \in PagesOf(i), PageFault(i, p)
  PROVE  IInv'
<1> DEFINE m == Mapped(current, p)
<1>1. p \in Pages /\ Contents(i, p) \in Values
  BY VmasFacts
<1>2. current \in live \ {Idle}
  BY DEF IInv, TypeOK
<1>3. Sound(m) /\ Extends(Memory, m)
  BY <1>1, <1>2, MappedSound DEF PageFault
<1> HIDE DEF m
<1>4. MemoryBecomes(m)
  BY DEF PageFault, m
<1>5. /\ Memory' = m /\ Sound(Memory)'
      /\ pt' \in [Frames -> [Indices -> Frames]]
      /\ next' \in 6 .. NFRAMES + 1 /\ use' \in [Frames -> Uses]
  BY <1>3, <1>4, MemoryStep
<1>6. TypeOK'
  <2>1. data' \in [Frames -> Values]
    BY <1>1 DEF IInv, TypeOK, PageFault
  <2> QED
    BY <1>5, <2>1 DEF IInv, TypeOK, PageFault
<1>7. Rooted'
  BY <1>3, <1>4, RootedStep DEF PageFault, IInv
<1> QED
  BY <1>5, <1>6, <1>7 DEF IInv

LEMMA CopyPageInv ==
  ASSUME IInv, CopyPage
  PROVE  IInv'
<1> DEFINE p == Vmas[at[1]].pages[at[2]]
           m == Mapped(child, p)
<1>1. at[1] \in DOMAIN Vmas /\ at[2] \in DOMAIN Vmas[at[1]].pages
  <2>1. at = <<Len(Vmas) + 1, 1>> => at[1] \notin DOMAIN Vmas
    BY VmasFacts DEF CopyPage
  <2> QED
    BY <2>1 DEF IInv, TypeOK, CopyPage
<1>2. p \in Pages
  <2>1. p \in PagesOf(at[1])
    BY <1>1 DEF PagesOf
  <2> QED
    BY <1>1, <2>1, VmasFacts
<1>3. /\ child \in live \ {Idle} /\ current \in live \ {Idle}
      /\ child \in Slots /\ mode = "fork"
  BY DEF IInv, TypeOK, CopyPage
<1>4. /\ at' = After(at[1], at[2])
      /\ UNCHANGED <<live, root, current, mode, child>>
  BY DEF CopyPage
<1>5. \/ at'[1] \in DOMAIN Vmas /\ at'[2] \in DOMAIN Vmas[at'[1]].pages
      \/ mode' = "fork" /\ at' = <<Len(Vmas) + 1, 1>>
  BY <1>1, <1>3, <1>4, AfterFacts
<1>6. CASE /\ Frame(current, p) # None
           /\ Room(Needed(root[child], p))
           /\ MemoryBecomes(m)
           /\ data' = pgcpy(data, next, ReadActive(p))
  <2> HIDE DEF p
  <2>1. Sound(m) /\ Extends(Memory, m)
    BY <1>2, <1>3, <1>6, MappedSound
  <2> HIDE DEF m
  <2>2. /\ Memory' = m /\ Sound(Memory)'
        /\ pt' \in [Frames -> [Indices -> Frames]]
        /\ next' \in 6 .. NFRAMES + 1 /\ use' \in [Frames -> Uses]
    BY <1>6, <2>1, MemoryStep
  <2>3. data' \in [Frames -> Values]
    <3>1. Frame(current, p) \in Frames
      <4>1. TypeOK /\ current \in Slots /\ p \in Pages
        BY <1>2, <1>3 DEF IInv, TypeOK, p
      <4> QED
        BY <4>1, FrameInFrames
    <3> QED
      BY <1>6, <3>1 DEF IInv, TypeOK, ReadActive, pgcpy
  <2>4. TypeOK'
    BY <1>4, <1>5, <2>2, <2>3 DEF IInv, TypeOK
  <2>5. Rooted'
    BY <1>4, <1>6, <2>1, RootedStep DEF IInv
  <2> QED
    BY <2>2, <2>4, <2>5 DEF IInv
<1>7. CASE UNCHANGED mem
  <2>1. TypeOK'
    BY <1>4, <1>5, <1>7 DEF IInv, TypeOK, mem
  <2>2. Memory' = Memory
    BY <1>7 DEF Memory, mem
  <2>3. Sound(Memory)'
    BY <2>2 DEF IInv, Sound, MemoryType, Wired, Fresh, KernelHalf
  <2>4. Rooted'
    BY <1>4, <1>7 DEF IInv, Rooted, mem
  <2> QED
    BY <2>1, <2>3, <2>4 DEF IInv
<1> QED
  BY <1>6, <1>7 DEF CopyPage

LEMMA ForkBeginInv ==
  ASSUME IInv, ForkBegin
  PROVE  IInv'
<1>1. PICK c \in Slots :
        /\ FirstFree(c)
        /\ MemoryBecomes([Taken(Taken(Memory, TaskPage(c)), RootOf(c))
                            EXCEPT !.pt[next + 1] = ChildRoot])
        /\ live'  = live \cup {c}
        /\ root'  = [root EXCEPT ![c] = next + 1]
        /\ child' = c
  BY DEF ForkBegin, pgcpy
<1> DEFINE k == Taken(Memory, TaskPage(c))
           m == [Taken(k, RootOf(c)) EXCEPT !.pt[next + 1] = KernelDir]
<1>2. /\ Memory.pt = pt /\ Memory.next = next /\ Memory.use = use /\ Sound(Memory)
      /\ next \in 6 .. NFRAMES + 1 /\ next + 2 <= NFRAMES + 1
  BY DEF Memory, IInv, TypeOK, ForkBegin, Room
<1>3. c \notin live /\ c # Idle /\ c # First
  BY <1>1 DEF FirstFree, FreeSlots
<1>4. TaskPage(c) \in Uses /\ TaskPage(c) # Unused /\ TaskPage(c)[1] # "root"
  BY UsesFacts, UsesDiffer
<1>5. Sound(k) /\ Extends(Memory, k) /\ k.pt = pt /\ k.next = next + 1
  BY <1>2, <1>4, TakenSound
<1> HIDE DEF k
<1>6. Sound(m) /\ Extends(k, m) /\ m.use[next + 1] = RootOf(c)
  BY <1>2, <1>5, NewRootSound
<1>7. Extends(Memory, m)
  BY <1>5, <1>6 DEF Extends
<1>8. MemoryBecomes(m)
  <2>1. ChildRoot = KernelDir
    BY <1>2 DEF ChildRoot, Sound, KernelHalf
  <2> QED
    BY <1>1, <2>1 DEF k
<1> HIDE DEF m
<1>9. /\ Memory' = m /\ Sound(Memory)'
      /\ pt' \in [Frames -> [Indices -> Frames]]
      /\ next' \in 6 .. NFRAMES + 1 /\ use' \in [Frames -> Uses]
  BY <1>6, <1>8, MemoryStep
<1>10. /\ mode' = "fork" /\ at' = <<1, 1>> /\ data' = data /\ current' = current
  BY DEF ForkBegin
<1>11. TypeOK'
  <2>1. root' \in [Slots -> Frames]
    <3>1. next + 1 \in Frames
      BY <1>2 DEF Frames
    <3> QED
      BY <1>1, <3>1 DEF IInv, TypeOK
  <2>2. 1 \in DOMAIN Vmas /\ 1 \in DOMAIN Vmas[1].pages
    <3>1. 1 \in DOMAIN Vmas
      BY VmasAssumption
    <3> QED
      BY <3>1, VmasFacts
  <2>3. at'[1] \in DOMAIN Vmas /\ at'[2] \in DOMAIN Vmas[at'[1]].pages
    BY <1>10, <2>2
  <2>4. /\ child' \in live' /\ child' # Idle /\ child' # current'
        /\ {Idle, First} \subseteq live' /\ live' \subseteq Slots
        /\ current' \in live' \ {Idle}
    BY <1>1, <1>3, <1>10 DEF IInv, TypeOK
  <2>5. data' \in [Frames -> Values]
    BY <1>10 DEF IInv, TypeOK
  <2> QED
    BY <1>9, <1>10, <2>1, <2>3, <2>4, <2>5 DEF TypeOK
<1>12. Rooted'
  <2> SUFFICES ASSUME NEW t \in live' \ {Idle} PROVE use'[root'[t]] = RootOf(t)
    BY DEF Rooted
  <2>1. use' = m.use
    BY <1>8 DEF MemoryBecomes
  <2>2. CASE t = c
    BY <1>1, <1>6, <2>1, <2>2 DEF IInv, TypeOK
  <2>3. CASE t # c
    <3>1. t \in live \ {Idle} /\ root[t] \in Frames /\ root'[t] = root[t]
      BY <1>1, <2>3 DEF IInv, TypeOK
    <3>2. use[root[t]] = RootOf(t) /\ use[root[t]] # Unused
      BY <3>1, UsesDiffer DEF IInv, Rooted
    <3> QED
      BY <1>2, <1>7, <2>1, <3>1, <3>2 DEF Extends
  <2> QED
    BY <2>2, <2>3
<1> QED
  BY <1>9, <1>11, <1>12 DEF IInv

LEMMA ForkTableFullInv ==
  ASSUME IInv, ForkTableFull
  PROVE  IInv'
<1> DEFINE m == Taken(Memory, Kernel)
<1>1. /\ Memory.pt = pt /\ Memory.next = next /\ Memory.use = use /\ Sound(Memory)
      /\ next \in 6 .. NFRAMES + 1 /\ next + 1 <= NFRAMES + 1
  BY DEF Memory, IInv, TypeOK, ForkTableFull, Room
<1>2. Kernel \in Uses /\ Kernel # Unused /\ Kernel[1] # "root"
  BY UsesFacts, UsesDiffer
<1>3. Sound(m) /\ Extends(Memory, m)
  BY <1>1, <1>2, TakenSound
<1>4. MemoryBecomes(m)
  BY DEF ForkTableFull, MemoryBecomes, Taken, Memory
<1> HIDE DEF m
<1>5. /\ Memory' = m /\ Sound(Memory)'
      /\ pt' \in [Frames -> [Indices -> Frames]]
      /\ next' \in 6 .. NFRAMES + 1 /\ use' \in [Frames -> Uses]
  BY <1>3, <1>4, MemoryStep
<1>6. TypeOK'
  BY <1>5 DEF IInv, TypeOK, ForkTableFull, InUser
<1>7. Rooted'
  BY <1>3, <1>4, RootedStep DEF ForkTableFull, IInv
<1> QED
  BY <1>5, <1>6, <1>7 DEF IInv

(* The steps that leave memory alone.                                      *)
LEMMA QuietInv ==
  ASSUME IInv, UNCHANGED mem, UNCHANGED <<live, root>>, TypeOK'
  PROVE  IInv'
<1>1. Memory' = Memory
  BY DEF Memory, mem
<1>2. Sound(Memory)'
  BY <1>1 DEF IInv, Sound, MemoryType, Wired, Fresh, KernelHalf
<1>3. Rooted'
  BY DEF IInv, Rooted, mem
<1> QED
  BY <1>2, <1>3 DEF IInv

LEMMA StepInv == IInv /\ [Next]_vars => IInv'
<1> SUFFICES ASSUME IInv, [Next]_vars PROVE IInv'
  OBVIOUS
<1>1. ASSUME NEW p \in UserPages, NEW v \in Values, Store(p, v) PROVE IInv'
  BY <1>1, StoreInv
<1>2. ASSUME NEW i \in DOMAIN Vmas, NEW p \in PagesOf(i), PageFault(i, p) PROVE IInv'
  BY <1>2, PageFaultInv
<1>3. CASE FaultNoVma
  <2>1. TypeOK'
    BY <1>3 DEF IInv, TypeOK, FaultNoVma, InUser
  <2> QED
    BY <1>3, <2>1, QuietInv DEF FaultNoVma, mem
<1>4. ASSUME NEW t \in Slots, Switch(t) PROVE IInv'
  <2>1. TypeOK'
    BY <1>4 DEF IInv, TypeOK, Switch, InUser
  <2> QED
    BY <1>4, <2>1, QuietInv DEF Switch, mem
<1>5. CASE ForkBegin
  BY <1>5, ForkBeginInv
<1>6. CASE CopyPage
  BY <1>6, CopyPageInv
<1>7. CASE ForkEnd
  <2>1. at' = <<1, 1>> /\ 1 \in DOMAIN Vmas /\ 1 \in DOMAIN Vmas[1].pages
    <3>1. 1 \in DOMAIN Vmas
      BY VmasAssumption
    <3> QED
      BY <1>7, <3>1, VmasFacts DEF ForkEnd
  <2>2. at'[1] \in DOMAIN Vmas /\ at'[2] \in DOMAIN Vmas[at'[1]].pages
    BY <2>1
  <2>3. TypeOK'
    BY <1>7, <2>2 DEF IInv, TypeOK, ForkEnd
  <2> QED
    BY <1>7, <2>3, QuietInv DEF ForkEnd, mem
<1>8. CASE ForkTableFull
  BY <1>8, ForkTableFullInv
<1>9. CASE UNCHANGED vars
  <2>1. TypeOK'
    BY <1>9 DEF IInv, TypeOK, vars
  <2> QED
    BY <1>9, <2>1, QuietInv DEF vars, mem
<1> QED
  BY <1>1, <1>2, <1>3, <1>4, <1>5, <1>6, <1>7, <1>8, <1>9 DEF Next

-----------------------------------------------------------------------------
(* What the invariant says of the frames the code walks to.                *)

(* The frames on the way to a page are used for exactly that path.         *)
LEMMA WalkUse ==
  ASSUME IInv, NEW t \in live \ {Idle}
  PROVE  /\ t \in Slots /\ root[t] \in Frames /\ use[root[t]] = RootOf(t)
         /\ \A a \in UserIndices :
              /\ pt[root[t]][a] \in Frames
              /\ pt[root[t]][a] # None => use[pt[root[t]][a]] = MiddleOf(t, a)
         /\ \A a \in UserIndices, b \in Indices :
              /\ pt[pt[root[t]][a]][b] \in Frames
              /\ pt[pt[root[t]][a]][b] # None =>
                   use[pt[pt[root[t]][a]][b]] = LastOf(t, a, b)
         /\ \A p \in Pages :
              /\ Frame(t, p) \in Frames
              /\ Frame(t, p) # None => use[Frame(t, p)] = PageOf(t, p)
<1>1. t \in Slots /\ root[t] \in Frames /\ use[root[t]] = RootOf(t)
  BY DEF IInv, TypeOK, Rooted
<1>2. /\ pt[None] = NoEntries /\ pt \in [Frames -> [Indices -> Frames]]
      /\ \A f \in Frames, i \in Indices :
           Guarded(use[f], i) /\ pt[f][i] # None => use[pt[f][i]] = Below(use[f], i)
  BY DEF IInv, TypeOK, Sound, Wired, KernelHalf, Memory
<1>3. ASSUME NEW a \in UserIndices
      PROVE  /\ pt[root[t]][a] \in Frames
             /\ pt[root[t]][a] # None => use[pt[root[t]][a]] = MiddleOf(t, a)
  <2>1. a \in Indices /\ Guarded(use[root[t]], a)
    BY <1>1, UsesDiffer DEF Guarded
  <2>2. Below(use[root[t]], a) = MiddleOf(t, a)
    BY <1>1, BelowFacts
  <2>3. pt[root[t]][a] \in Frames
    BY <1>1, <1>2, <2>1
  <2> QED
    BY <1>1, <1>2, <2>1, <2>2, <2>3
<1>4. ASSUME NEW a \in UserIndices, NEW b \in Indices
      PROVE  /\ pt[pt[root[t]][a]][b] \in Frames
             /\ pt[pt[root[t]][a]][b] # None =>
                  use[pt[pt[root[t]][a]][b]] = LastOf(t, a, b)
  <2> DEFINE f == pt[root[t]][a]
  <2>1. f \in Frames /\ (f # None => use[f] = MiddleOf(t, a))
    BY <1>3
  <2> HIDE DEF f
  <2>2. CASE f = None
    BY <1>2, <2>1, <2>2 DEF NoEntries, f
  <2>3. CASE f # None
    <3>1. use[f] = MiddleOf(t, a)
      BY <2>1, <2>3
    <3>2. Guarded(use[f], b)
      BY <3>1, UsesDiffer DEF Guarded
    <3>3. Below(use[f], b) = LastOf(t, a, b)
      BY <3>1, BelowFacts
    <3>4. pt[f][b] \in Frames /\ (pt[f][b] # None => use[pt[f][b]] = LastOf(t, a, b))
      BY <1>2, <2>1, <3>2, <3>3
    <3> QED
      BY <3>4 DEF f
  <2> QED
    BY <2>2, <2>3
<1>5. ASSUME NEW p \in Pages
      PROVE  /\ Frame(t, p) \in Frames
             /\ Frame(t, p) # None => use[Frame(t, p)] = PageOf(t, p)
  <2> DEFINE f == pt[pt[root[t]][p[1]]][p[2]]
  <2>1. /\ p[1] \in UserIndices /\ p[2] \in Indices /\ p[3] \in Indices
        /\ p = <<p[1], p[2], p[3]>>
    BY DEF Pages
  <2>2. f \in Frames /\ (f # None => use[f] = LastOf(t, p[1], p[2]))
    BY <1>4, <2>1
  <2>3. Frame(t, p) = pt[f][p[3]]
    BY DEF Frame
  <2> HIDE DEF f
  <2>4. CASE f = None
    BY <1>2, <2>1, <2>2, <2>3, <2>4 DEF NoEntries
  <2>5. CASE f # None
    <3>1. Guarded(use[f], p[3]) /\ Below(use[f], p[3]) = PageOf(t, p)
      BY <2>1, <2>2, <2>5, UsesDiffer, BelowFacts DEF Guarded
    <3> QED
      BY <1>2, <2>1, <2>2, <2>3, <3>1
  <2> QED
    BY <2>4, <2>5
<1> QED
  BY <1>1, <1>3, <1>4, <1>5

LEMMA InvIsolation == IInv => Isolation
<1> SUFFICES ASSUME IInv, NEW t \in live \ {Idle}, NEW u \in live \ {Idle},
                    NEW p \in Pages, NEW q \in Pages,
                    Frame(t, p) # None, Frame(t, p) = Frame(u, q)
             PROVE  t = u /\ p = q
  BY DEF Isolation
<1>1. use[Frame(t, p)] = PageOf(t, p) /\ use[Frame(u, q)] = PageOf(u, q)
  BY WalkUse
<1> QED
  BY <1>1 DEF PageOf

LEMMA InvTablesNotExposed == IInv => TablesNotExposed
<1> SUFFICES ASSUME IInv, NEW t \in live \ {Idle}, NEW u \in live \ {Idle},
                    NEW p \in Pages, Frame(t, p) # None
             PROVE  Frame(t, p) < next /\ Frame(t, p) \notin Tables(u) \cup KernelFrames
  BY DEF TablesNotExposed
<1>1. Frame(t, p) \in Frames /\ use[Frame(t, p)] = PageOf(t, p)
  BY WalkUse
<1>2. use[Frame(t, p)][1] = "page"
  BY <1>1, UsesDiffer
<1>3. Frame(t, p) < next
  <2>1. next \in 6 .. NFRAMES + 1 /\ Frame(t, p) \in Int
    BY <1>1 DEF IInv, TypeOK, Frames
  <2>2. ~ (Frame(t, p) >= next)
    BY <1>1, <1>2, UsesDiffer DEF IInv, Sound, Fresh, Memory
  <2> QED
    BY <2>1, <2>2
<1>4. Frame(t, p) # root[u]
  <2>1. use[root[u]] = RootOf(u) /\ RootOf(u)[1] = "root"
    BY WalkUse, UsesDiffer
  <2> QED
    BY <1>2, <2>1
<1>5. ASSUME NEW a \in UserIndices PROVE Frame(t, p) # pt[root[u]][a]
  <2>1. pt[root[u]][a] # None => use[pt[root[u]][a]] = MiddleOf(u, a)
    BY WalkUse
  <2>2. MiddleOf(u, a)[1] = "middle"
    BY UsesDiffer
  <2> QED
    BY <1>2, <2>1, <2>2
<1>6. ASSUME NEW a \in UserIndices, NEW b \in Indices
      PROVE  Frame(t, p) # pt[pt[root[u]][a]][b]
  <2>1. pt[pt[root[u]][a]][b] # None => use[pt[pt[root[u]][a]][b]] = LastOf(u, a, b)
    BY WalkUse
  <2>2. LastOf(u, a, b)[1] = "last"
    BY UsesDiffer
  <2> QED
    BY <1>2, <2>1, <2>2
<1>7. Frame(t, p) \notin Tables(u)
  BY <1>4, <1>5, <1>6 DEF Tables
<1>8. Frame(t, p) \notin KernelFrames
  BY <1>2, UsesDiffer DEF KernelFrames
<1> QED
  BY <1>3, <1>7, <1>8

LEMMA InvKernelEverywhere == IInv => KernelEverywhere
<1> SUFFICES ASSUME IInv, NEW t \in live \ {Idle}, NEW i \in Indices
             PROVE  /\ pt[Swapper][i] = KernelDir[i]
                    /\ i \notin UserIndices => pt[root[t]][i] = KernelDir[i]
  BY DEF KernelEverywhere
<1>1. root[t] \in Frames /\ use[root[t]][1] = "root"
  <2>1. root[t] \in Frames /\ use[root[t]] = RootOf(t)
    BY WalkUse
  <2> QED
    BY <2>1, UsesDiffer
<1> QED
  BY <1>1 DEF IInv, Sound, KernelHalf, Memory

-----------------------------------------------------------------------------
(* The theorems.                                                           *)

(* Every reachable state satisfies the inductive invariant.                *)
THEOREM Invariance == Spec => []IInv
BY InitInv, StepInv, PTL DEF Spec

(* Every variable keeps its type, and the copy loops of sys_fork never     *)
(* leave the areas before they are done.                                   *)
THEOREM TypeCorrect == Spec => []TypeOK
<1>1. IInv => TypeOK
  BY DEF IInv
<1> QED
  BY <1>1, Invariance, PTL

(* No two user pages of any tasks ever share a frame: page faults, the     *)
(* copies of fork and the tables map_final_pgtbl adds keep address spaces  *)
(* apart, in every state of a fork.                                        *)
THEOREM MemoryIsPrivate == Spec => []Isolation
BY Invariance, InvIsolation, PTL

(* No user page is ever mapped to a page table, a task page or the kernel. *)
THEOREM TablesAreHidden == Spec => []TablesNotExposed
BY Invariance, InvTablesNotExposed, PTL

(* The kernel's half of every task's tables stays what boot made it.       *)
THEOREM KernelIsShared == Spec => []KernelEverywhere
BY Invariance, InvKernelEverywhere, PTL

-----------------------------------------------------------------------------
(***************************************************************************)
(* AddrSpace implements ProcMem.                                           *)
(*                                                                         *)
(* Two things have to be shown.  map_final_pgtbl changes one page of one   *)
(* task, and leaves every other walk through any task's tables as it was   *)
(* (MapFinalWalks): tables are found by walks, and a table it adds is      *)
(* empty.  And when the copy loops of sys_fork are done, the child has     *)
(* every page of the parent, and no other (Copied).                        *)
(***************************************************************************)

(* Walks.                                                                  *)

(* The frame that the tables below r lead to: the table with the entry for *)
(* page q, and page q.                                                     *)
WalkTable(m, r, q) == m.pt[m.pt[r][q[1]]][q[2]]
Walk(m, r, q)      == m.pt[WalkTable(m, r, q)][q[3]]

(* Entry i of table l leads to g.                                          *)
WithEntry(m, l, i, g) == [m EXCEPT !.pt[l][i] = g]

LEMMA BelowMiddle ==
  ASSUME NEW t, NEW a, NEW b
  PROVE  Below(MiddleOf(t, a), b) = LastOf(t, a, b)
BY BelowFacts

LEMMA PageParts ==
  ASSUME NEW q \in Pages
  PROVE  /\ q[1] \in UserIndices /\ q[1] \in Indices /\ q[2] \in Indices /\ q[3] \in Indices
         /\ q = <<q[1], q[2], q[3]>>
BY DEF Pages

(* The uses on the way.                                                    *)
LEMMA WalkUses ==
  ASSUME NEW m, Sound(m), NEW t, NEW r \in Frames, m.use[r] = RootOf(t), NEW q \in Pages
  PROVE  /\ m.pt[r][q[1]] \in Frames
         /\ m.pt[r][q[1]] # None => m.use[m.pt[r][q[1]]] = MiddleOf(t, q[1])
         /\ WalkTable(m, r, q) \in Frames
         /\ WalkTable(m, r, q) # None => m.use[WalkTable(m, r, q)] = LastOf(t, q[1], q[2])
         /\ Walk(m, r, q) \in Frames
         /\ Walk(m, r, q) # None => m.use[Walk(m, r, q)] = PageOf(t, q)
<1> DEFINE f1 == m.pt[r][q[1]]
           f2 == m.pt[f1][q[2]]
           f3 == m.pt[f2][q[3]]
<1>1. /\ q[1] \in UserIndices /\ q[1] \in Indices /\ q[2] \in Indices /\ q[3] \in Indices
      /\ q = <<q[1], q[2], q[3]>>
  BY PageParts
<1>2. /\ m.pt[None] = NoEntries
      /\ \A f \in Frames, i \in Indices : m.pt[f][i] \in Frames
      /\ \A f \in Frames, i \in Indices :
           Guarded(m.use[f], i) /\ m.pt[f][i] # None => m.use[m.pt[f][i]] = Below(m.use[f], i)
  BY DEF Sound, MemoryType, Wired, KernelHalf
<1>3. f1 \in Frames /\ (f1 # None => m.use[f1] = MiddleOf(t, q[1]))
  BY <1>1, <1>2, BelowFacts, UsesDiffer DEF Guarded
<1>4. WalkTable(m, r, q) = f2 /\ Walk(m, r, q) = f3
  BY DEF WalkTable, Walk
<1> HIDE DEF f1
<1>5. f2 \in Frames /\ (f2 # None => m.use[f2] = LastOf(t, q[1], q[2]))
  <2>1. f1 = None => f2 = None
    BY <1>1, <1>2 DEF NoEntries
  <2> QED
    BY <1>1, <1>2, <1>3, <2>1, BelowFacts, UsesDiffer DEF Guarded
<1> HIDE DEF f2
<1>6. f3 \in Frames /\ (f3 # None => m.use[f3] = PageOf(t, q))
  <2>1. f2 = None => f3 = None
    BY <1>1, <1>2 DEF NoEntries
  <2>2. f2 # None => Below(m.use[f2], q[3]) = PageOf(t, q)
    BY <1>1, <1>5, BelowFacts
  <2> QED
    BY <1>1, <1>2, <1>5, <2>1, <2>2, UsesDiffer DEF Guarded
<1> QED
  BY <1>3, <1>4, <1>5, <1>6 DEF f1

(* Nothing is below the entry that is not valid.                           *)
LEMMA NothingBelow ==
  ASSUME NEW m, Sound(m), NEW i \in Indices
  PROVE  m.pt[None][i] = None
BY DEF Sound, KernelHalf, NoEntries

(* Memory of which a walk sees only the difference in entry i of table f.  *)
LEMMA WalksAgree ==
  ASSUME NEW m, Sound(m), NEW n, NEW t, NEW r \in Frames, m.use[r] = RootOf(t), NEW q \in Pages,
         NEW f \in Frames, NEW i \in Indices, Guarded(m.use[f], i), m.use[f][1] # "last",
         m.pt[f][i] = None,
         \A g \in Frames, j \in Indices :
           g # m.next /\ (g # f \/ j # i) => n.pt[g][j] = m.pt[g][j],
         n.pt[f][i] = m.next, n.pt[m.next] = NoEntries,
         m.next <= NFRAMES
  PROVE  Walk(n, r, q) = Walk(m, r, q)
<1> DEFINE f1 == m.pt[r][q[1]]
           f2 == m.pt[f1][q[2]]
           g1 == n.pt[r][q[1]]
           g2 == n.pt[g1][q[2]]
<1>1. /\ q[1] \in Indices /\ q[2] \in Indices /\ q[3] \in Indices
  BY PageParts
<1>2. m.next \in Frames /\ m.use[m.next] = Unused /\ \A j \in Indices : n.pt[m.next][j] = None
  <2>1. m.next \in Frames /\ m.use[m.next] = Unused
    BY NextIsFresh
  <2> QED
    BY <2>1 DEF NoEntries
<1>3. /\ f1 \in Frames /\ (f1 # None => m.use[f1] = MiddleOf(t, q[1]))
      /\ f2 \in Frames /\ (f2 # None => m.use[f2] = LastOf(t, q[1], q[2]))
      /\ Walk(m, r, q) = m.pt[f2][q[3]]
  <2>1. WalkTable(m, r, q) = f2 /\ Walk(m, r, q) = m.pt[f2][q[3]]
    BY DEF WalkTable, Walk
  <2>2. /\ m.pt[r][q[1]] \in Frames
        /\ m.pt[r][q[1]] # None => m.use[m.pt[r][q[1]]] = MiddleOf(t, q[1])
        /\ WalkTable(m, r, q) \in Frames
        /\ WalkTable(m, r, q) # None => m.use[WalkTable(m, r, q)] = LastOf(t, q[1], q[2])
    <3> HIDE DEF f1, f2, g1, g2
    <3> QED
      BY WalkUses
  <2> QED
    BY <2>1, <2>2
<1>4. m.use[None] = Kernel /\ None \in Frames
  BY DEF Sound, KernelHalf, Frames
<1>5. Walk(n, r, q) = n.pt[g2][q[3]]
  BY DEF WalkTable, Walk
<1>6. /\ \A j \in Indices : m.pt[None][j] = None
      /\ None # m.next /\ f # None /\ r # m.next
      /\ \A j \in Indices : n.pt[None][j] = None
  <2>1. None # m.next /\ f # None /\ r # m.next
    BY <1>2, <1>4, UsesDiffer DEF Guarded
  <2> QED
    BY <1>4, <2>1, NothingBelow
<1> HIDE DEF f1, f2, g1, g2
<1>7. CASE f = r /\ i = q[1]
  <2>1. f1 = None /\ g1 = m.next
    BY <1>7 DEF f1, g1
  <2>2. f2 = None /\ g2 = None
    BY <1>1, <1>2, <1>6, <2>1 DEF f2, g2
  <2> QED
    BY <1>1, <1>3, <1>5, <1>6, <2>2
<1>8. CASE ~ (f = r /\ i = q[1])
  <2>1. g1 = f1
    BY <1>1, <1>6, <1>8 DEF f1, g1
  <2>2. f1 # m.next
    BY <1>2, <1>3, <1>6, UsesDiffer
  <2>3. CASE f = f1 /\ i = q[2]
    <3>1. f2 = None /\ g2 = m.next
      BY <2>1, <2>3 DEF f2, g2
    <3> QED
      BY <1>1, <1>2, <1>3, <1>5, <1>6, <3>1
  <2>4. CASE ~ (f = f1 /\ i = q[2])
    <3>1. g2 = f2
      BY <1>1, <1>3, <2>1, <2>2, <2>4 DEF f2, g2
    <3>2. f2 # m.next /\ f2 # f
      BY <1>2, <1>3, <1>6, UsesDiffer
    <3> QED
      BY <1>1, <1>3, <1>5, <3>1, <3>2
  <2> QED
    BY <2>3, <2>4
<1> QED
  BY <1>7, <1>8

(* The new tables of setup_pte do not show in any walk.                    *)
LEMMA SetupWalks ==
  ASSUME NEW m, Sound(m), NEW f \in Frames, NEW i \in Indices,
         Guarded(m.use[f], i), m.use[f][1] # "last",
         m.pt[f][i] = None => m.next <= NFRAMES,
         NEW t, NEW r \in Frames, m.use[r] = RootOf(t), NEW q \in Pages
  PROVE  Walk(SetupPte(m, f, i), r, q) = Walk(m, r, q)
<1>1. CASE m.pt[f][i] # None
  BY <1>1 DEF SetupPte
<1>2. CASE m.pt[f][i] = None
  <2> DEFINE k == Taken(m, Below(m.use[f], i))
             n == [k EXCEPT !.pt[f][i] = m.next]
  <2>1. SetupPte(m, f, i) = n
    BY <1>2 DEF SetupPte
  <2>2. k.pt = m.pt /\ k = [pt |-> k.pt, next |-> k.next, use |-> k.use]
    BY DEF Taken
  <2> HIDE DEF k
  <2>3. n.pt = [m.pt EXCEPT ![f] = [m.pt[f] EXCEPT ![i] = m.next]]
    BY <2>2
  <2> HIDE DEF n
  <2>4. /\ m.pt \in [Frames -> [Indices -> Frames]]
        /\ m.next \in Frames /\ f # m.next /\ m.pt[m.next] = NoEntries
    <3>1. m.pt \in [Frames -> [Indices -> Frames]]
      BY DEF Sound, MemoryType
    <3>2. m.next \in Frames /\ m.use[m.next] = Unused /\ m.pt[m.next] = NoEntries
      BY <1>2, NextIsFresh
    <3>3. m.use[f] # Unused
      BY UsesDiffer DEF Guarded
    <3> QED
      BY <3>1, <3>2, <3>3
  <2>5. /\ \A g \in Frames, j \in Indices :
             g # m.next /\ (g # f \/ j # i) => n.pt[g][j] = m.pt[g][j]
        /\ n.pt[f][i] = m.next /\ n.pt[m.next] = NoEntries
    BY <2>3, <2>4
  <2> QED
    BY <1>2, <2>1, <2>5, WalksAgree
<1> QED
  BY <1>1, <1>2

(* An entry of a last table shows in the walk that ends there.             *)
LEMMA EntryWalks ==
  ASSUME NEW m, Sound(m), NEW t, NEW a, NEW b, NEW c \in Indices, NEW l \in Frames,
         m.use[l] = LastOf(t, a, b), NEW g \in Frames,
         NEW u, NEW r \in Frames, m.use[r] = RootOf(u), NEW q \in Pages
  PROVE  Walk(WithEntry(m, l, c, g), r, q) =
           IF WalkTable(m, r, q) = l /\ q[3] = c THEN g ELSE Walk(m, r, q)
<1> DEFINE n  == WithEntry(m, l, c, g)
           f1 == m.pt[r][q[1]]
           f2 == m.pt[f1][q[2]]
<1>1. q[1] \in Indices /\ q[2] \in Indices /\ q[3] \in Indices
  BY PageParts
<1>2. m \in MemoryType /\ m.pt \in [Frames -> [Indices -> Frames]]
  BY DEF Sound, MemoryType
<1>3. n.pt = [m.pt EXCEPT ![l] = [m.pt[l] EXCEPT ![c] = g]]
  BY <1>2 DEF MemoryType, WithEntry
<1>4. WalkTable(m, r, q) = f2 /\ Walk(m, r, q) = m.pt[f2][q[3]]
  BY DEF WalkTable, Walk
<1>5. Walk(n, r, q) = n.pt[n.pt[n.pt[r][q[1]]][q[2]]][q[3]]
  BY DEF WalkTable, Walk
<1> HIDE DEF n
<1>6. \A h \in Frames, j \in Indices : n.pt[h][j] = IF h = l /\ j = c THEN g ELSE m.pt[h][j]
  <2> SUFFICES ASSUME NEW h \in Frames, NEW j \in Indices
               PROVE  n.pt[h][j] = IF h = l /\ j = c THEN g ELSE m.pt[h][j]
    OBVIOUS
  <2>1. n.pt[h] = IF h = l THEN [m.pt[l] EXCEPT ![c] = g] ELSE m.pt[h]
    BY <1>2, <1>3
  <2>2. [m.pt[l] EXCEPT ![c] = g][j] = IF j = c THEN g ELSE m.pt[l][j]
    BY <1>2
  <2> QED
    BY <2>1, <2>2
<1>7. /\ f1 \in Frames /\ (f1 # None => m.use[f1] = MiddleOf(u, q[1]))
      /\ f2 \in Frames
  <2>1. /\ m.pt[r][q[1]] \in Frames
        /\ m.pt[r][q[1]] # None => m.use[m.pt[r][q[1]]] = MiddleOf(u, q[1])
        /\ WalkTable(m, r, q) \in Frames
    <3> HIDE DEF f1, f2
    <3> QED
      BY WalkUses
  <2> QED
    BY <1>4, <2>1
<1>8. m.use[None] = Kernel
  BY DEF Sound, KernelHalf
<1>9. l # r /\ l # f1
  BY <1>7, <1>8, UsesDiffer
<1> HIDE DEF f1, f2
<1>10. n.pt[r][q[1]] = f1
  BY <1>1, <1>6, <1>9 DEF f1
<1>11. n.pt[f1][q[2]] = f2
  BY <1>1, <1>6, <1>7, <1>9 DEF f2
<1>12. Walk(n, r, q) = IF f2 = l /\ q[3] = c THEN g ELSE m.pt[f2][q[3]]
  BY <1>1, <1>5, <1>6, <1>7, <1>10, <1>11
<1> QED
  BY <1>4, <1>12 DEF n

LEMMA SetupElsewhere ==
  ASSUME NEW m, Sound(m), NEW f \in Frames, NEW i \in Indices, NEW h \in Frames, h # f
  PROVE  SetupPte(m, f, i).pt[h] = m.pt[h]
<1>1. m.pt \in [Frames -> [Indices -> Frames]]
  BY DEF Sound, MemoryType
<1> QED
  BY <1>1 DEF SetupPte, Taken

(* There is room for the tables that map page p below r.                   *)
RoomBelow(m, r, p) ==
  /\ m.pt[r][p[1]] = None => m.next + 1 <= NFRAMES
  /\ m.pt[r][p[1]] # None /\ m.pt[m.pt[r][p[1]]][p[2]] = None => m.next <= NFRAMES

(* From m to n only the walk to page p of task t, with root r, changes: it *)
(* leads to f now.                                                         *)
OnlyPage(m, n, t, r, p, f) ==
  \A u : \A s \in Frames : m.use[s] = RootOf(u) /\ (u = t => s = r) =>
    \A q \in Pages : Walk(n, s, q) = IF u = t /\ q = p THEN f ELSE Walk(m, s, q)

(* map_final_pgtbl changes one page of one task.                           *)
LEMMA MapFinalWalks ==
  ASSUME NEW m, Sound(m), NEW t \in Slots, NEW r \in Frames, m.use[r] = RootOf(t),
         NEW p \in Pages, NEW f \in Frames, m.use[f] = PageOf(t, p),
         RoomBelow(m, r, p)
  PROVE  OnlyPage(m, MapFinal(m, r, p, f), t, r, p, f)
<1> SUFFICES ASSUME NEW u, NEW s \in Frames, m.use[s] = RootOf(u), u = t => s = r,
                    NEW q \in Pages
             PROVE  Walk(MapFinal(m, r, p, f), s, q) =
                      IF u = t /\ q = p THEN f ELSE Walk(m, s, q)
  BY DEF OnlyPage
<1> DEFINE m1 == SetupPte(m, r, p[1])
           l1 == m1.pt[r][p[1]]
           m2 == SetupPte(m1, l1, p[2])
           l0 == m2.pt[l1][p[2]]
           n  == WithEntry(m2, l0, p[3], f)
<1>0. /\ m.pt[r][p[1]] = None => m.next + 1 <= NFRAMES
      /\ m.pt[r][p[1]] # None /\ m.pt[m.pt[r][p[1]]][p[2]] = None => m.next <= NFRAMES
  BY DEF RoomBelow
<1>1. MapFinal(m, r, p, f) = n
  BY DEF MapFinal, WithEntry
<1>2. /\ p[1] \in UserIndices /\ p[1] \in Indices /\ p[2] \in Indices /\ p[3] \in Indices
  BY PageParts
<1>3. Guarded(m.use[r], p[1]) /\ m.use[r][1] # "last" /\ m.next \in Nat
  <2>1. m.use[r][1] = "root"
    BY UsesDiffer
  <2>2. m.next \in 6 .. NFRAMES + 1
    BY DEF Sound, MemoryType
  <2> QED
    BY <1>2, <2>1, <2>2 DEF Guarded
<1>4. m.pt[r][p[1]] = None => m.next <= NFRAMES
  BY <1>0, <1>3
<1>5. /\ Sound(m1) /\ Extends(m, m1) /\ l1 \in Frames /\ m1.use[l1] = MiddleOf(t, p[1])
      /\ m.pt[r][p[1]] # None => m1 = m
      /\ m.pt[r][p[1]] = None => m1.next = m.next + 1 /\ m1.pt[l1] = NoEntries
  <2>1. Below(m.use[r], p[1]) = MiddleOf(t, p[1])
    BY BelowFacts
  <2> QED
    BY <1>2, <1>3, <1>4, <2>1, SetupSound
<1>6. Walk(m1, s, q) = Walk(m, s, q)
  BY <1>2, <1>3, <1>4, SetupWalks
<1>7. Guarded(m1.use[l1], p[2]) /\ m1.use[l1][1] # "last"
  BY <1>5, UsesDiffer DEF Guarded
<1>8. m1.pt[l1][p[2]] = None => m1.next <= NFRAMES
  <2>1. CASE m.pt[r][p[1]] = None
    BY <1>0, <1>5, <2>1
  <2>2. CASE m.pt[r][p[1]] # None
    BY <1>0, <1>5, <2>2
  <2> QED
    BY <2>1, <2>2
<1>9. m1.use[s] = RootOf(u) /\ m1.use[r] = RootOf(t)
  BY <1>5, UsesDiffer DEF Extends
<1> HIDE DEF m1
<1>10. l1 # r
  BY <1>5, <1>9, UsesDiffer
<1>11. m1.pt[r][p[1]] = l1
  OBVIOUS
<1> HIDE DEF l1
<1>12. /\ Sound(m2) /\ Extends(m1, m2) /\ l0 \in Frames
       /\ m2.use[l0] = LastOf(t, p[1], p[2])
  <2>1. Below(m1.use[l1], p[2]) = LastOf(t, p[1], p[2])
    <3>1. m1.use[l1] = MiddleOf(t, p[1])
      BY <1>5
    <3>2. Below(MiddleOf(t, p[1]), p[2]) = LastOf(t, p[1], p[2])
      BY BelowMiddle
    <3> QED
      BY <3>1, <3>2
  <2> QED
    BY <1>2, <1>5, <1>7, <1>8, <2>1, SetupSound
<1>13. Walk(m2, s, q) = Walk(m1, s, q)
  BY <1>2, <1>5, <1>7, <1>8, <1>9, SetupWalks
<1>14. m2.pt[r] = m1.pt[r] /\ m2.use[s] = RootOf(u)
  <2>1. m2.pt[r] = m1.pt[r]
    BY <1>2, <1>5, <1>10, SetupElsewhere
  <2>2. RootOf(u) # Unused
    BY UsesDiffer
  <2> QED
    BY <1>9, <1>12, <2>1, <2>2 DEF Extends
<1>15. m2.pt[l1][p[2]] = l0
  OBVIOUS
<1> HIDE DEF m2, l0
<1>16. Walk(n, s, q) = IF WalkTable(m2, s, q) = l0 /\ q[3] = p[3] THEN f ELSE Walk(m2, s, q)
  <2>1. Sound(m2) /\ l0 \in Frames /\ m2.use[l0] = LastOf(t, p[1], p[2]) /\ m2.use[s] = RootOf(u)
    BY <1>12, <1>14
  <2> QED
    BY <1>2, <2>1, EntryWalks
<1>17. WalkTable(m2, s, q) = l0 /\ q[3] = p[3] <=> u = t /\ q = p
  <2>1. ASSUME u = t, q = p PROVE WalkTable(m2, s, q) = l0
    <3>1. WalkTable(m2, s, q) = m2.pt[m2.pt[r][p[1]]][p[2]]
      BY <2>1 DEF WalkTable
    <3> QED
      BY <1>11, <1>14, <1>15, <3>1
  <2>2. ASSUME WalkTable(m2, s, q) = l0, q[3] = p[3] PROVE u = t /\ q = p
    <3>1. l0 # None
      BY <1>12, UsesDiffer DEF Sound, KernelHalf
    <3>2. LastOf(u, q[1], q[2]) = LastOf(t, p[1], p[2])
      BY <1>12, <1>14, <2>2, <3>1, WalkUses
    <3>3. u = t /\ q[1] = p[1] /\ q[2] = p[2]
      BY <3>2 DEF LastOf
    <3>4. q = <<q[1], q[2], q[3]>> /\ p = <<p[1], p[2], p[3]>>
      BY PageParts
    <3> QED
      BY <2>2, <3>3, <3>4
  <2> QED
    BY <2>1, <2>2
<1> QED
  BY <1>1, <1>6, <1>13, <1>16, <1>17

-----------------------------------------------------------------------------
(* The frames of the tasks, in each step that changes tables.              *)

(* Where page q of task t is after the step.                               *)
FrameNext(t, q) == pt'[pt'[pt'[root'[t]][q[1]]][q[2]]][q[3]]

(* A frame that is walked to was allocated.                                *)
LEMMA FramesTaken ==
  ASSUME IInv, NEW t \in live \ {Idle}, NEW q \in Pages
  PROVE  /\ Frame(t, q) \in Frames /\ next \in 6 .. NFRAMES + 1
         /\ Frame(t, q) < next
<1>1. Frame(t, q) \in Frames /\ (Frame(t, q) # None => use[Frame(t, q)] = PageOf(t, q))
  BY WalkUse
<1>2. next \in 6 .. NFRAMES + 1 /\ Frame(t, q) \in Nat
  BY <1>1 DEF IInv, TypeOK, Frames
<1>3. Frame(t, q) # None => ~ (Frame(t, q) >= next)
  BY <1>1, UsesDiffer DEF IInv, Sound, Fresh, Memory
<1> QED
  BY <1>1, <1>2, <1>3

(* Mapping page p of task t changes no other page of any task.             *)
LEMMA MappedFrames ==
  ASSUME IInv, NEW t \in live \ {Idle}, NEW p \in Pages, Room(Needed(root[t], p)),
         MemoryBecomes(Mapped(t, p)), UNCHANGED root,
         NEW u \in live \ {Idle}, NEW q \in Pages
  PROVE  /\ next \in Frames /\ next # None
         /\ Frame(u, q) # next
         /\ FrameNext(u, q) = IF u = t /\ q = p THEN next ELSE Frame(u, q)
<1> DEFINE k == Taken(Memory, PageOf(t, p))
<1>1. /\ t \in Slots /\ root[t] \in Frames /\ use[root[t]] = RootOf(t)
      /\ u \in Slots /\ root[u] \in Frames /\ use[root[u]] = RootOf(u)
      /\ next \in 6 .. NFRAMES + 1
  BY DEF IInv, TypeOK, Rooted
<1>2. /\ Memory.pt = pt /\ Memory.next = next /\ Memory.use = use /\ Sound(Memory)
  BY DEF Memory, IInv
<1>3. /\ next <= NFRAMES
      /\ pt[root[t]][p[1]] = None => next + 2 <= NFRAMES
      /\ pt[root[t]][p[1]] # None /\ pt[pt[root[t]][p[1]]][p[2]] = None => next + 1 <= NFRAMES
  BY <1>1 DEF Room, Needed
<1>4. PageOf(t, p) \in Uses /\ PageOf(t, p) # Unused /\ PageOf(t, p)[1] # "root"
  BY <1>1, UsesFacts, UsesDiffer
<1>5. /\ Sound(k) /\ Extends(Memory, k) /\ k.use[next] = PageOf(t, p)
      /\ k.pt = pt /\ k.next = next + 1
  BY <1>2, <1>3, <1>4, TakenSound
<1>6. next \in Frames /\ k.use[root[t]] = RootOf(t) /\ k.use[root[u]] = RootOf(u)
  BY <1>1, <1>2, <1>3, <1>5, UsesDiffer DEF Frames, Extends
<1>7. Mapped(t, p) = MapFinal(k, root[t], p, next)
  BY DEF Mapped
<1> HIDE DEF k
<1>8. RoomBelow(k, root[t], p) /\ (u = t => root[u] = root[t])
  BY <1>1, <1>3, <1>5 DEF RoomBelow
<1>9. Walk(MapFinal(k, root[t], p, next), root[u], q) =
        IF u = t /\ q = p THEN next ELSE Walk(k, root[u], q)
  <2>1. OnlyPage(k, MapFinal(k, root[t], p, next), t, root[t], p, next)
    BY <1>1, <1>5, <1>6, <1>8, MapFinalWalks
  <2> QED
    BY <1>1, <1>6, <1>8, <2>1 DEF OnlyPage
<1>10. Walk(k, root[u], q) = Frame(u, q)
  BY <1>5 DEF Walk, WalkTable, Frame
<1>11. FrameNext(u, q) = Walk(MapFinal(k, root[t], p, next), root[u], q)
  <2>1. pt' = MapFinal(k, root[t], p, next).pt
    BY <1>7 DEF MemoryBecomes
  <2> QED
    BY <2>1 DEF FrameNext, Walk, WalkTable
<1>12. Frame(u, q) # next
  BY FramesTaken DEF Frames
<1> QED
  BY <1>1, <1>6, <1>9, <1>10, <1>11, <1>12

(* The child of sys_fork starts with nothing mapped.                       *)
LEMMA ForkBeginFrames ==
  ASSUME IInv, ForkBegin
  PROVE  /\ child' \in Slots \ (live \cup {Idle}) /\ live' = live \cup {child'}
         /\ \A u \in live \ {Idle}, q \in Pages : FrameNext(u, q) = Frame(u, q)
         /\ \A q \in Pages : FrameNext(child', q) = None
<1>1. PICK c \in Slots :
        /\ FirstFree(c)
        /\ MemoryBecomes([Taken(Taken(Memory, TaskPage(c)), RootOf(c))
                            EXCEPT !.pt[next + 1] = ChildRoot])
        /\ live'  = live \cup {c}
        /\ root'  = [root EXCEPT ![c] = next + 1]
        /\ child' = c
  BY DEF ForkBegin, pgcpy
<1>2. /\ next \in 6 .. NFRAMES + 1 /\ next + 2 <= NFRAMES + 1
      /\ pt \in [Frames -> [Indices -> Frames]] /\ root \in [Slots -> Frames]
      /\ live \subseteq Slots /\ Sound(Memory)
  BY DEF IInv, TypeOK, ForkBegin, Room
<1>3. c \notin live /\ c # Idle
  BY <1>1 DEF FirstFree, FreeSlots
<1>4. pt' = [pt EXCEPT ![next + 1] = KernelDir]
  <2>1. ChildRoot = KernelDir
    BY <1>2 DEF ChildRoot, Sound, KernelHalf, Memory
  <2> QED
    BY <1>1, <2>1 DEF MemoryBecomes, Taken, Memory
<1>5. /\ next + 1 \in Frames /\ next + 1 # None
      /\ use[next + 1] = Unused /\ pt[None] = NoEntries
  <2>1. next + 1 \in Frames /\ next + 1 >= next
    BY <1>2 DEF Frames
  <2> QED
    BY <1>2, <2>1 DEF Sound, Fresh, KernelHalf, Memory
<1>6. /\ pt'[next + 1] = KernelDir
      /\ \A f \in Frames : f # next + 1 => pt'[f] = pt[f]
  BY <1>2, <1>4, <1>5
<1>7. None \in Frames
  BY DEF Frames
<1>8. ASSUME NEW u \in live \ {Idle}, NEW q \in Pages PROVE FrameNext(u, q) = Frame(u, q)
  <2> DEFINE f1 == pt[root[u]][q[1]]
             f2 == pt[f1][q[2]]
  <2>1. q[1] \in UserIndices /\ q[2] \in Indices
    BY PageParts
  <2>2. /\ root[u] \in Frames /\ use[root[u]] = RootOf(u)
        /\ f1 \in Frames /\ (f1 # None => use[f1] = MiddleOf(u, q[1]))
        /\ f2 \in Frames /\ (f2 # None => use[f2] = LastOf(u, q[1], q[2]))
    BY <2>1, WalkUse
  <2>3. root'[u] = root[u]
    BY <1>1, <1>2, <1>3
  <2>4. Frame(u, q) = pt[f2][q[3]] /\ FrameNext(u, q) = pt'[pt'[pt'[root'[u]][q[1]]][q[2]]][q[3]]
    BY DEF Frame, FrameNext
  <2> HIDE DEF f1, f2
  <2>5. root[u] # next + 1 /\ f1 # next + 1 /\ f2 # next + 1
    BY <1>5, <2>2, UsesDiffer
  <2>6. pt'[root[u]][q[1]] = f1
    BY <1>6, <2>2, <2>5 DEF f1
  <2>7. pt'[f1][q[2]] = f2
    BY <1>6, <2>2, <2>5 DEF f2
  <2> QED
    BY <1>6, <2>2, <2>3, <2>4, <2>5, <2>6, <2>7
<1>9. ASSUME NEW q \in Pages PROVE FrameNext(child', q) = None
  <2>1. q[1] \in UserIndices /\ q[1] \in Indices /\ q[2] \in Indices /\ q[3] \in Indices
    BY PageParts
  <2>2. root'[c] = next + 1
    BY <1>1, <1>2
  <2>3. pt'[next + 1][q[1]] = None
    BY <1>6, <2>1 DEF KernelDir
  <2>4. pt'[None] = NoEntries
    BY <1>5, <1>6, <1>7
  <2>5. FrameNext(child', q) = pt'[pt'[pt'[root'[c]][q[1]]][q[2]]][q[3]]
    BY <1>1 DEF FrameNext
  <2> QED
    BY <2>1, <2>2, <2>3, <2>4, <2>5 DEF NoEntries
<1> QED
  BY <1>1, <1>3, <1>8, <1>9

-----------------------------------------------------------------------------
(* What the copy loops of sys_fork have done.                              *)

(* The loops are past a page of area i, or an occurrence of p.             *)
Past(a, i, j) == i < a[1] \/ (i = a[1] /\ j < a[2])
Done(a, p)    ==
  \E i \in DOMAIN Vmas : \E j \in DOMAIN Vmas[i].pages : Past(a, i, j) /\ Vmas[i].pages[j] = p

(* The child has the pages of the parent that the loops are past, with     *)
(* what they hold in the parent, and no other.                             *)
Copied ==
  mode = "fork" => \A p \in Pages :
    /\ Frame(child, p) # None <=> Done(at, p) /\ Frame(current, p) # None
    /\ Frame(child, p) # None => data[Frame(child, p)] = data[Frame(current, p)]

RInv == IInv /\ Copied

LEMMA PageAt ==
  ASSUME NEW i \in DOMAIN Vmas, NEW j \in DOMAIN Vmas[i].pages
  PROVE  Vmas[i].pages[j] \in Pages
<1>1. Vmas[i].pages[j] \in PagesOf(i)
  BY DEF PagesOf
<1> QED
  BY <1>1, VmasFacts

LEMMA DoneAtFirst ==
  ASSUME NEW p
  PROVE  ~ Done(<<1, 1>>, p)
<1> SUFFICES ASSUME NEW i \in DOMAIN Vmas, NEW j \in DOMAIN Vmas[i].pages,
                    Past(<<1, 1>>, i, j)
             PROVE  FALSE
  BY DEF Done
<1>1. i \in Nat \ {0} /\ j \in Nat \ {0}
  BY VmasFacts
<1> QED
  BY <1>1 DEF Past

LEMMA DoneAfter ==
  ASSUME NEW i \in DOMAIN Vmas, NEW j \in DOMAIN Vmas[i].pages, NEW p
  PROVE  Done(After(i, j), p) <=> Done(<<i, j>>, p) \/ p = Vmas[i].pages[j]
<1>1. /\ DOMAIN Vmas = 1 .. Len(Vmas) /\ Len(Vmas) \in Nat
      /\ DOMAIN Vmas[i].pages = 1 .. Len(Vmas[i].pages) /\ Len(Vmas[i].pages) \in Nat
  BY VmasFacts
<1>2. ASSUME NEW k \in DOMAIN Vmas, NEW l \in DOMAIN Vmas[k].pages
      PROVE  Past(After(i, j), k, l) <=> Past(<<i, j>>, k, l) \/ (k = i /\ l = j)
  <2>1. k \in Nat \ {0} /\ l \in Nat \ {0} /\ (k = i => l <= Len(Vmas[i].pages))
    BY VmasFacts
  <2>2. CASE j < Len(Vmas[i].pages)
    BY <1>1, <2>1, <2>2 DEF Past, After
  <2>3. CASE j = Len(Vmas[i].pages)
    BY <1>1, <2>1, <2>3 DEF Past, After
  <2> QED
    BY <1>1, <2>2, <2>3
<1> QED
  BY <1>2 DEF Done

LEMMA DoneAtEnd ==
  ASSUME NEW p \in UserPages
  PROVE  Done(<<Len(Vmas) + 1, 1>>, p)
<1>1. PICK i \in DOMAIN Vmas : p \in PagesOf(i)
  BY DEF UserPages
<1>2. PICK j \in DOMAIN Vmas[i].pages : p = Vmas[i].pages[j]
  BY <1>1 DEF PagesOf
<1>3. i \in 1 .. Len(Vmas) /\ Len(Vmas) \in Nat
  BY VmasFacts
<1> QED
  BY <1>2, <1>3 DEF Done, Past

-----------------------------------------------------------------------------
(* Copied is kept.                                                         *)

LEMMA InitCopied == Init => Copied
BY DEF Init, Copied

LEMMA ForkBeginCopied ==
  ASSUME IInv, ForkBegin
  PROVE  Copied'
<1> SUFFICES ASSUME NEW p \in Pages
             PROVE  Frame(child, p)' = None /\ ~ Done(at, p)'
  BY DEF Copied
<1>1. at' = <<1, 1>>
  BY DEF ForkBegin
<1>2. ~ Done(at', p)
  BY <1>1, DoneAtFirst
<1>3. FrameNext(child', p) = None
  BY ForkBeginFrames
<1> QED
  BY <1>2, <1>3 DEF Frame, FrameNext, Done

(* Where the copy loop is.                                                 *)
LEMMA CopyAt ==
  ASSUME IInv, CopyPage
  PROVE  /\ at[1] \in DOMAIN Vmas /\ at[2] \in DOMAIN Vmas[at[1]].pages
         /\ Vmas[at[1]].pages[at[2]] \in Pages
         /\ child \in live \ {Idle} /\ current \in live \ {Idle} /\ child # current
<1>1. at = <<Len(Vmas) + 1, 1>> => at[1] \notin DOMAIN Vmas
  BY VmasFacts DEF CopyPage
<1>2. at[1] \in DOMAIN Vmas /\ at[2] \in DOMAIN Vmas[at[1]].pages
  BY <1>1 DEF IInv, TypeOK, CopyPage
<1> QED
  BY <1>2, PageAt DEF IInv, TypeOK, CopyPage

LEMMA CopyPageCopied ==
  ASSUME IInv, Copied, CopyPage
  PROVE  Copied'
<1> DEFINE p == Vmas[at[1]].pages[at[2]]
<1>1. /\ p \in Pages /\ mode = "fork"
      /\ child \in live \ {Idle} /\ current \in live \ {Idle} /\ child # current
      /\ UNCHANGED <<live, root, current, mode, child>>
  BY CopyAt DEF CopyPage
<1>2. ASSUME NEW q PROVE Done(at, q)' <=> Done(at, q) \/ q = p
  <2>1. at[1] \in DOMAIN Vmas /\ at[2] \in DOMAIN Vmas[at[1]].pages
    BY CopyAt
  <2>2. at' = After(at[1], at[2])
    BY DEF CopyPage
  <2>3. Done(After(at[1], at[2]), q) <=> Done(<<at[1], at[2]>>, q) \/ q = p
    BY <2>1, DoneAfter
  <2>4. Done(<<at[1], at[2]>>, q) <=> Done(at, q)
    BY DEF Done, Past
  <2>5. Done(at, q)' <=> Done(at', q)
    BY DEF Done
  <2> QED
    BY <2>2, <2>3, <2>4, <2>5
<1>3. \A q \in Pages :
        /\ Frame(child, q) # None <=> Done(at, q) /\ Frame(current, q) # None
        /\ Frame(child, q) # None => data[Frame(child, q)] = data[Frame(current, q)]
  BY <1>1 DEF Copied
<1> SUFFICES ASSUME NEW q \in Pages
             PROVE  /\ Frame(child, q)' # None <=> Done(at, q)' /\ Frame(current, q)' # None
                    /\ Frame(child, q)' # None =>
                         data'[Frame(child, q)'] = data'[Frame(current, q)']
  BY DEF Copied
<1>4. Frame(child, q)' = FrameNext(child, q) /\ Frame(current, q)' = FrameNext(current, q)
  BY <1>1 DEF Frame, FrameNext
<1>5. CASE /\ Frame(current, p) # None
           /\ Room(Needed(root[child], p))
           /\ MemoryBecomes(Mapped(child, p))
           /\ data' = pgcpy(data, next, ReadActive(p))
  <2> HIDE DEF p
  <2>1. /\ next \in Frames /\ next # None /\ Frame(child, q) # next
        /\ FrameNext(child, q) = IF q = p THEN next ELSE Frame(child, q)
    BY <1>1, <1>5, MappedFrames
  <2>2. /\ Frame(current, q) # next
        /\ FrameNext(current, q) = Frame(current, q)
    BY <1>1, <1>5, MappedFrames
  <2>3. data' = [data EXCEPT ![next] = data[Frame(current, p)]]
    BY <1>5 DEF pgcpy, ReadActive
  <2>4. /\ data'[next] = data[Frame(current, p)]
        /\ data'[Frame(current, q)] = data[Frame(current, q)]
        /\ data'[Frame(child, q)] = data[Frame(child, q)]
    <3>1. data \in [Frames -> Values] /\ Frame(current, q) \in Frames /\ Frame(child, q) \in Frames
      BY <1>1, WalkUse DEF IInv, TypeOK
    <3> QED
      BY <2>1, <2>2, <2>3, <3>1
  <2>5. CASE q = p
    BY <1>2, <1>4, <1>5, <2>1, <2>2, <2>4, <2>5
  <2>6. CASE q # p
    BY <1>2, <1>3, <1>4, <2>1, <2>2, <2>4, <2>6
  <2> QED
    BY <2>5, <2>6
<1>6. CASE Frame(current, p) = None /\ UNCHANGED mem
  <2>1. /\ FrameNext(child, q) = Frame(child, q) /\ FrameNext(current, q) = Frame(current, q)
        /\ data' = data
    BY <1>1, <1>6 DEF mem, Frame, FrameNext
  <2>2. CASE q = p
    BY <1>2, <1>3, <1>4, <1>6, <2>1, <2>2
  <2>3. CASE q # p
    BY <1>2, <1>3, <1>4, <2>1, <2>3
  <2> QED
    BY <2>2, <2>3
<1> QED
  BY <1>5, <1>6 DEF CopyPage

(* Other steps are in no fork, or change nothing.                          *)
LEMMA StepRInv == RInv /\ [Next]_vars => RInv'
<1> SUFFICES ASSUME IInv, Copied, [Next]_vars PROVE Copied'
  BY StepInv DEF RInv
<1>1. CASE ForkBegin
  BY <1>1, ForkBeginCopied
<1>2. CASE CopyPage
  BY <1>2, CopyPageCopied
<1>3. CASE UNCHANGED vars
  <2>1. \A t, p : Frame(t, p)' = Frame(t, p)
    BY <1>3 DEF Frame, vars
  <2>2. \A p : Done(at, p)' <=> Done(at, p)
    BY <1>3 DEF Done, vars
  <2>3. UNCHANGED <<mode, child, current, data>>
    BY <1>3 DEF vars
  <2> SUFFICES ASSUME mode = "fork", NEW p \in Pages
               PROVE  /\ Frame(child, p) # None <=> Done(at, p) /\ Frame(current, p) # None
                      /\ Frame(child, p) # None =>
                           data[Frame(child, p)] = data[Frame(current, p)]
    BY <2>1, <2>2, <2>3 DEF Copied
  <2> QED
    BY DEF Copied
<1>4. CASE mode' # "fork"
  BY <1>4 DEF Copied
<1> QED
  BY <1>1, <1>2, <1>3, <1>4
     DEF Next, Store, PageFault, FaultNoVma, Switch, ForkEnd, ForkTableFull, InUser

-----------------------------------------------------------------------------
(* The memory the processes see.                                           *)

Seen(t, p) == IF Frame(t, p) = None THEN Initial[p] ELSE data[Frame(t, p)]

LEMMA UserPagesFacts ==
  /\ UserPages \subseteq Pages /\ Anonymous \subseteq UserPages
  /\ Initial \in [UserPages -> Values]
  /\ \A i \in DOMAIN Vmas : \A p \in PagesOf(i) :
       /\ p \in UserPages /\ Contents(i, p) = Initial[p]
       /\ Vmas[i].anon => p \in Anonymous
<1>1. UserPages \subseteq Pages
  BY VmasFacts DEF UserPages
<1>2. Anonymous \subseteq UserPages
  BY DEF UserPages, Anonymous
<1>3. Initial \in [UserPages -> Values]
  BY ValuesAssumption DEF Initial
<1>4. ASSUME NEW i \in DOMAIN Vmas, NEW p \in PagesOf(i)
      PROVE  /\ p \in UserPages /\ Contents(i, p) = Initial[p]
             /\ Vmas[i].anon => p \in Anonymous
  <2>1. p \in UserPages
    BY DEF UserPages
  <2>2. CASE Vmas[i].anon
    BY <2>1, <2>2 DEF Anonymous, Initial, Contents
  <2>3. CASE ~ Vmas[i].anon
    <3>1. p \notin Anonymous
      <4> SUFFICES ASSUME p \in Anonymous PROVE FALSE
        OBVIOUS
      <4>1. PICK j \in DOMAIN Vmas : Vmas[j].anon /\ p \in PagesOf(j)
        BY DEF Anonymous
      <4>2. Vmas[i].anon # Vmas[j].anon
        BY <2>3, <4>1
      <4>3. PagesOf(i) \cap PagesOf(j) = {}
        BY <4>2, VmasAssumption
      <4> QED
        BY <4>1, <4>3
    <3> QED
      BY <2>1, <2>3, <3>1 DEF Initial, Contents
  <2> QED
    BY <2>1, <2>2, <2>3
<1> QED
  BY <1>1, <1>2, <1>3, <1>4

LEMMA MemoryBy ==
  ProcessMemory = [t \in Slots |-> IF t \in Visible THEN [p \in UserPages |-> Seen(t, p)]
                                                    ELSE Initial]
BY DEF ProcessMemory, Seen, Frame, Initial

(* What t sees after the step.                                             *)
SeenNext(t, p) == IF FrameNext(t, p) = None THEN Initial[p] ELSE data'[FrameNext(t, p)]

LEMMA MemoryNext ==
  ProcessMemory' = [t \in Slots |-> IF t \in Visible' THEN [p \in UserPages |-> SeenNext(t, p)]
                                                      ELSE Initial]
BY DEF ProcessMemory, SeenNext, Frame, FrameNext, Initial

(* Equal views are equal memories, and a view that differs in one page is  *)
(* a memory with that page written.                                        *)
LEMMA SameMemory ==
  ASSUME Visible' = Visible,
         \A t \in Visible, p \in UserPages : SeenNext(t, p) = Seen(t, p)
  PROVE  ProcessMemory' = ProcessMemory
BY MemoryBy, MemoryNext

LEMMA OnePageWritten ==
  ASSUME Visible' = Visible, NEW t \in Visible, t \in Slots, NEW p \in UserPages, NEW v,
         \A u \in Visible, q \in UserPages :
           SeenNext(u, q) = IF u = t /\ q = p THEN v ELSE Seen(u, q)
  PROVE  ProcessMemory' = [ProcessMemory EXCEPT ![t][p] = v]
<1>1. ProcessMemory[t] = [q \in UserPages |-> Seen(t, q)]
  BY MemoryBy
<1>2. [ProcessMemory EXCEPT ![t][p] = v] =
        [u \in Slots |-> IF u = t THEN [ProcessMemory[t] EXCEPT ![p] = v] ELSE ProcessMemory[u]]
  BY MemoryBy
<1>3. [ProcessMemory[t] EXCEPT ![p] = v] = [q \in UserPages |-> SeenNext(t, q)]
  BY <1>1
<1> QED
  BY <1>2, <1>3, MemoryBy, MemoryNext

LEMMA VisibleFacts ==
  ASSUME IInv
  PROVE  /\ Visible \subseteq live \ {Idle} /\ Visible \subseteq Slots
         /\ current \in Visible
         /\ mode # "fork" => Visible = live \ {Idle}
         /\ mode = "fork" => Visible = live \ {Idle, child}
BY DEF IInv, TypeOK, Visible

(* Steps that change neither tables nor data.                              *)
LEMMA QuietSeen ==
  ASSUME UNCHANGED <<pt, root, data>>, NEW t, NEW p
  PROVE  SeenNext(t, p) = Seen(t, p)
BY DEF SeenNext, Seen, FrameNext, Frame

-----------------------------------------------------------------------------
(* The steps.                                                              *)

(* The memory stands for the same processes, with the same memory.         *)
Stutters == UNCHANGED <<Visible, current, ProcessMemory>>

LEMMA InitRefines == Init => Abstract!MemInit
<1> SUFFICES ASSUME Init PROVE Abstract!MemInit
  OBVIOUS
<1>1. IInv
  BY InitInv
<1>2. Visible = {First}
  BY DEF Init, Visible
<1>3. ASSUME NEW p \in UserPages PROVE Seen(First, p) = Initial[p]
  <2>1. /\ p[1] \in UserIndices /\ p[1] \in Indices /\ p[2] \in Indices /\ p[3] \in Indices
    BY PageParts, UserPagesFacts
  <2>2. 5 \in Frames /\ 0 \in Frames /\ First \in Slots /\ Swapper = 1
    BY DEF Frames, Slots, Swapper
  <2>3. root[First] = 5 /\ pt[5] = KernelDir /\ pt[0] = NoEntries
    BY <2>2 DEF Init
  <2>4. Frame(First, p) = None
    BY <2>1, <2>3 DEF Frame, KernelDir, NoEntries
  <2> QED
    BY <2>4 DEF Seen
<1>4. ProcessMemory = [t \in Slots |-> Initial]
  <2>1. [p \in UserPages |-> Seen(First, p)] = Initial
    BY <1>3, UserPagesFacts
  <2> QED
    BY <1>2, <2>1, MemoryBy
<1>5. current = First
  BY DEF Init
<1> QED
  BY <1>2, <1>4, <1>5 DEF Abstract!MemInit

(* A store writes the page of the running process, and no other.           *)
LEMMA StoreRefines ==
  ASSUME IInv, NEW p \in UserPages, NEW v \in Values, Store(p, v)
  PROVE  Abstract!Write(p, v)
<1>1. /\ current \in Visible /\ current \in Slots /\ Visible \subseteq live \ {Idle}
      /\ Visible' = Visible /\ current' = current
  BY VisibleFacts DEF Store, Visible
<1>2. p \in Pages
  BY UserPagesFacts
<1>3. ASSUME NEW u \in Visible, NEW q \in UserPages
      PROVE  SeenNext(u, q) = IF u = current /\ q = p THEN v ELSE Seen(u, q)
  <2>1. q \in Pages
    BY UserPagesFacts
  <2>2. FrameNext(u, q) = Frame(u, q)
    BY DEF Store, FrameNext, Frame
  <2>3. Frame(u, q) \in Frames /\ data \in [Frames -> Values] /\ Frame(current, p) \in Frames
    BY <1>1, <1>2, <2>1, WalkUse DEF IInv, TypeOK
  <2>4. Frame(current, p) # None /\ data' = [data EXCEPT ![Frame(current, p)] = v]
    BY DEF Store
  <2>5. Frame(u, q) = Frame(current, p) => u = current /\ q = p
    BY <1>1, <1>2, <2>1, <2>4, InvIsolation DEF Isolation
  <2>6. CASE u = current /\ q = p
    BY <2>2, <2>3, <2>4, <2>6 DEF SeenNext
  <2>7. CASE ~ (u = current /\ q = p)
    BY <2>2, <2>3, <2>4, <2>5, <2>7 DEF SeenNext, Seen
  <2> QED
    BY <2>6, <2>7
<1>4. ProcessMemory' = [ProcessMemory EXCEPT ![current][p] = v]
  BY <1>1, <1>3, OnePageWritten
<1> QED
  BY <1>1, <1>4 DEF Abstract!Write

(* A fault on a page that is not mapped shows in nobody's memory; one on   *)
(* the stack, which only a fetch causes when it is mapped, clears it.      *)
LEMMA PageFaultRefines ==
  ASSUME IInv, NEW i \in DOMAIN Vmas, NEW p \in PagesOf(i), PageFault(i, p)
  PROVE  (\E q \in Anonymous : Abstract!Reset(q)) \/ Stutters
<1>1. /\ current \in Visible /\ current \in Slots /\ Visible \subseteq live \ {Idle}
      /\ Visible' = Visible /\ current' = current /\ UNCHANGED root
  BY VisibleFacts DEF PageFault, Visible
<1>2. /\ p \in UserPages /\ Contents(i, p) = Initial[p] /\ p \in Pages
      /\ Vmas[i].anon => p \in Anonymous
  BY UserPagesFacts
<1>3. ASSUME NEW u \in Visible, NEW q \in UserPages
      PROVE  SeenNext(u, q) = IF u = current /\ q = p THEN Initial[p] ELSE Seen(u, q)
  <2>1. q \in Pages /\ u \in live \ {Idle} /\ current \in live \ {Idle}
    BY <1>1, UserPagesFacts
  <2>2. /\ Room(Needed(root[current], p)) /\ MemoryBecomes(Mapped(current, p))
        /\ data' = [data EXCEPT ![next] = Contents(i, p)]
    BY DEF PageFault
  <2>3. /\ next \in Frames /\ next # None /\ Frame(u, q) # next
        /\ FrameNext(u, q) = IF u = current /\ q = p THEN next ELSE Frame(u, q)
    BY <1>1, <1>2, <2>1, <2>2, MappedFrames
  <2>4. Frame(u, q) \in Frames /\ data \in [Frames -> Values]
    BY <2>1, WalkUse DEF IInv, TypeOK
  <2>5. data'[next] = Initial[p] /\ data'[Frame(u, q)] = data[Frame(u, q)]
    BY <1>2, <2>2, <2>3, <2>4
  <2> QED
    BY <2>3, <2>5 DEF SeenNext, Seen
<1>4. CASE Frame(current, p) = None
  <2>1. Seen(current, p) = Initial[p]
    BY <1>4 DEF Seen
  <2>2. \A u \in Visible, q \in UserPages : SeenNext(u, q) = Seen(u, q)
    BY <1>3, <2>1
  <2>3. ProcessMemory' = ProcessMemory
    BY <1>1, <2>2, SameMemory
  <2> QED
    BY <1>1, <2>3 DEF Stutters
<1>5. CASE Vmas[i].anon
  <2>1. ProcessMemory' = [ProcessMemory EXCEPT ![current][p] = Initial[p]]
    BY <1>1, <1>2, <1>3, OnePageWritten
  <2>2. Abstract!Reset(p)
    BY <1>1, <2>1 DEF Abstract!Reset
  <2> QED
    BY <1>2, <1>5, <2>2
<1> QED
  BY <1>4, <1>5 DEF PageFault

(* Until the loops of sys_fork are done nobody sees them, and the child is *)
(* nobody yet.                                                             *)
LEMMA ForkBeginRefines ==
  ASSUME IInv, ForkBegin
  PROVE  Stutters
<1>1. /\ child' \notin live /\ live' = live \cup {child'} /\ mode # "fork" /\ mode' = "fork"
      /\ UNCHANGED <<data, current>>
  BY ForkBeginFrames DEF ForkBegin, InUser
<1>2. Visible = live \ {Idle} /\ Visible' = Visible
  BY <1>1, VisibleFacts DEF Visible
<1>3. ASSUME NEW u \in Visible, NEW q \in UserPages PROVE SeenNext(u, q) = Seen(u, q)
  <2>1. FrameNext(u, q) = Frame(u, q)
    BY <1>2, ForkBeginFrames, UserPagesFacts
  <2> QED
    BY <1>1, <2>1 DEF SeenNext, Seen
<1>4. ProcessMemory' = ProcessMemory
  BY <1>2, <1>3, SameMemory
<1> QED
  BY <1>1, <1>2, <1>4 DEF Stutters

LEMMA CopyPageRefines ==
  ASSUME IInv, CopyPage
  PROVE  Stutters
<1> DEFINE p == Vmas[at[1]].pages[at[2]]
<1>1. /\ p \in Pages /\ mode = "fork" /\ child \in live \ {Idle} /\ current \in live \ {Idle}
      /\ UNCHANGED <<live, root, current, mode, child>>
  BY CopyAt DEF CopyPage
<1>2. Visible = live \ {Idle, child} /\ Visible' = Visible
  BY <1>1, VisibleFacts DEF Visible
<1>3. \/ /\ Room(Needed(root[child], p)) /\ MemoryBecomes(Mapped(child, p))
         /\ data' = [data EXCEPT ![next] = ReadActive(p)]
      \/ UNCHANGED mem
  BY DEF CopyPage, pgcpy
<1> HIDE DEF p
<1>4. ASSUME NEW u \in Visible, NEW q \in UserPages PROVE SeenNext(u, q) = Seen(u, q)
  <2>1. q \in Pages /\ u \in live \ {Idle} /\ u # child
    BY <1>2, UserPagesFacts
  <2>2. CASE /\ Room(Needed(root[child], p)) /\ MemoryBecomes(Mapped(child, p))
             /\ data' = [data EXCEPT ![next] = ReadActive(p)]
    <3>1. /\ next \in Frames /\ Frame(u, q) # next /\ FrameNext(u, q) = Frame(u, q)
      BY <1>1, <2>1, <2>2, MappedFrames
    <3>2. Frame(u, q) \in Frames /\ data \in [Frames -> Values]
      BY <2>1, WalkUse DEF IInv, TypeOK
    <3>3. data'[Frame(u, q)] = data[Frame(u, q)]
      BY <2>2, <3>1, <3>2
    <3> QED
      BY <3>1, <3>3 DEF SeenNext, Seen
  <2>3. CASE UNCHANGED mem
    BY <1>1, <2>3, QuietSeen DEF mem
  <2> QED
    BY <1>3, <2>2, <2>3
<1>5. ProcessMemory' = ProcessMemory
  BY <1>2, <1>4, SameMemory
<1> QED
  BY <1>1, <1>2, <1>5 DEF Stutters

(* At the end of sys_fork the child appears, with the parent's memory.     *)
LEMMA ForkEndRefines ==
  ASSUME RInv, ForkEnd
  PROVE  Abstract!Clone(child)
<1>1. /\ IInv /\ Copied /\ mode = "fork" /\ mode' = "user" /\ current' = child
      /\ UNCHANGED <<pt, data, next, use, live, root>>
      /\ child \in live \ {Idle} /\ child \in Slots /\ current \in live \ {Idle}
  BY DEF RInv, ForkEnd, IInv, TypeOK
<1>2. /\ Visible = live \ {Idle, child} /\ Visible' = live \ {Idle}
  BY <1>1 DEF Visible
<1>3. at = <<Len(Vmas) + 1, 1>>
  BY <1>1 DEF IInv, TypeOK, ForkEnd
<1>4. ASSUME NEW p \in UserPages PROVE Seen(child, p) = Seen(current, p)
  <2>1. Done(at, p)
    BY <1>3, DoneAtEnd
  <2>2. /\ Frame(child, p) # None <=> Frame(current, p) # None
        /\ Frame(child, p) # None => data[Frame(child, p)] = data[Frame(current, p)]
    BY <1>1, <2>1, UserPagesFacts DEF Copied
  <2> QED
    BY <2>2 DEF Seen
<1>5. \A t, p : SeenNext(t, p) = Seen(t, p)
  BY <1>1, QuietSeen
<1>6. current \in Visible /\ current \in Slots
  BY <1>1, VisibleFacts
<1>7. ProcessMemory[current] = [p \in UserPages |-> Seen(child, p)]
  BY <1>4, <1>6, MemoryBy
<1>8. ProcessMemory' = [ProcessMemory EXCEPT ![child] = ProcessMemory[current]]
  <2>1. [ProcessMemory EXCEPT ![child] = ProcessMemory[current]] =
          [t \in Slots |-> IF t = child THEN [p \in UserPages |-> Seen(child, p)]
                           ELSE ProcessMemory[t]]
    BY <1>7, MemoryBy
  <2>2. ProcessMemory' =
          [t \in Slots |-> IF t \in Visible' THEN [p \in UserPages |-> Seen(t, p)]
                                             ELSE Initial]
    BY <1>5, MemoryNext
  <2> QED
    BY <1>1, <1>2, <2>1, <2>2, MemoryBy
<1>9. child \notin Visible /\ Visible' = Visible \cup {child}
  BY <1>1, <1>2
<1> QED
  BY <1>1, <1>8, <1>9 DEF Abstract!Clone

LEMMA NextRefines == RInv /\ [Next]_vars => [Abstract!MemNext]_(<<Visible, current, ProcessMemory>>)
<1> SUFFICES ASSUME RInv, [Next]_vars PROVE Abstract!MemNext \/ Stutters
  BY DEF Stutters
<1>1. IInv
  BY DEF RInv
<1>2. ASSUME NEW p \in UserPages, NEW v \in Values, Store(p, v) PROVE Abstract!MemNext
  BY <1>1, <1>2, StoreRefines DEF Abstract!MemNext
<1>3. ASSUME NEW i \in DOMAIN Vmas, NEW p \in PagesOf(i), PageFault(i, p)
      PROVE  Abstract!MemNext \/ Stutters
  BY <1>1, <1>3, PageFaultRefines DEF Abstract!MemNext
<1>4. ASSUME UNCHANGED <<pt, root, data>>, Visible' = Visible PROVE ProcessMemory' = ProcessMemory
  BY <1>4, QuietSeen, SameMemory
<1>5. CASE FaultNoVma
  <2>1. UNCHANGED <<pt, root, data>> /\ Visible' = Visible /\ current' = current
    BY <1>5 DEF FaultNoVma, Visible, InUser
  <2> QED
    BY <1>4, <2>1 DEF Stutters
<1>6. ASSUME NEW t \in Slots, Switch(t) PROVE Abstract!MemNext
  <2>1. /\ UNCHANGED <<pt, root, data>> /\ Visible' = Visible /\ current' = t /\ t \in Visible
    BY <1>6 DEF Switch, Visible, InUser
  <2>2. ProcessMemory' = ProcessMemory
    BY <1>4, <2>1
  <2>3. Abstract!Dispatch(t)
    BY <2>1, <2>2 DEF Abstract!Dispatch
  <2> QED
    BY <2>1, <2>3 DEF Abstract!MemNext
<1>7. CASE ForkBegin
  BY <1>1, <1>7, ForkBeginRefines
<1>8. CASE CopyPage
  BY <1>1, <1>8, CopyPageRefines
<1>9. CASE ForkEnd
  <2>1. child \in Slots
    BY <1>1 DEF IInv, TypeOK
  <2> QED
    BY <1>9, <2>1, ForkEndRefines DEF Abstract!MemNext
<1>10. CASE ForkTableFull
  <2>1. UNCHANGED <<pt, root, data>> /\ Visible' = Visible /\ current' = current
    BY <1>10 DEF ForkTableFull, Visible, InUser
  <2> QED
    BY <1>4, <2>1 DEF Stutters
<1>11. CASE UNCHANGED vars
  <2>1. UNCHANGED <<pt, root, data>> /\ Visible' = Visible /\ current' = current
    BY <1>11 DEF vars, Visible
  <2> QED
    BY <1>4, <2>1 DEF Stutters
<1> QED
  BY <1>2, <1>3, <1>5, <1>6, <1>7, <1>8, <1>9, <1>10, <1>11 DEF Next

-----------------------------------------------------------------------------
(* The theorem.                                                            *)

(* Demand paging, copying and switching implement private flat memories:   *)
(* what do_page_fault and the copy loops of sys_fork do is not to be seen, *)
(* and a child starts with exactly the parent's memory, pages the parent   *)
(* never touched included.                                                 *)
THEOREM MemoryIsFlat == Spec => ImplementsProcMem
<1>1. Init => RInv
  BY InitInv, InitCopied DEF RInv
<1>2. Spec => []RInv
  BY <1>1, StepRInv, PTL DEF Spec
<1> QED
  BY <1>2, InitRefines, NextRefines, PTL
     DEF Spec, ImplementsProcMem, Abstract!MemSpec, Abstract!memvars

=============================================================================
