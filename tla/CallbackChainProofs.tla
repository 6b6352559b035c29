------------------------ MODULE CallbackChainProofs ------------------------
(***************************************************************************)
(* Proofs about the linked list of timer1_clock.c at the level of its      *)
(* pointers, when callers of unregister have interrupts off.               *)
(*                                                                         *)
(* The inductive invariant says that the walk from the head is a proper    *)
(* list (no element twice, the last one's next is null) and that the local *)
(* variables of a call of unregister point to neighbours in that list.     *)
(* With it every store to a pointer is an operation on the sequence of     *)
(* elements.  That the walk computed step by step is the list described by *)
(* the pointers is an induction on the number of steps, done once, in      *)
(* PathIs, with the least-number principle.                                *)
(***************************************************************************)
EXTENDS CallbackChain, Integers, FiniteSetTheorems, WellFoundedInduction, TLAPS

(***************************************************************************)
(* The structs of p, each once, are linked in the order of p.              *)
(***************************************************************************)
Links(p, i) == IF i < Len(p) THEN p[i + 1] ELSE NULL

IsPath(p) ==
  /\ p \in Seq(Callbacks)
  /\ \A i, j \in 1 .. Len(p) : p[i] = p[j] => i = j
  /\ chain = Links(p, 0)
  /\ \A i \in 1 .. Len(p) : next[p[i]] = Links(p, i)

ChainTypeOK ==
  /\ chain \in Pointer
  /\ next \in [Callbacks -> Pointer]
  /\ recurring \in [Callbacks -> BOOLEAN]
  /\ contexts \in Seq(Context)
  /\ Len(contexts) >= 1
  /\ registered \subseteq Callbacks

(***************************************************************************)
(* Only the topmost context is inside unregister, and its local variables  *)
(* are neighbours in the list: previous is an element in front of which    *)
(* the target was not found, next its successor, or, once the target is    *)
(* found, the target's.                                                    *)
(***************************************************************************)
OthersInUserCode == \A i \in 1 .. Len(contexts) - 1 : contexts[i].pc = "user"

LocalsFit ==
  /\ Top.pc # "user" => Top.target \in Callbacks
  /\ Top.pc = "read_first" => Top.previous = chain /\ Path # <<>>
  /\ Top.pc = "scan" =>
       \E i \in 1 .. Len(Path) :
         /\ Top.previous = Path[i]
         /\ Top.next = Links(Path, i)
         /\ \A j \in 1 .. i : Path[j] # Top.target
  /\ Top.pc = "write_chain" =>
       /\ Path # <<>>
       /\ Path[1] = Top.target
       /\ Top.next = Links(Path, 1)
  /\ Top.pc = "write_previous" =>
       \E i \in 1 .. Len(Path) - 1 :
         /\ Top.previous = Path[i]
         /\ Path[i + 1] = Top.target
         /\ Top.next = Links(Path, i + 1)

(***************************************************************************)
(* What is linked is registered or just being unregistered.                *)
(***************************************************************************)
LinkedIsWanted ==
  \A i \in 1 .. Len(Path) :
    Path[i] \in registered \/ (Top.pc # "user" /\ Top.target = Path[i])

ChainInv ==
  /\ ChainTypeOK
  /\ IsPath(Path)
  /\ OthersInUserCode
  /\ LocalsFit
  /\ LinkedIsWanted
-----------------------------------------------------------------------------
(***************************************************************************)
(* Every inhabited set of naturals has a least element: the induction      *)
(* principle used for the walk.                                            *)
(***************************************************************************)
LEMMA LeastNumber ==
  ASSUME NEW S \in SUBSET Nat, S # {}
  PROVE  \E m \in S : \A n \in S : m <= n
<1> DEFINE R == {ss \in Nat \X Nat : ss[1] < ss[2]}
<1>1. IsWellFoundedOn(R, Nat)
  BY NatLessThanWellFounded DEF OpToRel
<1> HIDE DEF R
<1>2. PICK x \in S : \A y \in S : <<y, x>> \notin R
  BY <1>1, WFMin
<1>3. \A y \in S : ~(y < x)
  BY <1>2 DEF R
<1> QED
  BY <1>3

(***************************************************************************)
(* A list without repetitions has at most as many elements as there are    *)
(* structs, so that the walk of insert_into_chain comes to its end.        *)
(***************************************************************************)
LEMMA PathFits ==
  ASSUME NEW p \in Seq(Callbacks),
         \A i, j \in 1 .. Len(p) : p[i] = p[j] => i = j
  PROVE  /\ Cardinality(Callbacks) \in Nat
         /\ Len(p) <= Cardinality(Callbacks)
<1>1. Cardinality(Callbacks) \in Nat
  BY FS_CardinalityType, ChainAssumption
<1>2. p \in Injection(1 .. Len(p), Callbacks)
  BY DEF Injection, IsInjective
<1>3. Cardinality(1 .. Len(p)) <= Cardinality(Callbacks)
  BY <1>2, FS_Injection, ChainAssumption
<1>4. Cardinality(1 .. Len(p)) = Len(p)
  BY FS_Interval
<1> QED
  BY <1>1, <1>3, <1>4

(***************************************************************************)
(* The walk along the pointers meets the elements of the list they         *)
(* describe, in its order, and then the null pointer.                      *)
(***************************************************************************)
LEMMA ReachedIs ==
  ASSUME NEW p, IsPath(p)
  PROVE  \A k \in 0 .. Cardinality(Callbacks) : Reached[k] = Links(p, k)
<1> DEFINE N == Cardinality(Callbacks)
           Walked(g) == [i \in 0 .. N |-> IF i = 0 THEN chain
                                         ELSE IF g[i - 1] = NULL THEN NULL
                                         ELSE next[g[i - 1]]]
           h == [i \in 0 .. N |-> Links(p, i)]
<1>1. N \in Nat /\ Len(p) \in Nat /\ Len(p) <= N
  BY PathFits DEF IsPath
<1> HIDE DEF N
<1>2. ASSUME NEW i \in 1 .. N
      PROVE  Links(p, i) = IF Links(p, i - 1) = NULL THEN NULL ELSE next[Links(p, i - 1)]
  <2>1. CASE i <= Len(p)
    <3>1. Links(p, i - 1) = p[i] /\ p[i] \in Callbacks
      BY <2>1, <1>1 DEF Links, IsPath
    <3>2. next[p[i]] = Links(p, i)
      BY <2>1, <1>1 DEF IsPath
    <3> QED
      BY <3>1, <3>2, ChainAssumption
  <2>2. CASE i > Len(p)
    BY <2>2, <1>1 DEF Links
  <2> QED
    BY <2>1, <2>2, <1>1
<1>3. chain = Links(p, 0)
  BY DEF IsPath
<1>4. h = Walked(h)
  BY <1>1, <1>2, <1>3
<1>5. Reached = Walked(Reached)
  BY <1>4 DEF Reached, N
<1>6. ASSUME NEW k \in 0 .. N, Reached[k] # Links(p, k)
      PROVE  FALSE
  <2> DEFINE S == {n \in 0 .. N : Reached[n] # Links(p, n)}
  <2>1. PICK m \in S : \A n \in S : m <= n
    <3>1. S \in SUBSET Nat /\ S # {}
      BY <1>6, <1>1
    <3> QED
      BY <3>1, LeastNumber
  <2>2. m \in 0 .. N /\ Reached[m] # Links(p, m)
    OBVIOUS
  <2>3. m # 0
    BY <2>2, <1>5, <1>3, <1>1
  <2>4. m \in 1 .. N /\ m - 1 \in 0 .. N /\ m - 1 \notin S
    BY <2>1, <2>2, <2>3, <1>1
  <2>5. Reached[m - 1] = Links(p, m - 1)
    BY <2>4
  <2>6. Reached[m] = IF Reached[m - 1] = NULL THEN NULL ELSE next[Reached[m - 1]]
    BY <2>4, <1>5, <1>1
  <2> QED
    BY <2>2, <2>4, <2>5, <2>6, <1>2
<1> QED
  BY <1>6 DEF N

(***************************************************************************)
(* The model's walk is the list the pointers describe, whatever they are.  *)
(***************************************************************************)
LEMMA PathIs ==
  \A p : IsPath(p) => Path = p
<1> SUFFICES ASSUME NEW p, IsPath(p) PROVE Path = p
  OBVIOUS
<1> DEFINE N == Cardinality(Callbacks)
           Met == {k \in 0 .. N : Reached[k] # NULL}
<1>1. N \in Nat /\ Len(p) \in Nat /\ Len(p) <= N
  BY PathFits DEF IsPath
<1>2. \A k \in 0 .. N : Reached[k] = Links(p, k)
  BY ReachedIs
<1> HIDE DEF N
<1>3. \A k \in 0 .. N : Reached[k] # NULL <=> k < Len(p)
  BY <1>1, <1>2, ChainAssumption DEF Links, IsPath
<1>4. Met = 0 .. Len(p) - 1
  BY <1>1, <1>3
<1>5. Cardinality(0 .. Len(p) - 1) = Len(p)
  <2>1. PICK b \in Int : b = Len(p) - 1
    BY <1>1
  <2>2. Cardinality(0 .. b) = IF 0 > b THEN 0 ELSE b - 0 + 1
    BY FS_Interval
  <2> QED
    BY <1>1, <2>1, <2>2
<1>6. Path = [i \in 1 .. Len(p) |-> Reached[i - 1]]
  BY <1>4, <1>5 DEF Path, N
<1>7. \A i \in 1 .. Len(p) : Reached[i - 1] = p[i]
  BY <1>1, <1>2 DEF Links
<1>8. p = [i \in 1 .. Len(p) |-> p[i]]
  BY DEF IsPath
<1> QED
  BY <1>6, <1>7, <1>8

(***************************************************************************)
(* The same after a step: to know the new list it is enough to show which  *)
(* one the new pointers describe.                                          *)
(***************************************************************************)
LEMMA NewPathIs ==
  \A p : IsPath(p)' => IsPath(Path)' /\ Path' = p
<1>1. (\A p : IsPath(p) => Path = p)'
  BY PathIs, PTL
<1>2. \A p : IsPath(p)' => Path' = p
  BY <1>1
<1> SUFFICES ASSUME NEW p, IsPath(p)' PROVE IsPath(Path)' /\ Path' = p
  OBVIOUS
<1>3. Path' = p
  BY <1>2
<1> QED
  BY <1>3 DEF IsPath, Links

(***************************************************************************)
(* A step that writes neither the head nor a next field keeps the list.    *)
(***************************************************************************)
LEMMA Kept ==
  ASSUME IsPath(Path), UNCHANGED <<chain, next>>
  PROVE  IsPath(Path)' /\ Path' = Path
<1>1. PICK p : p = Path
  OBVIOUS
<1>2. IsPath(p)
  BY <1>1
<1> HIDE <1>1
<1>3. IsPath(p)'
  BY <1>2 DEF IsPath, Links
<1>4. IsPath(Path)' /\ Path' = p
  BY <1>3, NewPathIs
<1> QED
  BY <1>4, <1>1

(***************************************************************************)
(* insert_into_chain appends a struct that is not in the list, whatever    *)
(* its next field held, and leaves the list alone otherwise.               *)
(***************************************************************************)
LEMMA Inserted ==
  ASSUME IsPath(Path), next \in [Callbacks -> Pointer],
         NEW c \in Callbacks, InsertIntoChain(c)
  PROVE  /\ IsPath(Path)'
         /\ \/ c \in OnPath /\ Path' = Path
            \/ c \notin OnPath /\ Path' = Append(Path, c)
<1>1. PICK p : p = Path
  OBVIOUS
<1>2. IsPath(p)
  BY <1>1
<1>3. CASE c \in OnPath
  <2>1. UNCHANGED <<chain, next>>
    <3>1. CASE Path = <<>>
      BY <3>1, <1>3 DEF OnPath
    <3>2. CASE Path # <<>>
      BY <3>2, <1>3 DEF InsertIntoChain
    <3> QED
      BY <3>1, <3>2
  <2> QED
    BY <2>1, <1>3, Kept
<1>4. CASE c \notin OnPath
  <2>1. \A i \in 1 .. Len(p) : p[i] # c
    BY <1>4, <1>1 DEF OnPath, IsPath
  <2>2. \/ p = <<>> /\ chain' = c /\ next' = [next EXCEPT ![c] = NULL]
        \/ p # <<>> /\ chain' = chain /\ next' = [next EXCEPT ![p[Len(p)]] = c, ![c] = NULL]
    BY <1>4, <1>1 DEF InsertIntoChain
  <2> HIDE <1>1
  <2> DEFINE q == Append(p, c)
  <2>3. /\ p \in Seq(Callbacks) /\ Len(p) \in Nat
        /\ q \in Seq(Callbacks) /\ Len(q) = Len(p) + 1
        /\ \A i \in 1 .. Len(p) : q[i] = p[i]
        /\ q[Len(p) + 1] = c
    BY <1>2 DEF IsPath
  <2> HIDE DEF q
  <2>4. \A i, j \in 1 .. Len(q) : q[i] = q[j] => i = j
    BY <1>2, <2>1, <2>3 DEF IsPath
  <2>5. chain' = Links(q, 0)
    <3>1. CASE p = <<>>
      BY <3>1, <2>2, <2>3 DEF Links
    <3>2. CASE p # <<>>
      BY <3>2, <1>2, <2>2, <2>3 DEF Links, IsPath
    <3> QED
      BY <3>1, <3>2
  <2>6. ASSUME NEW i \in 1 .. Len(q)
        PROVE  next'[q[i]] = Links(q, i)
    <3>1. CASE i = Len(p) + 1
      <4>1. next'[c] = NULL
        BY <2>2
      <4> QED
        BY <4>1, <3>1, <2>3 DEF Links
    <3>2. CASE i \in 1 .. Len(p)
      <4>1. p # <<>> /\ p[i] \in Callbacks /\ p[i] # c /\ next[p[i]] = Links(p, i)
        BY <3>2, <2>1, <2>3, <1>2 DEF IsPath
      <4>2. next'[p[i]] = IF p[i] = p[Len(p)] THEN c ELSE next[p[i]]
        BY <4>1, <2>2
      <4>3. p[i] = p[Len(p)] <=> i = Len(p)
        BY <3>2, <2>3, <1>2 DEF IsPath
      <4> QED
        BY <4>1, <4>2, <4>3, <3>2, <2>3 DEF Links
    <3> QED
      BY <3>1, <3>2, <2>3
  <2>7. IsPath(q)'
    BY <2>3, <2>4, <2>5, <2>6 DEF IsPath, Links
  <2>8. IsPath(Path)' /\ Path' = Append(p, c)
    BY <2>7, NewPathIs DEF q
  <2> QED
    BY <2>8, <1>1, <1>4
<1> QED
  BY <1>3, <1>4

(***************************************************************************)
(* Storing an element's next into the head, when it is the first, or into  *)
(* its predecessor's next removes exactly that element.                    *)
(***************************************************************************)
LEMMA Unlinked ==
  ASSUME IsPath(Path), next \in [Callbacks -> Pointer],
         NEW k \in 1 .. Len(Path),
         \/ k = 1 /\ chain' = Links(Path, 1) /\ next' = next
         \/ k > 1 /\ chain' = chain /\ next' = [next EXCEPT ![Path[k - 1]] = Links(Path, k)]
  PROVE  IsPath(Path)' /\ Path' = List!Without(Path, k)
<1>1. PICK p : p = Path
  OBVIOUS
<1>2. IsPath(p) /\ k \in 1 .. Len(p)
  BY <1>1
<1>3. \/ k = 1 /\ chain' = Links(p, 1) /\ next' = next
      \/ k > 1 /\ chain' = chain /\ next' = [next EXCEPT ![p[k - 1]] = Links(p, k)]
  BY <1>1
<1> HIDE <1>1
<1> DEFINE q == List!Without(p, k)
<1>4. /\ p \in Seq(Callbacks) /\ Len(p) \in Nat
      /\ q \in Seq(Callbacks) /\ Len(q) = Len(p) - 1
      /\ \A i \in 1 .. Len(q) : q[i] = IF i < k THEN p[i] ELSE p[i + 1]
  BY <1>2 DEF IsPath, List!Without
<1> HIDE DEF q
<1>5. \A i, j \in 1 .. Len(q) : q[i] = q[j] => i = j
  <2> SUFFICES ASSUME NEW i \in 1 .. Len(q), NEW j \in 1 .. Len(q), q[i] = q[j]
               PROVE  i = j
    OBVIOUS
  <2>1. PICK a \in 1 .. Len(p) : q[i] = p[a] /\ a = IF i < k THEN i ELSE i + 1
    BY <1>2, <1>4, SMTT(30)
  <2>2. PICK b \in 1 .. Len(p) : q[j] = p[b] /\ b = IF j < k THEN j ELSE j + 1
    BY <1>2, <1>4, SMTT(30)
  <2>3. a = b
    BY <2>1, <2>2, <1>2 DEF IsPath
  <2> QED
    BY <2>1, <2>2, <2>3, <1>2, <1>4
<1>6. chain' = Links(q, 0)
  BY <1>2, <1>3, <1>4 DEF Links, IsPath
<1>7. ASSUME NEW i \in 1 .. Len(q)
      PROVE  next'[q[i]] = Links(q, i)
  <2>1. PICK a \in 1 .. Len(p) : q[i] = p[a] /\ a = IF i < k THEN i ELSE i + 1
    BY <1>2, <1>4, SMTT(30)
  <2>2. p[a] \in Callbacks /\ next[p[a]] = Links(p, a)
    BY <1>2, <1>4 DEF IsPath
  <2>3. next'[p[a]] = IF a = k - 1 THEN Links(p, k) ELSE Links(p, a)
    <3>1. CASE k = 1
      BY <3>1, <2>2, <1>3, <1>4
    <3>2. CASE k > 1
      <4>1. p[a] = p[k - 1] <=> a = k - 1
        BY <3>2, <1>2, <1>4 DEF IsPath
      <4> QED
        BY <4>1, <3>2, <2>2, <1>3
    <3> QED
      BY <3>1, <3>2, <1>2, <1>4
  <2>4. Links(q, i) = IF a = k - 1 THEN Links(p, k) ELSE Links(p, a)
    BY <2>1, <1>2, <1>4, SMTT(30) DEF Links
  <2> QED
    BY <2>1, <2>3, <2>4
<1>8. IsPath(q)'
  BY <1>4, <1>5, <1>6, <1>7 DEF IsPath, Links
<1>9. IsPath(Path)' /\ Path' = List!Without(p, k)
  BY <1>8, NewPathIs DEF q
<1> QED
  BY <1>9, <1>1

-----------------------------------------------------------------------------
(***************************************************************************)
(* A step of the running context changes the top of the stack only.        *)
(***************************************************************************)
LEMMA Resumed ==
  ASSUME contexts \in Seq(Context), Len(contexts) >= 1, OthersInUserCode,
         NEW ctx \in Context, Resume(ctx)
  PROVE  /\ contexts' \in Seq(Context) /\ Len(contexts') >= 1
         /\ OthersInUserCode'
         /\ Top' = ctx
  BY DEF Resume, OthersInUserCode, Top

(***************************************************************************)
(* The running context is one of the stack, and the context of user code   *)
(* is one too.                                                             *)
(***************************************************************************)
LEMMA TopIsContext ==
  ASSUME contexts \in Seq(Context), Len(contexts) >= 1
  PROVE  Top \in Context /\ InUserCode \in Context
<1>1. Top \in Context
  <2>1. Len(contexts) \in 1 .. Len(contexts)
    OBVIOUS
  <2> QED
    BY <2>1 DEF Top
<1>2. InUserCode \in Context
  BY DEF InUserCode, Context, Pointer
<1> QED
  BY <1>1, <1>2

(***************************************************************************)
(* Outside unregister the invariant asks only that what is linked is       *)
(* registered.                                                             *)
(***************************************************************************)
LEMMA InvInUserCode ==
  ASSUME ChainTypeOK', IsPath(Path)', OthersInUserCode', Top'.pc = "user",
         \A i \in 1 .. Len(Path') : Path'[i] \in registered'
  PROVE  ChainInv'
<1>1. LocalsFit'
  BY DEF LocalsFit
<1>2. LinkedIsWanted'
  BY DEF LinkedIsWanted
<1> QED
  BY <1>1, <1>2 DEF ChainInv

(***************************************************************************)
(* Before the first call the list is empty.                                *)
(***************************************************************************)
LEMMA InitInv ==
  ASSUME Init
  PROVE  ChainInv /\ Path = <<>>
<1>1. IsPath(<<>>)
  BY DEF Init, IsPath, Links
<1>2. Path = <<>>
  BY <1>1, PathIs
<1>3. ChainTypeOK
  BY DEF ChainTypeOK, Init, Pointer, InUserCode, Context
<1>4. OthersInUserCode
  BY DEF OthersInUserCode, Init
<1>5. LocalsFit
  BY DEF LocalsFit, Init, Top, InUserCode
<1>6. LinkedIsWanted
  BY <1>2 DEF LinkedIsWanted
<1> QED
  BY <1>1, <1>2, <1>3, <1>4, <1>5, <1>6 DEF ChainInv

(***************************************************************************)
(* register appends the struct or finds it linked.                         *)
(***************************************************************************)
LEMMA RegisterStep ==
  ASSUME ChainInv, NEW c \in Callbacks, NEW rec \in BOOLEAN,
         timer1_clock_register_callback(c, rec)
  PROVE  ChainInv' /\ [List!Next]_Path
<1>1. ChainTypeOK /\ IsPath(Path) /\ Top.pc = "user"
  BY DEF ChainInv, timer1_clock_register_callback
<1>2. \A i \in 1 .. Len(Path) : Path[i] \in registered
  BY <1>1 DEF ChainInv, LinkedIsWanted
<1>3. /\ IsPath(Path)'
      /\ \/ c \in OnPath /\ Path' = Path
         \/ c \notin OnPath /\ Path' = Append(Path, c)
  BY <1>1, Inserted DEF ChainTypeOK, timer1_clock_register_callback
<1>4. Path \in Seq(Callbacks)
  BY <1>1 DEF IsPath
<1>5. ChainTypeOK'
  <2>1. chain' \in Pointer /\ next' \in [Callbacks -> Pointer]
    <3>1. \/ UNCHANGED <<chain, next>>
          \/ chain' = c /\ next' = [next EXCEPT ![c] = NULL]
          \/ chain' = chain /\ next' = [next EXCEPT ![Path[Len(Path)]] = c, ![c] = NULL]
      BY DEF timer1_clock_register_callback, InsertIntoChain
    <3> QED
      BY <3>1, <1>1 DEF ChainTypeOK, Pointer
  <2> QED
    BY <2>1, <1>1 DEF ChainTypeOK, timer1_clock_register_callback
<1>6. contexts' = contexts /\ Top' = Top /\ registered' = registered \cup {c}
  BY DEF timer1_clock_register_callback, Top
<1>7. OthersInUserCode'
  BY <1>6 DEF ChainInv, OthersInUserCode
<1>8. \A i \in 1 .. Len(Path') : Path'[i] \in registered'
  BY <1>2, <1>3, <1>4, <1>6
<1>9. ChainInv'
  BY <1>1, <1>3, <1>5, <1>6, <1>7, <1>8, InvInUserCode
<1>10. c \notin OnPath => c \notin List!Members
  BY DEF OnPath, List!Members
<1> QED
  BY <1>3, <1>9, <1>10 DEF List!Next, List!Add

(***************************************************************************)
(* The accesses of unregister that only read keep the list; its local      *)
(* variables move along it.                                                *)
(***************************************************************************)
LEMMA CallStep ==
  ASSUME ChainInv, NEW c \in Callbacks, CallUnregister(c)
  PROVE  ChainInv' /\ Path' = Path
<1>1. ChainTypeOK /\ IsPath(Path) /\ OthersInUserCode /\ Top.pc = "user"
  BY DEF ChainInv, CallUnregister
<1>2. \A i \in 1 .. Len(Path) : Path[i] \in registered
  BY <1>1 DEF ChainInv, LinkedIsWanted
<1>3. IsPath(Path)' /\ Path' = Path
  BY <1>1, Kept DEF CallUnregister
<1>4. PICK ctx \in Context : /\ Resume(ctx) /\ ctx.pc = "read_chain" /\ ctx.target = c
  <2> DEFINE ctx == [InUserCode EXCEPT !.pc = "read_chain", !.target = c]
  <2>1. ctx \in Context /\ ctx.pc = "read_chain" /\ ctx.target = c
    BY DEF InUserCode, Context, Pointer
  <2>2. Resume(ctx)
    BY DEF CallUnregister
  <2> QED
    BY <2>1, <2>2
<1>5. /\ contexts' \in Seq(Context) /\ Len(contexts') >= 1
      /\ OthersInUserCode'
      /\ Top' = ctx
  BY <1>1, <1>4, Resumed DEF ChainTypeOK
<1>6. ChainTypeOK'
  BY <1>1, <1>5 DEF ChainTypeOK, CallUnregister
<1>7. LocalsFit'
  BY <1>4, <1>5 DEF LocalsFit
<1>8. LinkedIsWanted'
  BY <1>2, <1>3, <1>4, <1>5 DEF LinkedIsWanted, CallUnregister
<1> QED
  BY <1>3, <1>5, <1>6, <1>7, <1>8 DEF ChainInv

(***************************************************************************)
(* unregister's read of the head: an empty list has nothing to remove.     *)
(***************************************************************************)
LEMMA ReadChainStep ==
  ASSUME ChainInv, ReadChain
  PROVE  ChainInv' /\ Path' = Path
<1>1. ChainTypeOK /\ IsPath(Path) /\ OthersInUserCode /\ Top.pc = "read_chain"
  BY DEF ChainInv, ReadChain
<1>2. Top \in Context /\ InUserCode \in Context /\ Top.target \in Callbacks
  BY <1>1, TopIsContext DEF ChainTypeOK, ChainInv, LocalsFit
<1>3. IsPath(Path)' /\ Path' = Path
  BY <1>1, Kept DEF ReadChain
<1>4. chain = NULL <=> Path = <<>>
  BY <1>1, ChainAssumption DEF IsPath, Links
<1>5. CASE chain = NULL
  <2>1. Resume(InUserCode)
    BY <1>5 DEF ReadChain
  <2>2. /\ contexts' \in Seq(Context) /\ Len(contexts') >= 1
        /\ OthersInUserCode'
        /\ Top' = InUserCode
    BY <1>1, <1>2, <2>1, Resumed DEF ChainTypeOK
  <2>3. ChainTypeOK'
    BY <1>1, <2>2 DEF ChainTypeOK, ReadChain
  <2>4. Path' = <<>>
    BY <1>3, <1>4, <1>5
  <2> QED
    BY <1>3, <2>2, <2>3, <2>4, InvInUserCode DEF InUserCode
<1>6. CASE chain # NULL
  <2>1. PICK ctx \in Context : /\ Resume(ctx) /\ ctx.pc = "read_first"
                               /\ ctx.previous = chain /\ ctx.target = Top.target
    <3> DEFINE ctx == [Top EXCEPT !.pc = "read_first", !.previous = chain]
    <3>1. ctx \in Context /\ ctx.pc = "read_first" /\ ctx.previous = chain
            /\ ctx.target = Top.target
      BY <1>1, <1>2 DEF Context, ChainTypeOK
    <3>2. Resume(ctx)
      BY <1>6 DEF ReadChain
    <3> QED
      BY <3>1, <3>2
  <2>2. /\ contexts' \in Seq(Context) /\ Len(contexts') >= 1
        /\ OthersInUserCode'
        /\ Top' = ctx
    BY <1>1, <2>1, Resumed DEF ChainTypeOK
  <2>3. ChainTypeOK'
    BY <1>1, <2>2 DEF ChainTypeOK, ReadChain
  <2>4. Path # <<>> /\ chain' = chain /\ registered' = registered
    BY <1>4, <1>6 DEF ReadChain
  <2>5. LocalsFit'
    BY <1>2, <1>3, <2>1, <2>2, <2>4 DEF LocalsFit
  <2>6. LinkedIsWanted'
    BY <1>1, <1>3, <2>1, <2>2, <2>4 DEF LinkedIsWanted, ChainInv
  <2> QED
    BY <1>3, <2>2, <2>3, <2>5, <2>6 DEF ChainInv
<1> QED
  BY <1>5, <1>6

(***************************************************************************)
(* unregister's read of the first element's next.                          *)
(***************************************************************************)
LEMMA ReadFirstStep ==
  ASSUME ChainInv, ReadFirstNext
  PROVE  ChainInv' /\ Path' = Path
<1>1. ChainTypeOK /\ IsPath(Path) /\ OthersInUserCode /\ Top.pc = "read_first"
  BY DEF ChainInv, ReadFirstNext
<1>2. Top \in Context /\ Top.target \in Callbacks
  BY <1>1, TopIsContext DEF ChainTypeOK, ChainInv, LocalsFit
<1>3. IsPath(Path)' /\ Path' = Path
  BY <1>1, Kept DEF ReadFirstNext
<1>4. Top.previous = chain /\ Path # <<>>
  BY <1>1 DEF ChainInv, LocalsFit
<1>5. 1 \in 1 .. Len(Path) /\ Path[1] = chain /\ chain \in Callbacks /\ next[chain] = Links(Path, 1)
  BY <1>1, <1>4 DEF IsPath, Links
<1>6. PICK ctx \in Context :
        /\ Resume(ctx)
        /\ ctx.pc = IF chain = Top.target THEN "write_chain" ELSE "scan"
        /\ ctx.previous = Path[1] /\ ctx.next = Links(Path, 1) /\ ctx.target = Top.target
  <2> DEFINE ctx == [Top EXCEPT !.next = next[Top.previous],
                       !.pc = IF Top.previous = Top.target THEN "write_chain" ELSE "scan"]
  <2>1. next[chain] \in Pointer
    BY <1>1, <1>5 DEF ChainTypeOK
  <2>2. ctx \in Context
    BY <1>2, <1>4, <2>1 DEF Context
  <2>3. /\ ctx.pc = IF chain = Top.target THEN "write_chain" ELSE "scan"
        /\ ctx.previous = Path[1] /\ ctx.next = Links(Path, 1) /\ ctx.target = Top.target
    BY <1>2, <1>4, <1>5 DEF Context
  <2>4. Resume(ctx)
    BY DEF ReadFirstNext
  <2> QED
    BY <2>2, <2>3, <2>4
<1>7. /\ contexts' \in Seq(Context) /\ Len(contexts') >= 1
      /\ OthersInUserCode'
      /\ Top' = ctx
  BY <1>1, <1>6, Resumed DEF ChainTypeOK
<1>8. ChainTypeOK'
  BY <1>1, <1>7 DEF ChainTypeOK, ReadFirstNext
<1>9. LocalsFit'
  <2>1. \A j \in 1 .. 1 : j = 1
    OBVIOUS
  <2>2. Links(Path, 1)' = Links(Path, 1)
    BY <1>3 DEF Links
  <2>3. CASE chain = Top.target
    BY <1>2, <1>3, <1>4, <1>5, <1>6, <1>7, <2>2, <2>3 DEF LocalsFit
  <2>4. CASE chain # Top.target
    <3>1. ctx.pc = "scan"
      BY <1>6, <2>4
    <3>2. /\ ctx.previous = Path'[1] /\ ctx.next = Links(Path, 1)'
          /\ \A j \in 1 .. 1 : Path'[j] # ctx.target
      BY <1>3, <1>5, <1>6, <2>1, <2>2, <2>4
    <3> QED
      BY <1>2, <1>3, <1>5, <1>6, <1>7, <3>1, <3>2 DEF LocalsFit
  <2> QED
    BY <2>3, <2>4
<1>10. LinkedIsWanted'
  BY <1>1, <1>3, <1>6, <1>7 DEF LinkedIsWanted, ChainInv, ReadFirstNext
<1> QED
  BY <1>3, <1>7, <1>8, <1>9, <1>10 DEF ChainInv

(***************************************************************************)
(* One turn of unregister's loop: the end of the list, one element on, or  *)
(* the target found.                                                       *)
(***************************************************************************)
LEMMA ScanStep ==
  ASSUME ChainInv, Scan
  PROVE  ChainInv' /\ Path' = Path
<1>1. ChainTypeOK /\ IsPath(Path) /\ OthersInUserCode /\ Top.pc = "scan"
  BY DEF ChainInv, Scan
<1>2. Top \in Context /\ InUserCode \in Context /\ Top.target \in Callbacks
  BY <1>1, TopIsContext DEF ChainTypeOK, ChainInv, LocalsFit
<1>3. IsPath(Path)' /\ Path' = Path
  BY <1>1, Kept DEF Scan
<1>4. PICK i \in 1 .. Len(Path) :
        /\ Top.previous = Path[i]
        /\ Top.next = Links(Path, i)
        /\ \A j \in 1 .. i : Path[j] # Top.target
  BY <1>1 DEF ChainInv, LocalsFit
<1>5. Len(Path) \in Nat /\ \A j \in 1 .. Len(Path) : Path[j] \in Callbacks /\ Path[j] # NULL
  BY <1>1, ChainAssumption DEF IsPath
<1>6. Top.next = NULL <=> i = Len(Path)
  BY <1>4, <1>5 DEF Links
<1>7. \A k : Links(Path, k)' = Links(Path, k)
  BY <1>3 DEF Links
<1>8. CASE Top.next = NULL
  <2>1. Resume(InUserCode)
    BY <1>2, <1>8, ChainAssumption DEF Scan
  <2>2. /\ contexts' \in Seq(Context) /\ Len(contexts') >= 1
        /\ OthersInUserCode'
        /\ Top' = InUserCode
    BY <1>1, <1>2, <2>1, Resumed DEF ChainTypeOK
  <2>3. ChainTypeOK'
    BY <1>1, <2>2 DEF ChainTypeOK, Scan
  <2>4. \A j \in 1 .. Len(Path') : Path'[j] \in registered'
    BY <1>3, <1>4, <1>6, <1>8 DEF ChainInv, LinkedIsWanted, Scan
  <2> QED
    BY <1>3, <2>2, <2>3, <2>4, InvInUserCode DEF InUserCode
<1>9. CASE Top.next # NULL
  <2>1. i + 1 \in 1 .. Len(Path) /\ Top.next = Path[i + 1]
    BY <1>4, <1>5, <1>6, <1>9 DEF Links
  <2>2. Top.next \in Callbacks /\ next[Top.next] = Links(Path, i + 1) /\ next[Top.next] \in Pointer
    BY <1>1, <1>5, <2>1 DEF IsPath, ChainTypeOK
  <2>3. PICK ctx \in Context :
          /\ Resume(ctx)
          /\ ctx.target = Top.target
          /\ ctx.next = Links(Path, i + 1)
          /\ \/ Path[i + 1] # Top.target /\ ctx.pc = "scan" /\ ctx.previous = Path[i + 1]
             \/ Path[i + 1] = Top.target /\ ctx.pc = "write_previous" /\ ctx.previous = Path[i]
    <3>1. CASE Top.next # Top.target
      <4> DEFINE ctx == [Top EXCEPT !.previous = Top.next, !.next = next[Top.next]]
      <4>1. ctx \in Context
        BY <1>2, <2>2 DEF Context, Pointer
      <4>2. /\ ctx.target = Top.target /\ ctx.next = Links(Path, i + 1)
            /\ ctx.pc = "scan" /\ ctx.previous = Path[i + 1]
        BY <1>1, <1>2, <2>1, <2>2 DEF Context
      <4>3. Resume(ctx)
        BY <1>9, <3>1 DEF Scan
      <4> QED
        BY <2>1, <3>1, <4>1, <4>2, <4>3
    <3>2. CASE Top.next = Top.target
      <4> DEFINE ctx == [Top EXCEPT !.pc = "write_previous", !.next = next[Top.next]]
      <4>1. ctx \in Context
        BY <1>2, <2>2 DEF Context
      <4>2. /\ ctx.target = Top.target /\ ctx.next = Links(Path, i + 1)
            /\ ctx.pc = "write_previous" /\ ctx.previous = Path[i]
        BY <1>2, <1>4, <2>1, <2>2 DEF Context
      <4>3. Resume(ctx)
        BY <1>9, <3>2 DEF Scan
      <4> QED
        BY <2>1, <3>2, <4>1, <4>2, <4>3
    <3> QED
      BY <3>1, <3>2
  <2>4. /\ contexts' \in Seq(Context) /\ Len(contexts') >= 1
        /\ OthersInUserCode'
        /\ Top' = ctx
    BY <1>1, <2>3, Resumed DEF ChainTypeOK
  <2>5. ChainTypeOK'
    BY <1>1, <2>4 DEF ChainTypeOK, Scan
  <2>6. LocalsFit'
    <3>1. CASE Path[i + 1] # Top.target
      <4>1. ctx.pc = "scan" /\ ctx.previous = Path[i + 1]
        BY <2>3, <3>1
      <4>2. \A j \in 1 .. i + 1 : Path[j] # ctx.target
        BY <1>4, <2>3, <3>1
      <4> QED
        BY <1>2, <1>3, <1>7, <2>1, <2>3, <2>4, <4>1, <4>2 DEF LocalsFit
    <3>2. CASE Path[i + 1] = Top.target
      <4>1. ctx.pc = "write_previous" /\ ctx.previous = Path[i]
        BY <2>3, <3>2
      <4>2. i \in 1 .. Len(Path) - 1
        BY <1>5, <2>1
      <4> QED
        BY <1>2, <1>3, <1>7, <2>3, <2>4, <3>2, <4>1, <4>2 DEF LocalsFit
    <3> QED
      BY <3>1, <3>2
  <2>7. LinkedIsWanted'
    BY <1>1, <1>3, <2>3, <2>4 DEF LinkedIsWanted, ChainInv, Scan
  <2> QED
    BY <1>3, <2>4, <2>5, <2>6, <2>7 DEF ChainInv
<1> QED
  BY <1>8, <1>9

(***************************************************************************)
(* After an element has been taken out, the others keep their order and    *)
(* the element is not met again.                                           *)
(***************************************************************************)
LEMMA WithoutMembers ==
  ASSUME IsPath(Path), NEW k \in 1 .. Len(Path), NEW q, q = List!Without(Path, k)
  PROVE  \A j \in 1 .. Len(q) : \E i \in 1 .. Len(Path) : q[j] = Path[i] /\ q[j] # Path[k]
<1>1. /\ Len(Path) \in Nat
      /\ Len(q) = Len(Path) - 1
      /\ \A j \in 1 .. Len(q) : q[j] = IF j < k THEN Path[j] ELSE Path[j + 1]
  BY DEF IsPath, List!Without
<1>2. ASSUME NEW j \in 1 .. Len(q)
      PROVE  \E i \in 1 .. Len(Path) : q[j] = Path[i] /\ q[j] # Path[k]
  <2>1. PICK i \in 1 .. Len(Path) : q[j] = Path[i] /\ i # k
    BY <1>1
  <2> QED
    BY <2>1 DEF IsPath
<1> QED
  BY <1>2

(***************************************************************************)
(* unregister's store: the target leaves the list, and with it the last    *)
(* element that was linked without being registered.                       *)
(***************************************************************************)
LEMMA WriteStep ==
  ASSUME ChainInv, WriteChain \/ WritePrevious
  PROVE  ChainInv' /\ [List!Next]_Path
<1>1. ChainTypeOK /\ IsPath(Path) /\ OthersInUserCode /\ Top.pc # "user"
  BY DEF ChainInv, WriteChain, WritePrevious
<1>2. Top \in Context /\ InUserCode \in Context /\ Top.target \in Callbacks
  BY <1>1, TopIsContext DEF ChainTypeOK, ChainInv, LocalsFit
<1>3. PICK k \in 1 .. Len(Path) :
        /\ Path[k] = Top.target
        /\ \/ k = 1 /\ chain' = Links(Path, 1) /\ next' = next
           \/ k > 1 /\ chain' = chain /\ next' = [next EXCEPT ![Path[k - 1]] = Links(Path, k)]
  <2>1. CASE WriteChain
    <3>1. Path # <<>> /\ Path[1] = Top.target /\ Top.next = Links(Path, 1)
      BY <2>1 DEF ChainInv, LocalsFit, WriteChain
    <3>2. 1 \in 1 .. Len(Path)
      BY <1>1, <3>1 DEF IsPath
    <3> QED
      BY <2>1, <3>1, <3>2 DEF WriteChain
  <2>2. CASE WritePrevious
    <3>1. PICK i \in 1 .. Len(Path) - 1 :
            /\ Top.previous = Path[i]
            /\ Path[i + 1] = Top.target
            /\ Top.next = Links(Path, i + 1)
      BY <2>2 DEF ChainInv, LocalsFit, WritePrevious
    <3>2. PICK k \in 1 .. Len(Path) : k = i + 1 /\ k > 1 /\ k - 1 = i
      BY <1>1 DEF IsPath
    <3> QED
      BY <2>2, <3>1, <3>2 DEF WritePrevious
  <2> QED
    BY <2>1, <2>2
<1>4. IsPath(Path)' /\ Path' = List!Without(Path, k)
  BY <1>1, <1>3, Unlinked DEF ChainTypeOK
<1>5. /\ contexts' \in Seq(Context) /\ Len(contexts') >= 1
      /\ OthersInUserCode'
      /\ Top' = InUserCode
  BY <1>1, <1>2, Resumed DEF ChainTypeOK, WriteChain, WritePrevious
<1>6. ChainTypeOK'
  <2>1. Links(Path, k) \in Pointer /\ Links(Path, 1) \in Pointer
    BY <1>1 DEF IsPath, Links, Pointer
  <2>2. chain' \in Pointer /\ next' \in [Callbacks -> Pointer]
    BY <1>1, <1>3, <2>1 DEF ChainTypeOK
  <2> QED
    BY <1>1, <1>5, <2>2 DEF ChainTypeOK, WriteChain, WritePrevious
<1>7. \A j \in 1 .. Len(Path') : Path'[j] \in registered'
  <2> TAKE j \in 1 .. Len(Path')
  <2>1. PICK i \in 1 .. Len(Path) : Path'[j] = Path[i] /\ Path'[j] # Path[k]
    BY <1>1, <1>4, WithoutMembers
  <2>2. Path[i] \in registered \/ Top.target = Path[i]
    BY DEF ChainInv, LinkedIsWanted
  <2> QED
    BY <1>3, <2>1, <2>2 DEF WriteChain, WritePrevious
<1>8. ChainInv'
  BY <1>4, <1>5, <1>6, <1>7, InvInUserCode DEF InUserCode
<1>9. List!Remove(Top.target)
  <2>1. DOMAIN Path = 1 .. Len(Path)
    BY <1>1 DEF IsPath
  <2> QED
    BY <1>3, <1>4, <2>1 DEF List!Remove
<1> QED
  BY <1>2, <1>8, <1>9 DEF List!Next

(***************************************************************************)
(* The tick keeps a recurring callback where it is and takes a one-shot    *)
(* out of the list; the callback then runs on top of user code.            *)
(***************************************************************************)
LEMMA TickStep ==
  ASSUME ~Interruptible, ChainInv, NEW c \in Callbacks, TIMER1_COMPA_vect(c)
  PROVE  ChainInv' /\ [List!Next]_Path
<1>1. ChainTypeOK /\ IsPath(Path) /\ OthersInUserCode /\ Top.pc = "user"
  BY DEF ChainInv, TIMER1_COMPA_vect
<1>2. InUserCode \in Context
  BY <1>1, TopIsContext DEF ChainTypeOK
<1>3. \A i \in 1 .. Len(Path) : Path[i] \in registered
  BY <1>1 DEF ChainInv, LinkedIsWanted
<1>4. DOMAIN Path = 1 .. Len(Path)
  BY <1>1 DEF IsPath
<1>5. PICK k \in 1 .. Len(Path) : Path[k] = c
  BY <1>4 DEF TIMER1_COMPA_vect, OnPath
<1>6. /\ contexts' \in Seq(Context) /\ Len(contexts') >= 1
      /\ Top' = InUserCode
      /\ OthersInUserCode'
  <2>1. contexts' = Append(contexts, InUserCode)
    BY DEF TIMER1_COMPA_vect
  <2>2. \A i \in 1 .. Len(contexts) : contexts[i].pc = "user"
    BY <1>1 DEF OthersInUserCode, Top, ChainTypeOK
  <2> QED
    BY <1>1, <1>2, <2>1, <2>2 DEF ChainTypeOK, Top, OthersInUserCode
<1>7. CASE recurring[c]
  <2>1. UNCHANGED <<chain, next, registered>> /\ UNCHANGED recurring
    BY <1>7 DEF TIMER1_COMPA_vect
  <2>2. IsPath(Path)' /\ Path' = Path
    BY <1>1, <2>1, Kept
  <2>3. ChainTypeOK'
    BY <1>1, <1>6, <2>1 DEF ChainTypeOK
  <2>4. ChainInv'
    BY <1>3, <1>6, <2>1, <2>2, <2>3, InvInUserCode DEF InUserCode
  <2> QED
    BY <2>2, <2>4
<1>8. CASE ~recurring[c]
  <2>1. Unlink(c) /\ registered' = registered \ {c} /\ recurring' = recurring
    BY <1>8 DEF TIMER1_COMPA_vect
  <2>2. \A i \in DOMAIN Path : Path[i] = c <=> i = k
    BY <1>1, <1>4, <1>5 DEF IsPath
  <2>3. (CHOOSE i \in DOMAIN Path : Path[i] = c) = k
    BY <1>4, <1>5, <2>2
  <2>4. Predecessor(c) = Path[k - 1]
    BY <2>3 DEF Predecessor
  <2>5. next[c] = Links(Path, k)
    BY <1>1, <1>5 DEF IsPath
  <2>6. chain = c <=> k = 1
    <3>1. chain = Path[1] /\ 1 \in 1 .. Len(Path)
      BY <1>1, <1>5 DEF IsPath, Links
    <3> QED
      BY <1>4, <2>2, <3>1
  <2>7. \/ k = 1 /\ chain' = Links(Path, 1) /\ next' = next
        \/ k > 1 /\ chain' = chain /\ next' = [next EXCEPT ![Path[k - 1]] = Links(Path, k)]
    BY <2>1, <2>4, <2>5, <2>6 DEF Unlink
  <2>8. IsPath(Path)' /\ Path' = List!Without(Path, k)
    BY <1>1, <2>7, Unlinked DEF ChainTypeOK
  <2>9. ChainTypeOK'
    <3>1. Links(Path, k) \in Pointer /\ Links(Path, 1) \in Pointer
      BY <1>1 DEF IsPath, Links, Pointer
    <3>2. chain' \in Pointer /\ next' \in [Callbacks -> Pointer]
      BY <1>1, <2>7, <3>1 DEF ChainTypeOK
    <3> QED
      BY <1>1, <1>6, <2>1, <3>2 DEF ChainTypeOK
  <2>10. \A j \in 1 .. Len(Path') : Path'[j] \in registered'
    <3> TAKE j \in 1 .. Len(Path')
    <3>1. PICK i \in 1 .. Len(Path) : Path'[j] = Path[i] /\ Path'[j] # Path[k]
      BY <1>1, <2>8, WithoutMembers
    <3> QED
      BY <1>3, <1>5, <2>1, <3>1
  <2>11. ChainInv'
    BY <1>6, <2>8, <2>9, <2>10, InvInUserCode DEF InUserCode
  <2>12. List!Remove(c)
    BY <1>4, <1>5, <2>8 DEF List!Remove
  <2> QED
    BY <2>11, <2>12 DEF List!Next
<1> QED
  BY <1>7, <1>8

(***************************************************************************)
(* A callback that returns leaves the list alone.                          *)
(***************************************************************************)
LEMMA ReturnStep ==
  ASSUME ChainInv, CallbackReturns
  PROVE  ChainInv' /\ Path' = Path
<1>1. ChainTypeOK /\ IsPath(Path) /\ OthersInUserCode /\ Top.pc = "user"
  BY DEF ChainInv, CallbackReturns
<1>2. \A i \in 1 .. Len(Path) : Path[i] \in registered
  BY <1>1 DEF ChainInv, LinkedIsWanted
<1>3. IsPath(Path)' /\ Path' = Path
  BY <1>1, Kept DEF CallbackReturns
<1>4. /\ contexts' \in Seq(Context) /\ Len(contexts') = Len(contexts) - 1
      /\ Len(contexts') >= 1
      /\ \A i \in 1 .. Len(contexts') : contexts'[i] = contexts[i]
  BY <1>1 DEF ChainTypeOK, CallbackReturns
<1>5. OthersInUserCode' /\ Top'.pc = "user"
  BY <1>1, <1>4 DEF OthersInUserCode, Top
<1>6. ChainTypeOK'
  BY <1>1, <1>4 DEF ChainTypeOK, CallbackReturns
<1> QED
  BY <1>2, <1>3, <1>5, <1>6, InvInUserCode DEF CallbackReturns

(***************************************************************************)
(* timer1_clock_init forgets every element.                                *)
(***************************************************************************)
LEMMA ClockInitStep ==
  ASSUME ChainInv, timer1_clock_init
  PROVE  ChainInv' /\ [List!Next]_Path
<1>1. ChainTypeOK /\ OthersInUserCode /\ Top.pc = "user"
  BY DEF ChainInv, timer1_clock_init
<1>2. IsPath(<<>>)'
  BY DEF timer1_clock_init, IsPath, Links
<1>3. IsPath(Path)' /\ Path' = <<>>
  BY <1>2, NewPathIs
<1>4. ChainTypeOK' /\ OthersInUserCode' /\ Top'.pc = "user"
  BY <1>1 DEF ChainTypeOK, OthersInUserCode, Top, Pointer, timer1_clock_init
<1>5. ChainInv'
  BY <1>3, <1>4, InvInUserCode
<1> QED
  BY <1>3, <1>5 DEF List!Next, List!Clear

(***************************************************************************)
(* Every step keeps the invariant and is a step of the abstract list.      *)
(***************************************************************************)
LEMMA ChainStep ==
  ASSUME ~Interruptible, ChainInv, [Next]_vars
  PROVE  ChainInv' /\ [List!Next]_Path
<1>1. ASSUME NEW c \in Callbacks, NEW rec \in BOOLEAN, timer1_clock_register_callback(c, rec)
      PROVE  ChainInv' /\ [List!Next]_Path
  BY <1>1, RegisterStep
<1>2. ASSUME NEW c \in Callbacks, CallUnregister(c)
      PROVE  ChainInv' /\ [List!Next]_Path
  BY <1>2, CallStep
<1>3. ASSUME NEW c \in Callbacks, TIMER1_COMPA_vect(c)
      PROVE  ChainInv' /\ [List!Next]_Path
  BY <1>3, TickStep
<1>4. CASE timer1_clock_unregister_callback
  BY <1>4, ReadChainStep, ReadFirstStep, ScanStep, WriteStep DEF timer1_clock_unregister_callback
<1>5. CASE CallbackReturns
  BY <1>5, ReturnStep
<1>6. CASE timer1_clock_init
  BY <1>6, ClockInitStep
<1>7. CASE UNCHANGED vars
  <2>1. UNCHANGED <<chain, next>> /\ UNCHANGED <<recurring, contexts, registered>>
    BY <1>7 DEF vars
  <2>2. IsPath(Path)' /\ Path' = Path
    BY <2>1, Kept DEF ChainInv
  <2>3. Top' = Top /\ \A k : Links(Path, k)' = Links(Path, k)
    BY <2>1, <2>2 DEF Top, Links
  <2>4. ChainTypeOK' /\ OthersInUserCode' /\ LinkedIsWanted'
    BY <2>1, <2>2, <2>3 DEF ChainInv, ChainTypeOK, OthersInUserCode, LinkedIsWanted
  <2>5. LocalsFit'
    BY <2>1, <2>2, <2>3 DEF ChainInv, LocalsFit
  <2> QED
    BY <2>2, <2>4, <2>5 DEF ChainInv
<1> QED
  BY <1>1, <1>2, <1>3, <1>4, <1>5, <1>6, <1>7 DEF Next

(***************************************************************************)
(* With interrupts off across unregister, a callback that unregister has   *)
(* removed or that has expired is not in the list until it is registered   *)
(* again, for any number of structs and any nesting of callbacks.          *)
(***************************************************************************)
THEOREM RemovedCorrect == ~Interruptible => (Spec => []RemovedStaysOut)
<1> SUFFICES ASSUME ~Interruptible PROVE Spec => []RemovedStaysOut
  OBVIOUS
<1>1. Init => ChainInv
  BY InitInv
<1>2. ChainInv /\ [Next]_vars => ChainInv'
  BY ChainStep
<1>3. ChainInv => RemovedStaysOut
  <2> SUFFICES ASSUME ChainInv, NEW c \in Callbacks \ registered, ~BeingUnregistered(c)
               PROVE  c \notin OnPath
    BY DEF RemovedStaysOut
  <2>1. DOMAIN Path = 1 .. Len(Path)
    BY DEF ChainInv, IsPath
  <2>2. Len(contexts) \in DOMAIN contexts
    BY DEF ChainInv, ChainTypeOK
  <2>3. ~(Top.pc # "user" /\ Top.target = c)
    BY <2>2 DEF BeingUnregistered, Top
  <2> QED
    BY <2>1, <2>3 DEF ChainInv, LinkedIsWanted, OnPath
<1> QED
  BY <1>1, <1>2, <1>3, PTL DEF Spec

(***************************************************************************)
(* With interrupts off across unregister, the pointer operations implement *)
(* the list: every step appends one element that is not in it, removes     *)
(* one, empties it or leaves it alone, and keeps the order of the rest.    *)
(***************************************************************************)
THEOREM Refinement == ~Interruptible => (Spec => ImplementsList)
<1> SUFFICES ASSUME ~Interruptible PROVE Spec => ImplementsList
  OBVIOUS
<1>1. Init => ChainInv /\ List!Init
  BY InitInv DEF List!Init
<1>2. ChainInv /\ [Next]_vars => ChainInv' /\ [List!Next]_Path
  BY ChainStep
<1> QED
  BY <1>1, <1>2, PTL DEF Spec, ImplementsList, List!Spec
=============================================================================
