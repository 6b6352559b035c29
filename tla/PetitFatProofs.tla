---------------------------- MODULE PetitFatProofs ----------------------------
(***************************************************************************)
(* Proofs about PetitFat, for every size of a sector, a cluster, a table   *)
(* and a file, and for every table: what is read is the file, a directory  *)
(* is searched in its order, and FR_OK means that all was done.            *)
(***************************************************************************)
EXTENDS PetitFat, TLAPS

-----------------------------------------------------------------------------
(* Division, as the code uses it to find sectors and clusters.             *)

\* A number written as a multiple and a rest has them as quotient and remainder.
LEMMA DivMod ==
  ASSUME NEW q \in Nat, NEW b \in Nat \ {0}, NEW r \in 0 .. b - 1
  PROVE  (q * b + r) \div b = q /\ (q * b + r) % b = r
  OBVIOUS

\* Every number is the multiple and the rest that division finds.
LEMMA Split ==
  ASSUME NEW a \in Nat, NEW b \in Nat \ {0}
  PROVE  /\ a \div b \in Nat /\ a % b \in 0 .. b - 1
         /\ a = (a \div b) * b + (a % b)
<1> DEFINE q == a \div b
           r == a - q * b
<1>1. q \in Nat /\ q * b <= a /\ a < q * b + b
  OBVIOUS
<1>2. r \in 0 .. b - 1 /\ a = q * b + r
  BY <1>1
<1>3. a % b = r
  BY <1>1, <1>2, DivMod
<1> HIDE DEF r
<1> QED BY <1>1, <1>2, <1>3

\* The quotient and the remainder of the number before.
LEMMA Before ==
  ASSUME NEW a \in Nat \ {0}, NEW b \in Nat \ {0}
  PROVE  /\ a % b = 0 => a \div b \in Nat \ {0} /\ (a - 1) \div b = a \div b - 1
         /\ a % b # 0 => (a - 1) \div b = a \div b /\ (a - 1) % b = (a % b) - 1
<1> DEFINE q == a \div b
           r == a % b
<1>1. q \in Nat /\ r \in 0 .. b - 1 /\ a = q * b + r
  BY Split
<1>2. ASSUME r = 0
      PROVE  q \in Nat \ {0} /\ (a - 1) \div b = q - 1
  <2> HIDE DEF q, r
  <2>1. q # 0 /\ q - 1 \in Nat /\ b - 1 \in 0 .. b - 1
    BY <1>1, <1>2
  <2>2. a - 1 = (q - 1) * b + (b - 1)
    BY <1>1, <1>2
  <2> QED BY <1>1, <2>1, <2>2, DivMod
<1>3. ASSUME r # 0
      PROVE  (a - 1) \div b = q /\ (a - 1) % b = r - 1
  <2> HIDE DEF q, r
  <2>1. r - 1 \in 0 .. b - 1 /\ a - 1 = q * b + (r - 1)
    BY <1>1, <1>3
  <2> QED BY <1>1, <2>1, DivMod
<1> QED BY <1>2, <1>3

\* Going on within a sector does not change its number.
LEMMA Within ==
  ASSUME NEW a \in Nat, NEW b \in Nat \ {0}, NEW n \in Nat \ {0}, n <= b - (a % b)
  PROVE  (a + n - 1) \div b = a \div b
<1> DEFINE q == a \div b
           r == a % b
<1>1. q \in Nat /\ r \in 0 .. b - 1 /\ a = q * b + r
  BY Split
<1> HIDE DEF q, r
<1>2. r + n - 1 \in 0 .. b - 1 /\ a + n - 1 = q * b + (r + n - 1)
  BY <1>1 DEF r
<1>3. (a + n - 1) \div b = q
  BY <1>1, <1>2, DivMod
<1> QED BY <1>3 DEF q

\* The cluster of a byte, by its sector or at once.
LEMMA DivDiv ==
  ASSUME NEW a \in Nat, NEW b \in Nat \ {0}, NEW c \in Nat \ {0}
  PROVE  (a \div b) \div c = a \div (c * b)
<1> DEFINE q == a \div b
           r == a % b
           k == q \div c
           s == q % c
<1>1. q \in Nat /\ r \in 0 .. b - 1 /\ a = q * b + r
  BY Split
<1>2. k \in Nat /\ s \in 0 .. c - 1 /\ q = k * c + s
  BY <1>1, Split
<1> HIDE DEF q, r, k, s
<1>3. s * b \in Nat /\ s * b <= (c - 1) * b /\ (c - 1) * b = c * b - b
  BY <1>2
<1>4. c * b \in Nat \ {0}
  OBVIOUS
<1>5. s * b + r \in 0 .. (c * b) - 1
  BY <1>1, <1>3, <1>4
<1>6. a = k * (c * b) + (s * b + r)
  BY <1>1, <1>2
<1>7. a \div (c * b) = k
  BY <1>2, <1>4, <1>5, <1>6, DivMod
<1> QED BY <1>7 DEF k, q

-----------------------------------------------------------------------------
(* The FAT12 table.                                                        *)

\* The constants, one by one.
LEMMA Sizes ==
  /\ SectorSize \in Nat \ {0} /\ DirPerSect \in Nat \ {0} /\ Nibble \in Nat \ {0}
  /\ MaxIndex \in Nat \ {0} /\ n_fatent \in Nat \ {0, 1} /\ n_rootdir \in Nat /\ MaxSize \in Nat
  BY FatAssumption

\* A link is a number.
LEMMA LinksAreNumbers == Links \subseteq Nat
<1>1. \A n \in Nat : 0 .. n - 1 \subseteq Nat
  OBVIOUS
<1>2. Nibble * Nibble * Nibble \in Nat
  BY Sizes
<1> QED BY <1>1, <1>2, FatAssumption

\* Three nibbles hold a link.
LEMMA ThreeNibbles ==
  ASSUME NEW N \in Nat \ {0}, NEW l \in 0 .. N * N * N - 1
  PROVE  /\ l % N \in 0 .. N - 1 /\ (l \div N) % N \in 0 .. N - 1
         /\ l \div (N * N) \in 0 .. N - 1
         /\ l = (l % N) + N * ((l \div N) % N) + N * N * (l \div (N * N))
<1> DEFINE a == l \div N
           x == l % N
           y == a % N
           z == a \div N
<1>1. l \in Nat
  OBVIOUS
<1>2. a \in Nat /\ x \in 0 .. N - 1 /\ l = a * N + x
  BY <1>1, Split
<1>3. z \in Nat /\ y \in 0 .. N - 1 /\ a = z * N + y
  BY <1>2, Split
<1>4. z = l \div (N * N)
  BY <1>1, DivDiv
<1> HIDE DEF a, x, y, z
<1>5. l = z * (N * N) + (N * y + x)
  BY <1>2, <1>3
<1>6. z < N
  <2> SUFFICES ASSUME z >= N
               PROVE  FALSE
    BY <1>3
  <2>1. z * (N * N) >= N * (N * N)
    BY <1>3
  <2> QED BY <1>2, <1>3, <1>5, <2>1
<1>7. l = x + N * y + N * N * z
  BY <1>2, <1>3, <1>5
<1> QED BY <1>2, <1>3, <1>4, <1>6, <1>7 DEF x, y, a

\* What FatNibble takes out of the table is a nibble.
LEMMA NibbleRange ==
  ASSUME fat \in [Clusters -> Links], NEW i \in Nat
  PROVE  FatNibble(i) \in 0 .. Nibble - 1
<1> DEFINE l == IF i \div 3 \in Clusters THEN fat[i \div 3] ELSE 0
<1>1. l \in 0 .. Nibble * Nibble * Nibble - 1
  <2>1. Nibble * Nibble * Nibble \in Nat \ {0}
    BY Sizes
  <2>2. CASE i \div 3 \in Clusters
    BY <2>2, FatAssumption
  <2>3. CASE i \div 3 \notin Clusters
    BY <2>1, <2>3
  <2> QED BY <2>2, <2>3
<1>2. /\ l % Nibble \in 0 .. Nibble - 1 /\ (l \div Nibble) % Nibble \in 0 .. Nibble - 1
      /\ l \div (Nibble * Nibble) \in 0 .. Nibble - 1
  <2> HIDE DEF l
  <2> QED BY <1>1, Sizes, ThreeNibbles
<1> QED BY <1>2 DEF FatNibble

\* The three nibbles of a cluster's entry make up its link.
LEMMA NibblesOfEntry ==
  ASSUME fat \in [Clusters -> Links], NEW c \in Clusters
  PROVE  /\ fat[c] \in 0 .. Nibble * Nibble * Nibble - 1
         /\ fat[c] = FatNibble(3 * c) + Nibble * FatNibble(3 * c + 1)
                      + Nibble * Nibble * FatNibble(3 * c + 2)
<1> DEFINE l == fat[c]
<1>1. c \in Nat
  BY Sizes DEF Clusters
<1>2. l \in 0 .. Nibble * Nibble * Nibble - 1
  BY FatAssumption
<1>3. l = (l % Nibble) + Nibble * ((l \div Nibble) % Nibble) + Nibble * Nibble * (l \div (Nibble * Nibble))
  <2> HIDE DEF l
  <2> QED BY <1>2, Sizes, ThreeNibbles
<1>4. /\ (3 * c) \div 3 = c /\ (3 * c) % 3 = 0
      /\ (3 * c + 1) \div 3 = c /\ (3 * c + 1) % 3 = 1
      /\ (3 * c + 2) \div 3 = c /\ (3 * c + 2) % 3 = 2
  BY <1>1
<1>5. /\ FatNibble(3 * c) = l % Nibble
      /\ FatNibble(3 * c + 1) = (l \div Nibble) % Nibble
      /\ FatNibble(3 * c + 2) = l \div (Nibble * Nibble)
  <2>1. 1 # 0 /\ 2 # 0 /\ 2 # 1
    OBVIOUS
  <2> QED BY <1>4, <2>1, Zenon DEF FatNibble
<1> QED BY <1>2, <1>3, <1>5

\* get_fat's two bytes are the one at bc and the next, in the same sector or not.
LEMMA TwoBytes ==
  ASSUME NEW bc \in Nat
  PROVE  LET sect == bc \div SectorSize
             ofs == bc % SectorSize
         IN  /\ FatByte(sect, ofs) = FatNibble(2 * bc) + Nibble * FatNibble(2 * bc + 1)
             /\ (IF ofs # SectorSize - 1 THEN FatByte(sect, ofs + 1) ELSE FatByte(sect + 1, 0))
                  = FatNibble(2 * bc + 2) + Nibble * FatNibble(2 * bc + 3)
<1> DEFINE q == bc \div SectorSize
           r == bc % SectorSize
<1>1. q \in Nat /\ r \in 0 .. SectorSize - 1 /\ bc = q * SectorSize + r
  BY Sizes, Split
<1> HIDE DEF q, r
<1>2. r = SectorSize - 1 => (q + 1) * SectorSize + 0 = bc + 1
  BY <1>1, Sizes
<1>3. r # SectorSize - 1 => q * SectorSize + (r + 1) = bc + 1
  BY <1>1, Sizes
<1>4. 2 * (bc + 1) = 2 * bc + 2 /\ 2 * (bc + 1) + 1 = 2 * bc + 3
  OBVIOUS
<1>5. FatByte(q, r) = FatNibble(2 * bc) + Nibble * FatNibble(2 * bc + 1)
  BY <1>1, Zenon DEF FatByte
<1>6. (IF r # SectorSize - 1 THEN FatByte(q, r + 1) ELSE FatByte(q + 1, 0))
        = FatNibble(2 * bc + 2) + Nibble * FatNibble(2 * bc + 3)
  <2>1. CASE r = SectorSize - 1
    <3>1. FatByte(q + 1, 0) = FatNibble(2 * (bc + 1)) + Nibble * FatNibble(2 * (bc + 1) + 1)
      BY <1>2, <2>1, Zenon DEF FatByte
    <3> QED BY <1>4, <2>1, <3>1, Zenon
  <2>2. CASE r # SectorSize - 1
    <3>1. FatByte(q, r + 1) = FatNibble(2 * (bc + 1)) + Nibble * FatNibble(2 * (bc + 1) + 1)
      BY <1>3, <2>2, Zenon DEF FatByte
    <3> QED BY <1>4, <2>2, <3>1, Zenon
  <2> QED BY <2>1, <2>2
<1> QED BY <1>5, <1>6 DEF q, r

\* get_fat reads the link of every cluster, and 1 for what is not a cluster.
LEMMA Decoded ==
  ASSUME fat \in [Clusters -> Links], NEW c \in Nat
  PROVE  LinkOf(c) = IF c \in Clusters THEN fat[c] ELSE 1
<1>1. CASE c \notin Clusters
  BY <1>1, Sizes DEF LinkOf, Clusters
<1>2. CASE c \in Clusters
  <2> DEFINE bc == c + c \div 2
             n(i) == FatNibble(2 * bc + i)
             wc == (FatNibble(2 * bc) + Nibble * n(1)) + Nibble * Nibble * (n(2) + Nibble * n(3))
             cube == Nibble * Nibble * Nibble
  <2>1. bc \in Nat
    OBVIOUS
  <2>2. LinkOf(c) = IF c % 2 = 1 THEN wc \div Nibble ELSE wc % cube
    <3> DEFINE sect == bc \div SectorSize
               ofs == bc % SectorSize
    <3>1. ~(c < 2 \/ c >= n_fatent)
      BY <1>2, Sizes DEF Clusters
    <3>2. /\ FatByte(sect, ofs) = FatNibble(2 * bc) + Nibble * n(1)
          /\ (IF ofs # SectorSize - 1 THEN FatByte(sect, ofs + 1) ELSE FatByte(sect + 1, 0))
               = n(2) + Nibble * n(3)
      BY <2>1, TwoBytes
    <3> QED BY <3>1, <3>2, Zenon DEF LinkOf
  <2>3. \A i \in Nat : FatNibble(i) \in 0 .. Nibble - 1
    BY NibbleRange
  <2>4. /\ fat[c] \in 0 .. cube - 1
        /\ fat[c] = FatNibble(3 * c) + Nibble * FatNibble(3 * c + 1)
                     + Nibble * Nibble * FatNibble(3 * c + 2)
    BY <1>2, NibblesOfEntry
  <2>5. CASE c % 2 = 0
    <3>1. 2 * bc = 3 * c
      BY <2>5
    <3> DEFINE x == FatNibble(3 * c)
               y == FatNibble(3 * c + 1)
               z == FatNibble(3 * c + 2)
               u == FatNibble(3 * c + 3)
    <3>2. x \in Nat /\ y \in Nat /\ z \in Nat /\ u \in Nat
      BY <2>3, Sizes
    <3>3. wc = (x + Nibble * y) + Nibble * Nibble * (z + Nibble * u)
      BY <3>1, Zenon
    <3>4. fat[c] = x + Nibble * y + Nibble * Nibble * z
      BY <2>4
    <3> HIDE DEF x, y, z, u, wc
    <3>5. wc = u * cube + fat[c]
      BY <3>2, <3>3, <3>4, Sizes
    <3>6. cube \in Nat \ {0}
      BY Sizes
    <3>7. wc % cube = fat[c]
      <4> HIDE DEF cube
      <4> QED BY <2>4, <3>2, <3>5, <3>6, DivMod
    <3> QED BY <1>2, <2>2, <2>5, <3>7
  <2>6. CASE c % 2 = 1
    <3>1. 2 * bc = 3 * c - 1 /\ 2 * bc + 1 = 3 * c /\ 2 * bc + 2 = 3 * c + 1 /\ 2 * bc + 3 = 3 * c + 2
      BY <2>6
    <3> DEFINE x == FatNibble(3 * c)
               y == FatNibble(3 * c + 1)
               z == FatNibble(3 * c + 2)
               u == FatNibble(2 * bc)
    <3>2. x \in Nat /\ y \in Nat /\ z \in Nat /\ u \in 0 .. Nibble - 1
      BY <2>1, <2>3, Sizes
    <3>3. wc = (u + Nibble * x) + Nibble * Nibble * (y + Nibble * z)
      BY <3>1, Zenon
    <3>4. fat[c] = x + Nibble * y + Nibble * Nibble * z
      BY <2>4
    <3> HIDE DEF x, y, z, u, wc
    <3>5. wc = fat[c] * Nibble + u
      BY <3>2, <3>3, <3>4, Sizes
    <3>6. wc \div Nibble = fat[c]
      <4>1. fat[c] \in Nat
        BY <2>4
      <4> QED BY <3>2, <3>5, <4>1, Sizes, DivMod
    <3> QED BY <1>2, <2>2, <2>6, <3>6
  <2> QED BY <2>5, <2>6
<1> QED BY <1>1, <1>2

-----------------------------------------------------------------------------
(***************************************************************************)
(* The inductive invariant.  Path and Place are Chain and clust2sect with  *)
(* the disk as a parameter.  Going is what a call still owes.  InFile says *)
(* which cluster of the file curr_clust is: the one of the last byte read, *)
(* so also of the next one unless that starts a cluster; and that dsect is *)
(* the sector of the next byte unless that starts a sector.  During a seek *)
(* the pointer is where the current cluster starts.  InDir is the same for *)
(* the entry a search looks at.                                            *)
(***************************************************************************)
Path(f, start, k, c) ==
  \E p \in [0 .. k -> Clusters] :
    p[0] = start /\ p[k] = c /\ \A i \in 0 .. k - 1 : p[i + 1] = f[p[i]]

Place(size, c) == (c - 2) * size + database

Sectors(size) == 0 .. database + (n_fatent - 2) * size - 1

Types ==
  /\ fat \in [Clusters -> Links] /\ csize \in Csizes
  /\ FatFs \in BOOLEAN /\ flag \in BOOLEAN
  /\ org_clust \in Nat /\ curr_clust \in Nat /\ fsize \in 0 .. MaxSize /\ fptr \in Nat
  /\ dsect \in Sectors(csize)
  /\ call \in [op : {"none", "find", "read", "seek"}, left : Nat, goal : Nat]
  /\ dj \in [sclust : Nat, clust : Nat, index : 0 .. MaxIndex - 1, sect : Nat]

Going ==
  /\ fptr <= fsize
  /\ call.op \in {"read", "seek"} => fptr + call.left = call.goal /\ call.goal <= fsize
  /\ call.op = "seek" => call.left > 0

AtByte(f, size, org, ptr, curr, ds) ==
  LET n == (ptr - 1) \div SectorSize
  IN  /\ Path(f, org, n \div size, curr)
      /\ ptr % SectorSize # 0 => ds = Place(size, curr) + (n % size)

AtCluster(f, size, org, ptr, curr) ==
  \E k \in Nat : ptr = k * (size * SectorSize) /\ (curr \in Clusters => Path(f, org, k, curr))

InFile ==
  /\ call.op # "seek" /\ fptr > 0 => AtByte(fat, csize, org_clust, fptr, curr_clust, dsect)
  /\ call.op = "seek" => AtCluster(fat, csize, org_clust, fptr, curr_clust)

AtEntry(f, size, d) ==
  LET n == d.index \div DirPerSect
  IN  IF d.sclust = 0 THEN d.clust = 0 /\ d.sect = dirbase + n
      ELSE Path(f, d.sclust, n \div size, d.clust) /\ d.sect = Place(size, d.clust) + (n % size)

InDir == call.op = "find" => AtEntry(fat, csize, dj)

Inv == Types /\ Going /\ InFile /\ InDir

-----------------------------------------------------------------------------
(* Chains and sectors.                                                     *)

\* A chain has its first cluster.
LEMMA PathStart ==
  ASSUME NEW f, NEW c \in Clusters
  PROVE  Path(f, c, 0, c)
<1> DEFINE p == [i \in 0 .. 0 |-> c]
<1>1. p \in [0 .. 0 -> Clusters] /\ p[0] = c
  OBVIOUS
<1>2. \A i \in 0 .. 0 - 1 : p[i + 1] = f[p[i]]
  OBVIOUS
<1> QED BY <1>1, <1>2 DEF Path

\* A chain goes on with the link of its last cluster.
LEMMA PathOn ==
  ASSUME NEW f, NEW start, NEW k \in Nat, NEW c, Path(f, start, k, c), f[c] \in Clusters
  PROVE  Path(f, start, k + 1, f[c])
<1>1. PICK p \in [0 .. k -> Clusters] :
        p[0] = start /\ p[k] = c /\ \A i \in 0 .. k - 1 : p[i + 1] = f[p[i]]
  BY DEF Path
<1> DEFINE q == [i \in 0 .. k + 1 |-> IF i = k + 1 THEN f[c] ELSE p[i]]
<1>2. q \in [0 .. k + 1 -> Clusters]
  BY <1>1
<1>3. q[0] = start /\ q[k + 1] = f[c]
  BY <1>1
<1>4. ASSUME NEW i \in 0 .. k + 1 - 1
      PROVE  q[i + 1] = f[q[i]]
  <2>1. CASE i = k
    BY <1>1, <2>1
  <2>2. CASE i # k
    BY <1>1, <2>2
  <2> QED BY <2>1, <2>2
<1> HIDE DEF q
<1>5. \E x \in [0 .. k + 1 -> Clusters] :
        x[0] = start /\ x[k + 1] = f[c] /\ \A i \in 0 .. k + 1 - 1 : x[i + 1] = f[x[i]]
  <2>1. WITNESS q \in [0 .. k + 1 -> Clusters]
  <2> QED BY <1>3, <1>4
<1> QED BY <1>5 DEF Path

\* A chain consists of clusters.
LEMMA PathEnd ==
  ASSUME NEW f, NEW start, NEW k \in Nat, NEW c, Path(f, start, k, c)
  PROVE  c \in Clusters
  BY DEF Path

\* clust2sect refuses what is not a cluster.
LEMMA Places ==
  ASSUME NEW c \in Nat, csize \in Csizes
  PROVE  /\ clust2sect(c) = IF c \in Clusters THEN Place(csize, c) ELSE 0
         /\ c \in Clusters => /\ Place(csize, c) \in Nat \ {0}
                              /\ \A i \in 0 .. csize - 1 :
                                   Place(csize, c) + i \in Sectors(csize)
<1>1. csize \in Nat \ {0}
  BY FatAssumption
<1>2. database \in Nat \ {0}
  <2>1. n_rootdir \div DirPerSect \in Nat
    BY Sizes
  <2> QED BY <2>1 DEF database, dirbase
<1>3. clust2sect(c) = IF c \in Clusters THEN Place(csize, c) ELSE 0
  BY Sizes DEF clust2sect, Place, Clusters
<1>4. ASSUME c \in Clusters
      PROVE  /\ Place(csize, c) \in Nat \ {0}
             /\ \A i \in 0 .. csize - 1 :
                  Place(csize, c) + i \in Sectors(csize)
  <2>1. c - 2 \in Nat /\ c - 1 <= n_fatent - 2 /\ n_fatent - 2 \in Nat
    BY <1>4, Sizes DEF Clusters
  <2>2. (c - 2) * csize \in Nat /\ (c - 1) * csize <= (n_fatent - 2) * csize
    BY <1>1, <2>1
  <2>3. (c - 1) * csize = (c - 2) * csize + csize
    BY <1>1, <2>1
  <2>4. (n_fatent - 2) * csize \in Nat
    BY <1>1, <2>1
  <2> QED BY <1>1, <1>2, <2>2, <2>3, <2>4 DEF Place, Sectors
<1> QED BY <1>3, <1>4

\* A place on a path is a sector of the chain.
LEMMA SectorOnPath ==
  ASSUME Types, NEW start, NEW n \in Nat, NEW c \in Nat, Path(fat, start, n \div csize, c)
  PROVE  IsSectorOf(Place(csize, c) + (n % csize), start, n)
<1> DEFINE k == n \div csize
<1>1. PICK p \in [0 .. k -> Clusters] :
        p[0] = start /\ p[k] = c /\ \A i \in 0 .. k - 1 : p[i + 1] = fat[p[i]]
  BY DEF Path
<1>2. p \in Chain(start, k)
  BY <1>1 DEF Chain
<1>3. csize \in Nat \ {0}
  BY FatAssumption DEF Types
<1>4. k \in Nat
  BY <1>3, Split
<1>5. clust2sect(p[k]) = Place(csize, c)
  BY <1>1, <1>4, PathEnd, Places DEF Types
<1> QED BY <1>2, <1>5 DEF IsSectorOf

-----------------------------------------------------------------------------
(* The invariant holds at the start, and the actions keep it.              *)

\* Numbers that occur in every step.
LEMMA Bounds ==
  ASSUME Types
  PROVE  /\ csize \in Nat \ {0} /\ bcs \in Nat \ {0} /\ database \in Nat \ {0}
         /\ 0 \in Sectors(csize)
<1>1. csize \in Nat \ {0}
  BY FatAssumption DEF Types
<1>2. bcs \in Nat \ {0}
  BY <1>1, Sizes DEF bcs
<1>3. n_rootdir \div DirPerSect \in Nat
  BY Sizes
<1>4. database \in Nat \ {0}
  BY <1>3 DEF database, dirbase
<1>5. (n_fatent - 2) * csize \in Nat
  BY <1>1, Sizes
<1> QED BY <1>1, <1>2, <1>4, <1>5 DEF Sectors

\* Before the first call nothing is open.
LEMMA InvInit == Init => Inv
<1> SUFFICES ASSUME Init
             PROVE  Inv
  OBVIOUS
<1>1. csize \in Nat \ {0} /\ n_rootdir \div DirPerSect \in Nat /\ (n_fatent - 2) * csize \in Nat
  BY FatAssumption, Sizes DEF Init
<1>2. 0 \in Sectors(csize)
  BY <1>1 DEF Sectors, database, dirbase
<1>3. call.op = "none" /\ fptr = 0 /\ fsize = 0
  BY DEF Init, NoCall
<1>4. Types
  <2>1. fat \in [Clusters -> Links] /\ csize \in Csizes /\ dsect \in Sectors(csize)
    BY <1>2 DEF Init
  <2>2. FatFs \in BOOLEAN /\ flag \in BOOLEAN
    BY DEF Init
  <2>3. org_clust \in Nat /\ curr_clust \in Nat /\ fsize \in 0 .. MaxSize /\ fptr \in Nat
    BY Sizes DEF Init
  <2>4. /\ call \in [op : {"none", "find", "read", "seek"}, left : Nat, goal : Nat]
        /\ dj \in [sclust : Nat, clust : Nat, index : 0 .. MaxIndex - 1, sect : Nat]
    BY Sizes DEF Init, NoCall, NoDir
  <2> QED BY <2>1, <2>2, <2>3, <2>4, Zenon DEF Types
<1> QED BY <1>3, <1>4 DEF Inv, Going, InFile, InDir

\* What a call leaves when it returns.
LEMMA Finished ==
  ASSUME NEW r, Finish(r)
  PROVE  /\ call'.op = "none" /\ call' \in [op : {"none", "find", "read", "seek"}, left : Nat, goal : Nat]
         /\ dj' \in [sclust : Nat, clust : Nat, index : 0 .. MaxIndex - 1, sect : Nat]
  BY Sizes DEF Finish, NoCall, NoDir

\* What get_fat may return.
LEMMA Fetched ==
  ASSUME Types, NEW c \in Nat, NEW l \in get_fat(c)
  PROVE  /\ l \in Nat
         /\ l > 1 => c \in Clusters /\ l = fat[c]
<1>1. l = LinkOf(c) \/ l = 1
  BY DEF get_fat
<1>2. LinkOf(c) = IF c \in Clusters THEN fat[c] ELSE 1
  BY Decoded DEF Types
<1>3. c \in Clusters => fat[c] \in Nat
  BY LinksAreNumbers DEF Types
<1> QED BY <1>1, <1>2, <1>3

\* pf_mount closes the file, and so does pf_open.
LEMMA MountStep == Inv /\ pf_mount => Inv'
<1> SUFFICES ASSUME Inv, pf_mount
             PROVE  Inv'
  OBVIOUS
<1>1. /\ FatFs' \in BOOLEAN /\ flag' = FALSE /\ org_clust' = 0 /\ fsize' = 0 /\ fptr' = 0
      /\ fat' = fat /\ csize' = csize /\ curr_clust' = curr_clust /\ dsect' = dsect
      /\ dj' = dj /\ call' = call /\ call.op = "none"
  BY DEF pf_mount, Close, disk, NoCall
<1>2. Types'
  <2>1. 0 \in Nat /\ 0 \in 0 .. MaxSize /\ FALSE \in BOOLEAN
    BY Sizes
  <2> QED BY <1>1, <2>1, Zenon DEF Inv, Types
<1> QED BY <1>1, <1>2 DEF Inv, Going, InFile, InDir

\* The start of a search is the first entry of the directory.
LEMMA Rewound ==
  ASSUME Inv, NEW clst \in Nat, NEW segments \in Nat, dir_rewind(clst, segments),
         fat' = fat, csize' = csize
  PROVE  /\ call' \in [op : {"none", "find", "read", "seek"}, left : Nat, goal : Nat]
         /\ dj' \in [sclust : Nat, clust : Nat, index : 0 .. MaxIndex - 1, sect : Nat]
         /\ call'.op \in {"none", "find"} /\ InDir'
<1>1. CASE clst = 1 \/ clst >= n_fatent
  BY <1>1, Finished DEF dir_rewind, InDir
<1>2. CASE ~(clst = 1 \/ clst >= n_fatent)
  <2> DEFINE d == [sclust |-> clst, clust |-> clst, index |-> 0,
                   sect |-> IF clst = 0 THEN dirbase ELSE clust2sect(clst)]
  <2>1. dj' = d /\ call' = [NoCall EXCEPT !.op = "find", !.left = segments]
    BY <1>2 DEF dir_rewind
  <2>2. clst # 0 => clst \in Clusters /\ clust2sect(clst) = Place(csize, clst)
                    /\ Place(csize, clst) \in Nat /\ Place(csize, clst) + 0 = Place(csize, clst)
    <3>1. clst # 0 => clst \in Clusters
      BY <1>2, Sizes DEF Clusters
    <3> QED BY <3>1, Places DEF Inv, Types
  <2>3. csize \in Nat \ {0}
    BY Bounds DEF Inv
  <2>4. 0 \div DirPerSect = 0 /\ 0 \div csize = 0 /\ 0 % csize = 0 /\ dirbase + 0 = dirbase /\ dirbase \in Nat
    BY <2>3, Sizes DEF dirbase
  <2>5. AtEntry(fat, csize, d)
    BY <2>2, <2>4, PathStart DEF AtEntry
  <2>6. d \in [sclust : Nat, clust : Nat, index : 0 .. MaxIndex - 1, sect : Nat]
    BY <2>2, <2>4, Sizes
  <2>7. call' \in [op : {"none", "find", "read", "seek"}, left : Nat, goal : Nat] /\ call'.op = "find"
    BY <2>1 DEF NoCall
  <2> QED BY <2>1, <2>5, <2>6, <2>7 DEF InDir
<1> QED BY <1>1, <1>2

\* pf_open closes the file before, and its search starts at the root directory.
LEMMA OpenStep ==
  ASSUME Inv, NEW segments \in 0 .. MaxDepth, pf_open(segments)
  PROVE  Inv'
<1>1. /\ FatFs' = FatFs /\ flag' = FALSE /\ org_clust' = 0 /\ fsize' = 0 /\ fptr' = 0
      /\ fat' = fat /\ csize' = csize /\ curr_clust' = curr_clust /\ dsect' = dsect
  BY DEF pf_open, Close, disk
<1>2. /\ call' \in [op : {"none", "find", "read", "seek"}, left : Nat, goal : Nat]
      /\ dj' \in [sclust : Nat, clust : Nat, index : 0 .. MaxIndex - 1, sect : Nat]
      /\ call'.op \in {"none", "find"} /\ InDir'
  <2>1. CASE dir_rewind(0, segments)
    BY <1>1, <2>1, Rewound
  <2>2. CASE \E r : Finish(r)
    BY <2>2, Finished DEF InDir
  <2> QED BY <2>1, <2>2 DEF pf_open
<1>3. Types'
  <2>1. 0 \in Nat /\ 0 \in 0 .. MaxSize /\ FALSE \in BOOLEAN
    BY Sizes
  <2> QED BY <1>1, <1>2, <2>1, Zenon DEF Inv, Types
<1> QED BY <1>1, <1>2, <1>3 DEF Inv, Going, InFile

\* A call that returns and leaves the file as it is.
LEMMA Idle ==
  ASSUME Inv, NEW r, Finish(r), UNCHANGED <<flag, file>>, UNCHANGED <<disk, FatFs>>, call.op # "seek"
  PROVE  Inv'
<1>1. /\ FatFs' = FatFs /\ flag' = flag /\ org_clust' = org_clust /\ fsize' = fsize /\ fptr' = fptr
      /\ fat' = fat /\ csize' = csize /\ curr_clust' = curr_clust /\ dsect' = dsect
  BY DEF file, disk
<1>2. Types'
  BY <1>1, Finished, Zenon DEF Inv, Types
<1>3. call'.op = "none"
  BY Finished
<1> QED BY <1>1, <1>2, <1>3 DEF Inv, Going, InFile, InDir

\* A call that fails and closes the file.
LEMMA Aborted ==
  ASSUME Inv, Abort, UNCHANGED <<disk, FatFs>>, curr_clust' \in Nat, dsect' \in Sectors(csize)
  PROVE  Inv'
<1>1. /\ FatFs' = FatFs /\ fat' = fat /\ csize' = csize /\ flag' = FALSE
      /\ org_clust' = 0 /\ fsize' = 0 /\ fptr' = 0 /\ Finish("FR_DISK_ERR")
  BY DEF Abort, Close, disk
<1>2. 0 \in Nat /\ 0 \in 0 .. MaxSize /\ FALSE \in BOOLEAN /\ dsect' \in Sectors(csize')
  BY <1>1, Sizes
<1>3. Types'
  BY <1>1, <1>2, Finished, Zenon DEF Inv, Types
<1>4. call'.op = "none"
  BY <1>1, Finished
<1> QED BY <1>1, <1>3, <1>4 DEF Inv, Going, InFile, InDir

\* A call that is refused changes nothing.
LEMMA NotReadyStep == Inv /\ NotReady /\ UNCHANGED <<disk, FatFs>> => Inv'
<1> SUFFICES ASSUME Inv, NotReady, UNCHANGED <<disk, FatFs>>
             PROVE  Inv'
  OBVIOUS
<1>1. PICK r : call = NoCall /\ Finish(r) /\ UNCHANGED <<flag, file>>
  BY DEF NotReady, Unready
<1> QED BY <1>1, Idle DEF NoCall

\* dir_next goes on to the entry after.
LEMMA NextEntry ==
  ASSUME Inv, call.op = "find", dir_next, fat' = fat, csize' = csize
  PROVE  /\ call' \in [op : {"none", "find", "read", "seek"}, left : Nat, goal : Nat]
         /\ dj' \in [sclust : Nat, clust : Nat, index : 0 .. MaxIndex - 1, sect : Nat]
         /\ call'.op \in {"none", "find"} /\ InDir'
<1> DEFINE i == (dj.index + 1) % MaxIndex
           n == dj.index \div DirPerSect
           m == i \div DirPerSect
           sect == IF i % DirPerSect = 0 THEN dj.sect + 1 ELSE dj.sect
<1>1. CASE \E r : Finish(r)
  BY <1>1, Finished DEF InDir
<1>2. CASE ~ \E r : Finish(r)
  <2>1. /\ call' = call /\ ~EndOfTable(i)
        /\ \/ /\ NewCluster(i)
              /\ \E clst \in get_fat(dj.clust) :
                   /\ ~(clst <= 1) /\ ~(clst >= n_fatent)
                   /\ dj' = [dj EXCEPT !.clust = clst, !.sect = clust2sect(clst), !.index = i]
           \/ /\ ~NewCluster(i)
              /\ dj' = [dj EXCEPT !.sect = sect, !.index = i]
    BY <1>2, Zenon DEF dir_next
  <2>2. /\ dj \in [sclust : Nat, clust : Nat, index : 0 .. MaxIndex - 1, sect : Nat]
        /\ AtEntry(fat, csize, dj) /\ csize \in Nat \ {0}
    BY Bounds DEF Inv, InDir, Types
  <2>3. i = dj.index + 1 /\ i \in 1 .. MaxIndex - 1
    <3>1. dj.index \in 0 .. MaxIndex - 1
      BY <2>2
    <3>2. i # 0
      BY <2>1 DEF EndOfTable
    <3>3. dj.index + 1 # MaxIndex
      BY <3>2, Sizes
    <3> QED BY <3>1, <3>3, Sizes
  <2>4. /\ i % DirPerSect = 0 => m \in Nat \ {0} /\ n = m - 1
        /\ i % DirPerSect # 0 => n = m
    <3>1. i \in Nat \ {0} /\ i - 1 = dj.index
      BY <2>2, <2>3
    <3> HIDE DEF i
    <3> QED BY <3>1, Sizes, Before
  <2>5. m \in Nat /\ i \in 0 .. MaxIndex - 1
    <3> HIDE DEF i
    <3>1. i \in Nat /\ i \in 0 .. MaxIndex - 1
      BY <2>3, Sizes
    <3> QED BY <3>1, Sizes, Split
  <2> HIDE DEF i, n, m
  <2>6. dj'.index = i /\ dj'.sclust = dj.sclust
    BY <2>1, <2>2
  <2>7. AtEntry(fat, csize, dj') /\ dj' \in [sclust : Nat, clust : Nat, index : 0 .. MaxIndex - 1, sect : Nat]
    <3>1. CASE dj.sclust = 0
      <4>1. dj.clust = 0 /\ dj.sect = dirbase + n
        BY <2>2, <3>1 DEF AtEntry, n
      <4>2. dj' = [dj EXCEPT !.sect = sect, !.index = i]
        BY <2>1, <4>1 DEF NewCluster
      <4>3. sect = dirbase + m
        BY <2>4, <2>5, <4>1 DEF dirbase
      <4> HIDE DEF sect
      <4>4. dirbase + m \in Nat
        BY <2>5 DEF dirbase
      <4> QED BY <2>2, <2>5, <3>1, <4>1, <4>2, <4>3, <4>4 DEF AtEntry, m
    <3>2. CASE dj.sclust # 0
      <4>1. /\ Path(fat, dj.sclust, n \div csize, dj.clust)
            /\ dj.sect = Place(csize, dj.clust) + (n % csize)
        BY <2>2, <3>2 DEF AtEntry, n
      <4>2. n \in Nat /\ n \div csize \in Nat /\ n % csize \in Nat
        <5>1. dj.index \in Nat
          BY <2>2
        <5>2. n \in Nat
          BY <5>1, Sizes, Split DEF n
        <5>3. n \div csize \in Nat /\ n % csize \in 0 .. csize - 1
          BY <2>2, <5>2, Split
        <5> QED BY <2>2, <5>2, <5>3
      <4>3. dj.clust \in Clusters /\ dj.clust # 0
        BY <4>1, <4>2, PathEnd DEF Clusters
      <4>4. CASE NewCluster(i)
        <5>1. PICK clst \in get_fat(dj.clust) :
                /\ ~(clst <= 1) /\ ~(clst >= n_fatent)
                /\ dj' = [dj EXCEPT !.clust = clst, !.sect = clust2sect(clst), !.index = i]
          BY <2>1, <4>4
        <5>2. clst \in Nat /\ clst > 1 /\ clst = fat[dj.clust]
          BY <2>2, <5>1, Fetched DEF Inv
        <5>3. clst \in Clusters
          BY <5>1, <5>2, Sizes DEF Clusters
        <5>4. i % DirPerSect = 0 /\ m % csize = 0
          BY <4>4 DEF NewCluster, m
        <5>5. m \in Nat \ {0} /\ n = m - 1
          BY <2>4, <5>4
        <5>6. m \div csize \in Nat \ {0} /\ n \div csize = m \div csize - 1
          BY <2>2, <5>4, <5>5, Before
        <5>7. (n \div csize) + 1 = m \div csize
          BY <4>2, <5>6
        <5>8. Path(fat, dj.sclust, m \div csize, clst)
          BY <4>1, <4>2, <5>2, <5>3, <5>7, PathOn
        <5>9. clust2sect(clst) = Place(csize, clst) + (m % csize) /\ clust2sect(clst) \in Nat
          BY <5>2, <5>3, <5>4, Places DEF Inv, Types
        <5> QED BY <2>2, <2>5, <3>2, <5>1, <5>2, <5>8, <5>9 DEF AtEntry, m
      <4>5. CASE ~NewCluster(i) /\ i % DirPerSect = 0
        <5>1. dj' = [dj EXCEPT !.sect = dj.sect + 1, !.index = i]
          BY <2>1, <4>5
        <5>2. m \in Nat \ {0} /\ n = m - 1 /\ m % csize # 0
          BY <2>4, <4>3, <4>5 DEF NewCluster, m
        <5>3. n \div csize = m \div csize /\ n % csize = (m % csize) - 1
          BY <2>2, <5>2, Before
        <5>4. m % csize \in Nat
          BY <2>2, <5>2, Split
        <5>5. Place(csize, dj.clust) \in Nat
          BY <4>3, Places DEF Inv, Types, Clusters
        <5>6. dj.sect + 1 = Place(csize, dj.clust) + (m % csize)
          BY <4>1, <5>3, <5>4, <5>5
        <5>7. /\ dj' \in [sclust : Nat, clust : Nat, index : 0 .. MaxIndex - 1, sect : Nat]
              /\ dj'.clust = dj.clust /\ dj'.sect = dj.sect + 1
          <6>1. dj.sect + 1 \in Nat
            BY <2>2
          <6> QED BY <2>2, <2>5, <5>1, <6>1
        <5> QED BY <2>6, <3>2, <4>1, <5>3, <5>6, <5>7, Zenon DEF AtEntry, m
      <4>6. CASE ~NewCluster(i) /\ i % DirPerSect # 0
        <5>1. dj' = [dj EXCEPT !.sect = dj.sect, !.index = i]
          BY <2>1, <4>6
        <5> QED BY <2>2, <2>4, <2>5, <3>2, <4>1, <4>6, <5>1 DEF AtEntry, m
      <4> QED BY <4>4, <4>5, <4>6
    <3> QED BY <3>1, <3>2
  <2> QED BY <2>1, <2>7 DEF Inv, InDir, Types
<1> QED BY <1>1, <1>2

\* A turn of dir_find: a return, the next entry, another directory or the file.
LEMMA FindStep == Inv /\ dir_find => Inv'
<1> SUFFICES ASSUME Inv, dir_find
             PROVE  Inv'
  OBVIOUS
<1>1. call.op = "find" /\ UNCHANGED <<disk, FatFs>> /\ fat' = fat /\ csize' = csize /\ FatFs' = FatFs
  BY DEF dir_find, disk
<1>2. CASE \E r : Finish(r) /\ UNCHANGED <<flag, file>>
  BY <1>1, <1>2, Idle
<1>3. CASE /\ UNCHANGED <<flag, file>>
           /\ dir_next \/ \E clst \in Links : call.left > 1 /\ dir_rewind(clst, call.left - 1)
  <2>1. /\ flag' = flag /\ org_clust' = org_clust /\ fsize' = fsize /\ fptr' = fptr
        /\ curr_clust' = curr_clust /\ dsect' = dsect
    BY <1>3 DEF file
  <2>2. /\ call' \in [op : {"none", "find", "read", "seek"}, left : Nat, goal : Nat]
        /\ dj' \in [sclust : Nat, clust : Nat, index : 0 .. MaxIndex - 1, sect : Nat]
        /\ call'.op \in {"none", "find"} /\ InDir'
    <3>1. CASE dir_next
      BY <1>1, <3>1, NextEntry
    <3>2. CASE \E clst \in Links : call.left > 1 /\ dir_rewind(clst, call.left - 1)
      <4>1. PICK clst \in Links : call.left > 1 /\ dir_rewind(clst, call.left - 1)
        BY <3>2
      <4>2. clst \in Nat /\ call.left - 1 \in Nat
        BY <4>1, LinksAreNumbers DEF Inv, Types
      <4> QED BY <1>1, <4>1, <4>2, Rewound
    <3> QED BY <1>3, <3>1, <3>2
  <2>3. Types'
    BY <1>1, <2>1, <2>2, Zenon DEF Inv, Types
  <2> QED BY <1>1, <2>1, <2>2, <2>3 DEF Inv, Going, InFile
<1>4. CASE \E clst \in Links, size \in 0 .. MaxSize : Opened(clst, size)
  <2>1. PICK clst \in Links, size \in 0 .. MaxSize : Opened(clst, size)
    BY <1>4
  <2>2. /\ org_clust' = clst /\ fsize' = size /\ fptr' = 0 /\ flag' = TRUE
        /\ Finish("FR_OK") /\ curr_clust' = curr_clust /\ dsect' = dsect
    BY <2>1 DEF Opened
  <2>3. 0 \in Nat /\ clst \in Nat /\ TRUE \in BOOLEAN /\ 0 <= size
    BY LinksAreNumbers
  <2>4. Types'
    BY <1>1, <2>2, <2>3, Finished, Zenon DEF Inv, Types
  <2>5. call'.op = "none"
    BY <2>2, Finished
  <2> QED BY <2>2, <2>3, <2>4, <2>5 DEF Inv, Going, InFile, InDir
<1> QED BY <1>2, <1>3, <1>4, Zenon DEF dir_find, follow_path

\* pf_read takes what is left of the file at most.
LEMMA ReadStart ==
  ASSUME Inv, NEW btr \in 0 .. MaxSize, pf_read(btr)
  PROVE  Inv'
<1>1. /\ call' = [op |-> "read", left |-> Clipped(btr), goal |-> Least(fptr + btr, fsize)]
      /\ call.op = "none"
      /\ FatFs' = FatFs /\ flag' = flag /\ org_clust' = org_clust /\ fsize' = fsize /\ fptr' = fptr
      /\ fat' = fat /\ csize' = csize /\ curr_clust' = curr_clust /\ dsect' = dsect /\ dj' = dj
  BY DEF pf_read, file, disk, NoCall
<1>2. /\ Clipped(btr) \in Nat /\ Least(fptr + btr, fsize) \in Nat
      /\ fptr + Clipped(btr) = Least(fptr + btr, fsize) /\ Least(fptr + btr, fsize) <= fsize
  BY Sizes DEF Inv, Types, Going, Clipped, Least
<1>3. call' \in [op : {"none", "find", "read", "seek"}, left : Nat, goal : Nat]
  BY <1>1, <1>2
<1>4. Types'
  BY <1>1, <1>3, Zenon DEF Inv, Types
<1> QED BY <1>1, <1>2, <1>4 DEF Inv, Going, InFile, InDir

\* pf_lseek starts where a cluster starts: the current one or the first.
LEMMA SeekStart ==
  ASSUME Inv, NEW to \in 0 .. MaxSize, pf_lseek(to)
  PROVE  Inv'
<1> DEFINE ofs == Least(to, fsize)
           base == IF SeeksOn(ofs) THEN ((fptr - 1) \div bcs) * bcs ELSE 0
<1>1. /\ call.op = "none" /\ FatFs' = FatFs /\ flag' = flag /\ org_clust' = org_clust
      /\ fsize' = fsize /\ fat' = fat /\ csize' = csize /\ dsect' = dsect
  BY DEF pf_lseek, disk, NoCall
<1>2. ofs \in Nat /\ ofs <= fsize
  BY Sizes DEF Inv, Types, Least
<1>3. csize \in Nat \ {0} /\ bcs \in Nat \ {0} /\ bcs = csize * SectorSize
  BY Bounds DEF Inv, bcs
<1>4. CASE ofs = 0 /\ fptr' = 0 /\ Finish("FR_OK") /\ UNCHANGED curr_clust
  <2>1. 0 \in Nat /\ 0 <= fsize
    BY DEF Inv, Types
  <2>2. Types'
    BY <1>1, <1>4, <2>1, Finished, Zenon DEF Inv, Types
  <2>3. call'.op = "none"
    BY <1>4, Finished
  <2> QED BY <1>1, <1>4, <2>1, <2>2, <2>3 DEF Inv, Going, InFile, InDir
<1>5. CASE /\ ofs > 0 /\ fptr' = base
           /\ curr_clust' = IF SeeksOn(ofs) THEN curr_clust ELSE org_clust
           /\ call' = [op |-> "seek", left |-> ofs - base, goal |-> ofs]
           /\ UNCHANGED dj
  <2> HIDE DEF ofs
  <2>1. /\ base \in Nat /\ base < ofs
        /\ \E k \in Nat : base = k * bcs /\ (curr_clust' \in Clusters => Path(fat, org_clust, k, curr_clust'))
    <3>1. CASE SeeksOn(ofs)
      <4> DEFINE k == (fptr - 1) \div bcs
      <4>1. fptr > 0 /\ fptr - 1 \in Nat /\ ofs - 1 \in Nat /\ (ofs - 1) \div bcs >= k
        BY <1>2, <1>5, <3>1 DEF SeeksOn, Inv, Types
      <4>2. k \in Nat /\ base = k * bcs /\ curr_clust' = curr_clust
        BY <1>3, <1>5, <3>1, <4>1, Split
      <4>3. k = ((fptr - 1) \div SectorSize) \div csize
        BY <1>3, <4>1, Sizes, DivDiv
      <4>4. Path(fat, org_clust, k, curr_clust)
        BY <1>1, <4>1, <4>3 DEF Inv, InFile, AtByte
      <4>5. k * bcs < ofs
        <5> DEFINE j == (ofs - 1) \div bcs
                   r == (ofs - 1) % bcs
        <5>1. j \in Nat /\ ofs - 1 = j * bcs + r /\ r \in 0 .. bcs - 1
          BY <1>3, <4>1, Split
        <5>2. j >= k
          BY <4>1
        <5> HIDE DEF j, k, r
        <5>3. k * bcs <= j * bcs
          BY <1>3, <4>2, <5>1, <5>2
        <5> QED BY <1>2, <1>3, <4>2, <5>1, <5>3
      <4> HIDE DEF k, base
      <4> QED BY <1>3, <4>2, <4>4, <4>5
    <3>2. CASE ~SeeksOn(ofs)
      <4>1. base = 0 /\ 0 * bcs = 0 /\ curr_clust' = org_clust
        BY <1>3, <1>5, <3>2
      <4> HIDE DEF base
      <4>2. curr_clust' \in Clusters => Path(fat, org_clust, 0, curr_clust')
        BY <4>1, PathStart
      <4> QED BY <1>5, <4>1, <4>2
    <3> QED BY <3>1, <3>2
  <2> HIDE DEF base
  <2>2. ofs - base \in Nat /\ ofs - base > 0 /\ base + (ofs - base) = ofs /\ base <= fsize
    BY <1>2, <2>1 DEF Inv, Types
  <2>3. call' \in [op : {"none", "find", "read", "seek"}, left : Nat, goal : Nat] /\ call'.op = "seek"
        /\ call'.left = ofs - base /\ call'.goal = ofs
    BY <1>2, <1>5, <2>2
  <2>4. curr_clust' \in Nat /\ dj' = dj /\ fptr' = base
    BY <1>5 DEF Inv, Types
  <2>5. Types'
    BY <1>1, <2>1, <2>3, <2>4, Zenon DEF Inv, Types
  <2>6. AtCluster(fat', csize', org_clust', fptr', curr_clust')
    BY <1>1, <1>3, <2>1, <2>4, Zenon DEF AtCluster
  <2> QED BY <1>1, <1>2, <2>2, <2>3, <2>4, <2>5, <2>6 DEF Inv, Going, InFile, InDir
<1> QED BY <1>4, <1>5 DEF pf_lseek

\* What ReadsTheFile says of a step.
Delivers ==
  fptr' > fptr => /\ IsSectorOf(dsect', org_clust, fptr \div SectorSize)
                  /\ (fptr' - 1) \div SectorSize = fptr \div SectorSize

\* A transfer from the sector of the next byte leaves the pointer in it, or at its end.
LEMMA TransferStep ==
  ASSUME Inv, call.op = "read", call.left > 0, Transfer, UNCHANGED <<disk, FatFs>>,
         curr_clust' \in Nat, Path(fat, org_clust, (fptr \div SectorSize) \div csize, curr_clust'),
         dsect' = Place(csize, curr_clust') + ((fptr \div SectorSize) % csize)
  PROVE  Inv' /\ Delivers
<1> DEFINE n == fptr \div SectorSize
           rcnt == Least(SectorSize - (fptr % SectorSize), call.left)
<1>1. /\ fptr \in Nat /\ csize \in Nat \ {0} /\ fat' = fat /\ csize' = csize /\ FatFs' = FatFs
      /\ call.left \in Nat /\ csize \in Csizes /\ Types
  BY Bounds DEF Inv, Types, disk
<1>2. n \in Nat /\ fptr % SectorSize \in 0 .. SectorSize - 1
  BY <1>1, Sizes, Split
<1>3. n % csize \in 0 .. csize - 1 /\ n \div csize \in Nat
  <2> HIDE DEF n
  <2> QED BY <1>1, <1>2, Split
<1>4. dsect' \in Sectors(csize)
  <2>1. curr_clust' \in Clusters
    BY <1>3, PathEnd
  <2> QED BY <1>1, <1>3, <2>1, Places
<1>5. CASE Abort
  <2>1. fptr' = 0
    BY <1>5 DEF Abort, Close
  <2> QED BY <1>1, <1>4, <1>5, <2>1, Aborted DEF Delivers
<1>6. CASE /\ fptr' = fptr + rcnt /\ call' = [call EXCEPT !.left = @ - rcnt]
           /\ UNCHANGED <<flag, org_clust, fsize, dj, res>>
  <2>1. rcnt \in Nat \ {0} /\ rcnt <= SectorSize - (fptr % SectorSize) /\ rcnt <= call.left
    BY <1>1, <1>2, Sizes DEF Least
  <2> HIDE DEF rcnt
  <2>2. fptr' \in Nat /\ fptr' > 0 /\ fptr' - 1 = fptr + rcnt - 1
    BY <1>1, <1>6, <2>1
  <2>3. (fptr' - 1) \div SectorSize = n
    <3>1. (fptr + rcnt - 1) \div SectorSize = n
      BY <1>1, <2>1, Sizes, Within
    <3> QED BY <2>2, <3>1, Zenon
  <2>4. IsSectorOf(dsect', org_clust, n)
    BY <1>1, <1>2, SectorOnPath
  <2>5. /\ call' \in [op : {"none", "find", "read", "seek"}, left : Nat, goal : Nat]
        /\ call'.op = "read" /\ call'.left = call.left - rcnt /\ call'.goal = call.goal
    BY <1>1, <1>6, <2>1 DEF Types
  <2>6. Types'
    BY <1>1, <1>4, <1>6, <2>2, <2>5, Zenon DEF Types
  <2>7. Going'
    BY <1>1, <1>6, <2>1, <2>2, <2>5 DEF Inv, Going, Types
  <2>8. AtByte(fat', csize', org_clust', fptr', curr_clust', dsect')
    BY <1>1, <1>6, <2>3, Zenon DEF AtByte
  <2>9. InFile' /\ InDir'
    BY <2>5, <2>8 DEF InFile, InDir
  <2> QED BY <2>3, <2>4, <2>6, <2>7, <2>9 DEF Inv, Delivers
<1> QED BY <1>5, <1>6 DEF Transfer

\* pf_read's loop: the cluster and the sector of the next byte are found from the last ones.
LEMMA ReadTurnStep == Inv /\ ReadTurn => Inv' /\ Delivers
<1> SUFFICES ASSUME Inv, ReadTurn
             PROVE  Inv' /\ Delivers
  OBVIOUS
<1> DEFINE n == fptr \div SectorSize
           k == n \div csize
           cs == n % csize
<1>1. /\ call.op = "read" /\ UNCHANGED <<disk, FatFs>> /\ Types /\ fptr \in Nat
      /\ csize \in Nat \ {0} /\ csize \in Csizes /\ curr_clust \in Nat /\ org_clust \in Nat
      /\ dsect \in Sectors(csize)
  BY Bounds DEF Inv, Types, ReadTurn
<1>2. n \in Nat /\ k \in Nat /\ cs \in 0 .. csize - 1
  <2>1. n \in Nat
    BY <1>1, Sizes, Split
  <2> HIDE DEF n
  <2> QED BY <1>1, <2>1, Split
<1>3. fptr > 0 => /\ Path(fat, org_clust, ((fptr - 1) \div SectorSize) \div csize, curr_clust)
                  /\ fptr % SectorSize # 0 =>
                       dsect = Place(csize, curr_clust) + (((fptr - 1) \div SectorSize) % csize)
  BY <1>1 DEF Inv, InFile, AtByte
<1>4. fptr > 0 => /\ fptr % SectorSize = 0 => n \in Nat \ {0} /\ (fptr - 1) \div SectorSize = n - 1
                  /\ fptr % SectorSize # 0 => (fptr - 1) \div SectorSize = n
  <2>1. CASE fptr > 0
    <3>1. fptr \in Nat \ {0}
      BY <1>1, <2>1
    <3> QED BY <3>1, Sizes, Before
  <2> QED BY <2>1
<1>5. ASSUME NEW clst \in Nat, Locate(clst, cs), call.left > 0,
             clst \in Clusters => Path(fat, org_clust, k, clst)
      PROVE  Inv' /\ Delivers
  <2>1. curr_clust' = clst
    BY <1>5 DEF Locate
  <2>2. CASE Abort /\ UNCHANGED dsect
    <3>1. fptr' = 0
      BY <2>2 DEF Abort, Close
    <3> QED BY <1>1, <1>5, <2>1, <2>2, <3>1, Aborted DEF Delivers
  <2>3. CASE clust2sect(clst) # 0 /\ dsect' = clust2sect(clst) + cs /\ Transfer
    <3>1. clst \in Clusters /\ clust2sect(clst) = Place(csize, clst)
      BY <1>1, <2>3, Places
    <3> QED BY <1>1, <1>5, <2>1, <2>3, <3>1, TransferStep
  <2> QED BY <1>5, <2>2, <2>3 DEF Locate
<1>6. CASE call.left = 0 /\ Finish("FR_OK") /\ UNCHANGED <<flag, file>>
  <2>1. fptr' = fptr
    BY <1>6 DEF file
  <2>2. Inv'
    BY <1>1, <1>6, Idle
  <2> QED BY <1>1, <2>1, <2>2 DEF Delivers
<1>7. CASE /\ call.left > 0 /\ fptr % SectorSize = 0 /\ cs = 0
           /\ \E clst \in NextCluster :
                \/ clst <= 1 /\ Abort /\ UNCHANGED <<curr_clust, dsect>>
                \/ clst > 1 /\ Locate(clst, cs)
  <2>1. PICK clst \in NextCluster :
          \/ clst <= 1 /\ Abort /\ UNCHANGED <<curr_clust, dsect>>
          \/ clst > 1 /\ Locate(clst, cs)
    BY <1>7
  <2>2. CASE Abort /\ UNCHANGED <<curr_clust, dsect>>
    <3>1. fptr' = 0
      BY <2>2 DEF Abort, Close
    <3> QED BY <1>1, <2>2, <3>1, Aborted DEF Delivers
  <2>3. CASE clst > 1 /\ Locate(clst, cs)
    <3>1. CASE fptr = 0
      <4>1. clst = org_clust
        BY <2>1, <3>1 DEF NextCluster
      <4>2. k = 0
        BY <1>1, <3>1, Sizes
      <4> HIDE DEF k, cs
      <4>3. clst \in Clusters => Path(fat, org_clust, k, clst)
        BY <4>1, <4>2, PathStart
      <4> QED BY <1>1, <1>5, <1>7, <2>3, <4>1, <4>3
    <3>2. CASE fptr # 0
      <4>1. clst \in Nat /\ clst = fat[curr_clust]
        BY <1>1, <2>1, <2>3, <3>2, Fetched DEF NextCluster
      <4>2. n \in Nat \ {0} /\ (fptr - 1) \div SectorSize = n - 1
        BY <1>1, <1>4, <1>7, <3>2
      <4>3. k \in Nat \ {0} /\ (n - 1) \div csize = k - 1
        <5> HIDE DEF n
        <5> QED BY <1>1, <1>7, <4>2, Before
      <4>4. Path(fat, org_clust, k - 1, curr_clust)
        BY <1>1, <1>3, <3>2, <4>2, <4>3
      <4> HIDE DEF k, cs
      <4>5. k - 1 \in Nat /\ k - 1 + 1 = k
        BY <4>3
      <4>6. clst \in Clusters => Path(fat, org_clust, k, clst)
        BY <4>1, <4>4, <4>5, PathOn
      <4> QED BY <1>5, <1>7, <2>3, <4>1, <4>6
    <3> QED BY <3>1, <3>2
  <2> QED BY <2>1, <2>2, <2>3
<1>8. CASE call.left > 0 /\ fptr % SectorSize = 0 /\ cs # 0 /\ Locate(curr_clust, cs)
  <2>1. fptr # 0
    BY <1>1, <1>8, Sizes
  <2>2. n \in Nat \ {0} /\ (fptr - 1) \div SectorSize = n - 1
    BY <1>1, <1>4, <1>8, <2>1
  <2>3. (n - 1) \div csize = k
    <3> HIDE DEF n
    <3> QED BY <1>1, <1>8, <2>2, Before
  <2>4. Path(fat, org_clust, k, curr_clust)
    BY <1>1, <1>3, <2>1, <2>2, <2>3
  <2> QED BY <1>1, <1>5, <1>8, <2>4
<1>9. CASE call.left > 0 /\ fptr % SectorSize # 0 /\ Transfer /\ UNCHANGED <<curr_clust, dsect>>
  <2>1. fptr # 0
    BY <1>1, <1>9, Sizes
  <2>2. (fptr - 1) \div SectorSize = n
    BY <1>1, <1>4, <1>9, <2>1
  <2>3. Path(fat, org_clust, k, curr_clust) /\ dsect = Place(csize, curr_clust) + cs
    BY <1>1, <1>3, <1>9, <2>1, <2>2
  <2> QED BY <1>1, <1>9, <2>3, TransferStep
<1> QED BY <1>6, <1>7, <1>8, <1>9 DEF ReadTurn

\* pf_lseek's loop goes from cluster to cluster, and its end sets the sector.
LEMMA SeekTurnStep == Inv /\ SeekTurn => Inv'
<1> SUFFICES ASSUME Inv, SeekTurn
             PROVE  Inv'
  OBVIOUS
<1>1. /\ call.op = "seek" /\ UNCHANGED <<disk, FatFs>> /\ fat' = fat /\ csize' = csize /\ FatFs' = FatFs
      /\ Types /\ fptr \in Nat /\ csize \in Nat \ {0} /\ csize \in Csizes /\ bcs \in Nat \ {0}
      /\ bcs = csize * SectorSize
      /\ curr_clust \in Nat /\ dsect \in Sectors(csize) /\ call.left \in Nat /\ call.left > 0
  BY Bounds DEF Inv, Types, Going, SeekTurn, disk, bcs
<1>2. PICK k \in Nat : fptr = k * bcs /\ (curr_clust \in Clusters => Path(fat, org_clust, k, curr_clust))
  BY <1>1 DEF Inv, InFile, AtCluster
<1>3. CASE Abort /\ UNCHANGED <<curr_clust, dsect>>
  BY <1>1, <1>3, Aborted
<1>4. CASE /\ call.left > bcs /\ UNCHANGED dsect
           /\ \E clst \in get_fat(curr_clust) : 1 < clst /\ clst < n_fatent /\ Follow(clst)
  <2>1. PICK clst \in get_fat(curr_clust) : 1 < clst /\ clst < n_fatent /\ Follow(clst)
    BY <1>4
  <2>2. clst \in Nat /\ clst \in Clusters /\ clst = fat[curr_clust] /\ curr_clust \in Clusters
    BY <1>1, <2>1, Fetched, Sizes DEF Clusters
  <2>3. Path(fat, org_clust, k + 1, clst)
    BY <1>2, <2>2, PathOn
  <2>4. fptr + bcs = (k + 1) * bcs /\ k + 1 \in Nat /\ fptr + bcs \in Nat
    BY <1>1, <1>2
  <2>5. /\ curr_clust' = clst /\ fptr' = fptr + bcs /\ call' = [call EXCEPT !.left = @ - bcs]
        /\ flag' = flag /\ org_clust' = org_clust /\ fsize' = fsize /\ dj' = dj /\ dsect' = dsect
    BY <1>4, <2>1 DEF Follow
  <2>6. /\ call' \in [op : {"none", "find", "read", "seek"}, left : Nat, goal : Nat]
        /\ call'.op = "seek" /\ call'.left = call.left - bcs /\ call'.goal = call.goal
    BY <1>1, <1>4, <2>5 DEF Types
  <2>7. Types'
    BY <1>1, <2>2, <2>4, <2>5, <2>6, Zenon DEF Types
  <2>8. Going'
    BY <1>1, <1>4, <2>5, <2>6 DEF Inv, Going, Types
  <2>9. AtCluster(fat', csize', org_clust', fptr', curr_clust')
    BY <1>1, <2>3, <2>4, <2>5, Zenon DEF AtCluster
  <2> QED BY <2>6, <2>7, <2>8, <2>9 DEF Inv, InFile, InDir
<1>5. CASE /\ call.left <= bcs /\ clust2sect(curr_clust) # 0 /\ fptr' = fptr + call.left
           /\ dsect' = clust2sect(curr_clust) + ((fptr' \div SectorSize) % csize)
           /\ Finish("FR_OK") /\ UNCHANGED <<flag, org_clust, fsize>> /\ UNCHANGED curr_clust
  <2> DEFINE n == (fptr' - 1) \div SectorSize
             cs == (fptr' \div SectorSize) % csize
  <2>1. curr_clust \in Clusters /\ clust2sect(curr_clust) = Place(csize, curr_clust)
    BY <1>1, <1>5, Places
  <2>2. /\ fptr' \in Nat \ {0} /\ fptr' - 1 \in Nat
        /\ fptr' - 1 = k * bcs + (call.left - 1) /\ call.left - 1 \in 0 .. bcs - 1
    BY <1>1, <1>2, <1>5
  <2>3. (fptr' - 1) \div bcs = k
    <3>1. (k * bcs + (call.left - 1)) \div bcs = k
      BY <1>1, <2>2, DivMod
    <3> QED BY <2>2, <3>1, Zenon
  <2>4. n \div csize = k
    <3>1. fptr' - 1 \in Nat
      BY ONLY <2>2
    <3>2. n \div csize = (fptr' - 1) \div (csize * SectorSize)
      BY <1>1, <3>1, Sizes, DivDiv
    <3> QED BY <1>1, <2>3, <3>2, Zenon
  <2>5. cs \in 0 .. csize - 1
    <3>1. fptr' \div SectorSize \in Nat
      BY <2>2, Sizes, Split
    <3> QED BY <1>1, <3>1, Split
  <2>6. fptr' % SectorSize # 0 => cs = n % csize
    <3>1. fptr' % SectorSize # 0 => n = fptr' \div SectorSize
      BY <2>2, Sizes, Before
    <3> QED BY <3>1, Zenon
  <2>7. dsect' \in Sectors(csize) /\ dsect' = Place(csize, curr_clust) + cs
    <3> HIDE DEF cs
    <3>1. dsect' = Place(csize, curr_clust) + cs
      BY <1>5, <2>1 DEF cs
    <3> QED BY <1>1, <2>1, <2>5, <3>1, Places
  <2>8. /\ curr_clust' = curr_clust /\ flag' = flag /\ org_clust' = org_clust /\ fsize' = fsize
        /\ call'.op = "none" /\ fptr' \in Nat
    BY <1>5, <2>2, Finished
  <2>9. Types'
    BY <1>1, <1>5, <2>7, <2>8, Finished, Zenon DEF Types
  <2>10. Going'
    BY <1>1, <1>5, <2>8 DEF Inv, Going, Types
  <2>11. Path(fat, org_clust, n \div csize, curr_clust)
    BY <1>2, <2>1, <2>4
  <2>12. AtByte(fat', csize', org_clust', fptr', curr_clust', dsect')
    BY <1>1, <2>6, <2>7, <2>8, <2>11, Zenon DEF AtByte
  <2> QED BY <2>8, <2>9, <2>10, <2>12 DEF Inv, InFile, InDir
<1> QED BY <1>3, <1>4, <1>5 DEF SeekTurn

\* Every step keeps the invariant.
LEMMA InvStep == Inv /\ [Next]_vars => Inv'
<1> SUFFICES ASSUME Inv, [Next]_vars
             PROVE  Inv'
  OBVIOUS
<1>1. CASE Next
  BY <1>1, MountStep, OpenStep, NotReadyStep, ReadStart, SeekStart, FindStep, ReadTurnStep, SeekTurnStep
     DEF Next, Turn
<1>2. CASE UNCHANGED vars
  BY <1>2 DEF vars, disk, file, Inv, Types, Going, InFile, InDir
<1> QED BY <1>1, <1>2

\* So the invariant holds always.
LEMMA Invariance == Spec => []Inv
  BY InvInit, InvStep, PTL DEF Spec

\* While a call runs there are only turns of its own loop.
LEMMA OneCall ==
  ASSUME Next
  PROVE  (call.op = "read" => ReadTurn) /\ (call.op = "seek" => SeekTurn)
<1>1. CASE call = NoCall
  BY <1>1 DEF NoCall
<1>2. CASE call # NoCall
  <2>1. ~pf_mount /\ ~NotReady
    BY <1>2, Zenon DEF pf_mount, NotReady, Unready
  <2>2. \A segments : ~pf_open(segments)
    BY <1>2, Zenon DEF pf_open
  <2>3. \A n : ~pf_read(n) /\ ~pf_lseek(n)
    BY <1>2, Zenon DEF pf_read, pf_lseek
  <2>4. dir_find \/ ReadTurn \/ SeekTurn
    BY <2>1, <2>2, <2>3, Zenon DEF Next, Turn
  <2>5. /\ dir_find => call.op = "find"
        /\ ReadTurn => call.op = "read"
        /\ SeekTurn => call.op = "seek"
    BY Zenon DEF dir_find, ReadTurn, SeekTurn
  <2> QED BY <2>4, <2>5
<1> QED BY <1>1, <1>2

-----------------------------------------------------------------------------
(***************************************************************************)
(* The pointer stays in the file and the cached sector on the disk.        *)
(***************************************************************************)
THEOREM TypeCorrect == Spec => []TypeOK
<1>1. Inv => TypeOK
  <2> SUFFICES ASSUME Inv
               PROVE  TypeOK
    OBVIOUS
  <2>1. fptr \in 0 .. fsize /\ fsize \in 0 .. MaxSize
    BY DEF Inv, Types, Going
  <2>2. dsect \in 0 .. database + (n_fatent - 2) * csize - 1
    BY DEF Inv, Types, Sectors
  <2>3. /\ call.op \in {"none", "find", "read", "seek"} /\ call.left \in Nat
        /\ dj.index \in 0 .. MaxIndex - 1
    BY DEF Inv, Types
  <2> QED BY <2>1, <2>2, <2>3, Zenon DEF Inv, Types, TypeOK
<1> QED BY <1>1, Invariance, PTL

(***************************************************************************)
(* A search looks at the entries of a directory in their order, in the     *)
(* root directory and in a chain of clusters, until dir_next gives up.     *)
(***************************************************************************)
THEOREM SearchCorrect == Spec => []SearchesInOrder
<1>1. Inv => SearchesInOrder
  <2> SUFFICES ASSUME Inv, call.op = "find", dj.sclust # 0
               PROVE  IsSectorOf(dj.sect, dj.sclust, dj.index \div DirPerSect)
    BY DEF SearchesInOrder, Inv, InDir, AtEntry
  <2>1. dj.index \in Nat /\ dj.clust \in Nat
    BY Sizes DEF Inv, Types
  <2>2. dj.index \div DirPerSect \in Nat
    BY <2>1, Sizes, Split
  <2> QED BY <2>1, <2>2, SectorOnPath DEF Inv, InDir, AtEntry
<1> QED BY <1>1, Invariance, PTL

(***************************************************************************)
(* pf_read delivers the bytes of the file, after any sequence of calls,    *)
(* failing ones too, for every sector size, cluster size and FAT12 table.  *)
(***************************************************************************)
THEOREM ReadsCorrect == Spec => ReadsTheFile
<1>1. Inv /\ [Next]_vars
        => [call.op = "read" /\ fptr' > fptr =>
              /\ IsSectorOf(dsect', org_clust, fptr \div SectorSize)
              /\ (fptr' - 1) \div SectorSize = fptr \div SectorSize]_vars
  <2> SUFFICES ASSUME Inv, Next, call.op = "read"
               PROVE  Delivers
    BY DEF Delivers
  <2>1. ReadTurn
    BY OneCall
  <2> QED BY <2>1, ReadTurnStep
<1> QED BY <1>1, Invariance, PTL DEF Spec, ReadsTheFile

(***************************************************************************)
(* FR_OK from pf_read or pf_lseek means that the file pointer has moved to *)
(* where it was asked to, or to the end of the file.                       *)
(***************************************************************************)
THEOREM OkCorrect == Spec => OkIsExact
<1>1. Inv /\ [Next]_vars
        => [call.op \in {"read", "seek"} /\ call' = NoCall /\ res' = "FR_OK" => fptr' = call.goal]_vars
  <2> SUFFICES ASSUME Inv, Next, call.op \in {"read", "seek"}, call' = NoCall, res' = "FR_OK"
               PROVE  fptr' = call.goal
    OBVIOUS
  <2>1. fptr + call.left = call.goal /\ fptr \in Nat /\ call.left \in Nat
    BY DEF Inv, Types, Going
  <2>2. ReadTurn \/ SeekTurn
    BY OneCall
  <2>3. ~Abort
    BY DEF Abort, Finish
  <2>4. CASE ReadTurn
    <3>1. ~Transfer
      BY <2>3, <2>4 DEF Transfer, ReadTurn, NoCall, Inv, Types
    <3>2. call.left = 0 /\ fptr' = fptr
      BY <2>3, <2>4, <3>1 DEF ReadTurn, Locate, file
    <3> QED BY <2>1, <3>2
  <2>5. CASE SeekTurn
    <3>1. \A clst : ~Follow(clst)
      BY <2>5 DEF Follow, SeekTurn, NoCall, Inv, Types
    <3>2. fptr' = fptr + call.left
      BY <2>3, <2>5, <3>1 DEF SeekTurn
    <3> QED BY <2>1, <3>2
  <2> QED BY <2>2, <2>4, <2>5
<1> QED BY <1>1, Invariance, PTL DEF Spec, OkIsExact
=============================================================================
