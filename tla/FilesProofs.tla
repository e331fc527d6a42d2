---------------------------- MODULE FilesProofs ----------------------------
(***************************************************************************)
(* Proofs about the file tree for any set of nodes, names and descriptors  *)
(* and any capacity.                                                       *)
(*                                                                         *)
(* The argument: the tree is kept by each operation on its own (TreeOK is  *)
(* inductive with the types).  For what is read, InvBody says that a file  *)
(* never reaches beyond the capacity of its buffer and that a file without *)
(* a buffer is empty; InvOpen says that, as long as no file is truncated   *)
(* and none removed while open, a descriptor's node is allocated and its   *)
(* offset is within the file, so that a write leaves no gap.               *)
(***************************************************************************)
EXTENDS MCFiles, ListFacts, FiniteSetTheorems

InvShape ==
  /\ DOMAIN node = All /\ DOMAIN kids = All
  /\ DOMAIN size = All /\ DOMAIN cap = All /\ DOMAIN buf = All
  /\ DOMAIN fd = Fds

InvRoot == IsDir(Root)

InvBody ==
  \A n \in Nodes : IsFile(n) => /\ size[n] <= cap[n]
                                /\ buf[n] = Null => size[n] = 0

InvOpen ==
  careful => \A f \in Fds : fd[f] # Closed =>
               Live(fd[f].node) /\ fd[f].off <= size[fd[f].node]

IInv == TypeOK /\ InvShape /\ InvRoot /\ TreeOK /\ InvBody /\ InvOpen /\ NoHeapBytes

----------------------------------------------------------------------------
(* The entry a directory is searched for is one of its entries. *)
LEMMA FoundListed ==
  ASSUME NEW d, kids[d] \in Seq(Nodes), NEW name, finddir(d, name) # Null
  PROVE  finddir(d, name) \in Nodes /\ Contains(kids[d], finddir(d, name))
<1> DEFINE I == {i \in 1 .. Len(kids[d]) : node[kids[d][i]].name = name}
           k == SelectInSeq(kids[d], LAMBDA n : node[n].name = name)
<1>1. Len(kids[d]) \in Nat
  BY LenProperties
<1>2. k = IF I # {} THEN Min(I) ELSE 0
  BY DEF SelectInSeq
<1>3. finddir(d, name) = IF k = 0 THEN Null ELSE kids[d][k]
  BY DEF finddir
<1> HIDE DEF k
<1>4. I # {} /\ k = Min(I)
  BY <1>2, <1>3
<1>5. k \in I
  <2> HIDE DEF I
  <2>1. I \in SUBSET (1 .. Len(kids[d]))
    BY DEF I
  <2> QED BY <1>1, <1>4, <2>1, SearchLemma
<1>6. finddir(d, name) = kids[d][k] /\ k \in 1 .. Len(kids[d])
  BY <1>1, <1>3, <1>5
<1> QED
  BY <1>6, ElementOfSeq DEF Contains

(* The directory of a path is the root or an entry of it. *)
LEMMA DirOfFacts ==
  ASSUME IInv, NEW path \in Paths, DirOf(path) # Null
  PROVE  DirOf(path) \in All /\ Last(path) \in Names /\ kids[DirOf(path)] \in Seq(Nodes)
<1>1. DirOf(path) = Root \/ DirOf(path) = finddir(Root, path[1])
  BY DEF DirOf
<1>2. kids[Root] \in Seq(Nodes)
  BY DEF IInv, TypeOK, All
<1>3. DirOf(path) \in All
  BY <1>1, <1>2, FoundListed DEF All
<1>4. Last(path) \in Names
  BY DEF Paths, Last
<1> QED
  BY <1>3, <1>4 DEF IInv, TypeOK

(* What a path resolves to is an entry of its directory. *)
LEMMA ResolveFacts ==
  ASSUME IInv, NEW path \in Paths, Resolve(path) # Null
  PROVE  /\ DirOf(path) # Null /\ DirOf(path) \in All /\ IsDir(DirOf(path))
         /\ Resolve(path) \in Nodes
         /\ Contains(kids[DirOf(path)], Resolve(path))
         /\ Live(Resolve(path))
<1>1. /\ DirOf(path) # Null /\ IsDir(DirOf(path))
      /\ Resolve(path) = finddir(DirOf(path), Last(path))
  BY DEF Resolve
<1>2. DirOf(path) \in All /\ kids[DirOf(path)] \in Seq(Nodes)
  BY <1>1, DirOfFacts
<1>3. Resolve(path) \in Nodes /\ Contains(kids[DirOf(path)], Resolve(path))
  BY <1>1, <1>2, FoundListed
<1>4. Live(Resolve(path))
  BY <1>2, <1>3 DEF IInv, TreeOK, Contains
<1> QED
  BY <1>1, <1>2, <1>3, <1>4

(* TreeOK in terms of membership, which the steps change item by item. *)
LEMMA TreeFacts ==
  ASSUME IInv
  PROVE  /\ \A n \in Nodes : Live(n) => /\ node[n].parent \in All /\ IsDir(node[n].parent)
                                        /\ Contains(kids[node[n].parent], n)
                                        /\ node[n].kind \in {"file", "dir"}
         /\ \A d \in All, n \in Nodes : Contains(kids[d], n) =>
              IsDir(d) /\ Live(n) /\ node[n].parent = d
         /\ \A d \in All : \A i, j \in 1 .. Len(kids[d]) : kids[d][i] = kids[d][j] => i = j
         /\ \A d \in All : kids[d] \in Seq(Nodes)
<1>1. ASSUME NEW n \in Nodes, Live(n)
      PROVE  node[n].parent \in All /\ node[n].kind \in {"file", "dir"}
  BY <1>1 DEF IInv, TypeOK, Live, NodeRecords, All
<1>2. \A d \in All : kids[d] \in Seq(Nodes)
  BY DEF IInv, TypeOK
<1>3. ASSUME NEW d \in All, NEW i \in 1 .. Len(kids[d]), NEW j \in 1 .. Len(kids[d]),
             kids[d][i] = kids[d][j]
      PROVE  i = j
  <2>1. kids[d][i] \in Nodes
    BY <1>2, ElementOfSeq
  <2> QED BY <1>3, <2>1 DEF IInv, TreeOK
<1>4. ASSUME NEW d \in All, NEW n \in Nodes, Contains(kids[d], n)
      PROVE  IsDir(d) /\ Live(n) /\ node[n].parent = d
  BY <1>4 DEF IInv, TreeOK, Contains
<1>5. ASSUME NEW n \in Nodes, Live(n)
      PROVE  IsDir(node[n].parent) /\ Contains(kids[node[n].parent], n)
  BY <1>5 DEF IInv, TreeOK, Contains
<1> QED
  BY <1>1, <1>2, <1>3, <1>4, <1>5

(* The tree is well formed when the lists of children are. *)
LEMMA TreeByMembers ==
  ASSUME \A n \in Nodes : Live(n) => /\ IsDir(node[n].parent)
                                     /\ Contains(kids[node[n].parent], n),
         \A d \in All, n \in Nodes : Contains(kids[d], n) =>
              IsDir(d) /\ Live(n) /\ node[n].parent = d,
         \A d \in All : \A i, j \in 1 .. Len(kids[d]) : kids[d][i] = kids[d][j] => i = j
  PROVE  TreeOK
BY DEF TreeOK, Contains

(* The invariant holds of the tree kyrofs_init makes. *)
LEMMA InitInv == Init => IInv
<1> SUFFICES ASSUME Init PROVE IInv
  OBVIOUS
<1>1. InvShape
  BY DEF Init, InvShape
<1>2. /\ \A n \in Nodes : ~Live(n)
      /\ InvRoot
      /\ \A d \in All : kids[d] = <<>> /\ 1 .. Len(kids[d]) = {}
  <2>1. \A n \in Nodes : n # Root /\ n \in All
    BY VfsAssumption DEF All
  <2>2. node[Root] = [kind |-> "dir", name |-> Root, parent |-> Root]
    BY DEF Init, All
  <2>3. node[Root] \in NodeRecords
    BY <2>2 DEF NodeRecords, All
  <2>4. InvRoot
    BY <2>2, <2>3, VfsAssumption DEF InvRoot, IsDir, Live
  <2>5. \A d \in All : kids[d] = <<>> /\ 1 .. Len(kids[d]) = {}
    BY EmptySeq DEF Init
  <2> QED BY <2>1, <2>4, <2>5 DEF Init, Live
<1>3. TypeOK
  <2>1. \A n \in All : node[n] = Free \/ node[n] \in NodeRecords
    BY DEF Init, NodeRecords, All
  <2>2. \A n \in All : kids[n] \in Seq(Nodes)
    BY <1>2, EmptySeq
  <2>3. \A n \in All : size[n] \in 0 .. MaxSize /\ cap[n] \in Nat /\ buf[n] = Null
    BY VfsAssumption DEF Init
  <2>4. \A f \in Fds : fd[f] = Closed
    BY DEF Init
  <2>5. page_fault \in BOOLEAN /\ careful \in BOOLEAN
    BY DEF Init
  <2> QED BY <2>1, <2>2, <2>3, <2>4, <2>5 DEF TypeOK
<1>4. TreeOK
  BY <1>2 DEF TreeOK
<1>5. InvBody /\ InvOpen /\ NoHeapBytes
  BY <1>2 DEF Init, InvBody, InvOpen, NoHeapBytes, IsFile
<1> QED
  BY <1>1, <1>2, <1>3, <1>4, <1>5 DEF IInv

----------------------------------------------------------------------------
(* A new node becomes the first entry of its directory. *)
LEMMA CreateTree ==
  ASSUME IInv, NEW n \in Nodes, NEW d \in All, NEW name \in Names, NEW kind \in {"file", "dir"},
         IsDir(d), ~Live(n), kyrofs_create_node(n, d, name, kind)
  PROVE  /\ TreeOK'
         /\ DOMAIN node' = All /\ DOMAIN kids' = All
         /\ \A m \in All : node'[m] = Free \/ node'[m] \in NodeRecords
         /\ \A m \in All : kids'[m] \in Seq(Nodes)
         /\ Live(n)' /\ node'[n].kind = kind
         /\ \A m \in All : m # n => node'[m] = node[m]
         /\ InvRoot'
<1> DEFINE r == [kind |-> kind, name |-> name, parent |-> d]
<1>1. /\ node' = [node EXCEPT ![n] = r]
      /\ kids' = [kids EXCEPT ![d] = <<n>> \o @, ![n] = <<>>]
  BY DEF kyrofs_create_node
<1>2. r \in NodeRecords /\ r # Free /\ r.kind = kind /\ r.parent = d
  BY VfsAssumption DEF NodeRecords
<1> HIDE DEF r
<1>3. DOMAIN node = All /\ DOMAIN kids = All /\ n \in All /\ d # n /\ n # Root
  BY VfsAssumption DEF IInv, InvShape, All, IsDir
<1>4. /\ \A m \in All : node'[m] = IF m = n THEN r ELSE node[m]
      /\ kids'[d] = <<n>> \o kids[d] /\ kids'[n] = <<>>
      /\ \A m \in All : m # d /\ m # n => kids'[m] = kids[m]
      /\ DOMAIN node' = All /\ DOMAIN kids' = All
  BY <1>1, <1>3
<1>5. \A m \in All : node'[m] = Free \/ node'[m] \in NodeRecords
  BY <1>2, <1>4 DEF IInv, TypeOK
<1>6. /\ kids'[d] \in Seq(Nodes) /\ Len(kids[d]) \in Nat /\ Len(kids'[d]) = Len(kids[d]) + 1
      /\ kids'[d][1] = n
      /\ \A i \in 2 .. Len(kids'[d]) : kids'[d][i] = kids[d][i - 1]
      /\ \A u : Contains(kids'[d], u) <=> Contains(kids[d], u) \/ u = n
  <2>1. kids[d] \in Seq(Nodes)
    BY TreeFacts
  <2> QED BY <1>4, <2>1, ConsItems, ConsMembers
<1>7. \A m \in All : kids'[m] \in Seq(Nodes)
  <2>1. <<>> \in Seq(Nodes)
    BY EmptySeq
  <2>2. \A m \in All : kids[m] \in Seq(Nodes)
    BY TreeFacts
  <2> QED BY <1>4, <1>6, <2>1, <2>2
<1>8. /\ Live(n)' /\ \A m \in All : m # n => (Live(m)' <=> Live(m))
      /\ \A m \in All : m # n => (IsDir(m)' <=> IsDir(m))
  BY <1>2, <1>3, <1>4 DEF Live, IsDir
<1>9. \A e \in All : ~Contains(kids[e], n)
  BY TreeFacts
<1>10. \A u : ~Contains(kids'[n], u)
  BY <1>4, EmptySeq DEF Contains
<1>11. ASSUME NEW m \in Nodes, Live(m)'
       PROVE  IsDir(node[m].parent)' /\ Contains(kids[node[m].parent], m)'
  <2>1. CASE m = n
    <3>1. node'[m].parent = d /\ IsDir(d)' /\ Contains(kids'[d], n)
      BY <1>2, <1>3, <1>4, <1>6, <1>8, <2>1
    <3> QED BY <2>1, <3>1 DEF IsDir, Live
  <2>2. CASE m # n
    <3>1. m \in All /\ node'[m] = node[m] /\ Live(m)
      BY <1>4, <1>8, <1>11, <2>2 DEF All
    <3>2. /\ node[m].parent \in All /\ IsDir(node[m].parent) /\ Contains(kids[node[m].parent], m)
          /\ node[m].parent # n
      BY <3>1, TreeFacts DEF IsDir
    <3>3. Contains(kids'[node[m].parent], m)
      BY <1>4, <1>6, <3>2
    <3>4. node'[node[m].parent] = node[node[m].parent]
      BY <1>4, <3>2
    <3> QED BY <3>1, <3>2, <3>3, <3>4 DEF IsDir, Live
  <2> QED BY <2>1, <2>2
<1>12. ASSUME NEW e \in All, NEW m \in Nodes, Contains(kids'[e], m)
       PROVE  IsDir(e)' /\ Live(m)' /\ node'[m].parent = e
  <2>1. e # n
    BY <1>10, <1>12
  <2>2. CASE m = n
    <3>1. e = d
      BY <1>4, <1>9, <1>12, <2>1, <2>2
    <3> QED BY <1>2, <1>3, <1>4, <1>8, <2>2, <3>1
  <2>3. CASE m # n
    <3>1. m \in All /\ Contains(kids[e], m)
      BY <1>4, <1>6, <1>12, <2>1, <2>3 DEF All
    <3>2. IsDir(e) /\ Live(m) /\ node[m].parent = e
      BY <3>1, TreeFacts
    <3> QED BY <1>4, <1>8, <2>1, <2>3, <3>1, <3>2
  <2> QED BY <2>2, <2>3
<1>13. ASSUME NEW e \in All, NEW i \in 1 .. Len(kids'[e]), NEW j \in 1 .. Len(kids'[e]),
              kids'[e][i] = kids'[e][j]
       PROVE  i = j
  <2>1. CASE e = d
    <3>1. \A k \in 1 .. Len(kids'[d]) : k # 1 =>
            k - 1 \in 1 .. Len(kids[d]) /\ kids'[d][k] = kids[d][k - 1] /\ kids'[d][k] # n
      BY <1>6, <1>9 DEF Contains
    <3>2. CASE i # 1 /\ j # 1
      <4>1. i - 1 = j - 1
        BY <1>13, <2>1, <3>1, <3>2, TreeFacts
      <4> QED BY <1>6, <2>1, <4>1
    <3>3. CASE i = 1 \/ j = 1
      BY <1>6, <1>13, <2>1, <3>1, <3>3
    <3> QED BY <3>2, <3>3
  <2>2. CASE e = n
    BY <1>4, <2>2, EmptySeq
  <2>3. CASE e # d /\ e # n
    BY <1>4, <1>13, <2>3, TreeFacts
  <2> QED BY <2>1, <2>2, <2>3
<1>14. TreeOK'
  BY <1>11, <1>12, <1>13 DEF TreeOK, Contains
<1>15. InvRoot'
  BY <1>3, <1>8 DEF IInv, InvRoot, All
<1> QED
  BY <1>2, <1>3, <1>4, <1>5, <1>7, <1>8, <1>14, <1>15

(* An entry is unlinked and its node is freed: only leaves are. *)
LEMMA DeleteTree ==
  ASSUME IInv, NEW n \in Nodes, NEW d \in All, Contains(kids[d], n), Removable(n),
         node' = [node EXCEPT ![n] = Free],
         kids' = [kids EXCEPT ![d] = RemoveFirst(@, n)]
  PROVE  /\ TreeOK'
         /\ DOMAIN node' = All /\ DOMAIN kids' = All
         /\ \A m \in All : node'[m] = Free \/ node'[m] \in NodeRecords
         /\ \A m \in All : kids'[m] \in Seq(Nodes)
         /\ ~Live(n)'
         /\ \A m \in All : m # n => node'[m] = node[m]
         /\ InvRoot'
<1>1. IsDir(d) /\ Live(n) /\ node[n].parent = d /\ node[n].kind \in {"file", "dir"}
  BY TreeFacts
<1>2. \A m \in Nodes : ~Contains(kids[n], m)
  <2>1. CASE node[n].kind = "dir"
    BY <2>1, EmptySeq DEF Removable, Contains
  <2>2. CASE node[n].kind = "file"
    BY <2>2, TreeFacts DEF All, IsDir
  <2> QED BY <1>1, <2>1, <2>2
<1>3. DOMAIN node = All /\ DOMAIN kids = All /\ n \in All /\ d # n /\ n # Root
  BY <1>2, VfsAssumption DEF IInv, InvShape, All
<1>4. /\ \A m \in All : node'[m] = IF m = n THEN Free ELSE node[m]
      /\ kids'[d] = RemoveFirst(kids[d], n)
      /\ \A m \in All : m # d => kids'[m] = kids[m]
      /\ DOMAIN node' = All /\ DOMAIN kids' = All
  BY <1>3
<1>5. kids[d] \in Seq(Nodes) /\ \A i, j \in 1 .. Len(kids[d]) : kids[d][i] = kids[d][j] => i = j
  BY TreeFacts
<1>6. /\ kids'[d] \in Seq(Nodes)
      /\ \A u : u # n => (Contains(kids'[d], u) <=> Contains(kids[d], u))
      /\ ~Contains(kids'[d], n)
      /\ \A i, j \in 1 .. Len(kids'[d]) : kids'[d][i] = kids'[d][j] => i = j
  <2> DEFINE q == kids[d]
             r == RemoveFirst(q, n)
  <2> q \in Seq(Nodes) /\ Contains(q, n) /\ kids'[d] = r
    BY <1>4, <1>5
  <2> HIDE DEF q
  <2>1. r \in Seq(Nodes)
    BY RemoveFirstItems
  <2>2. \A u : u # n => (Contains(r, u) <=> Contains(q, u))
    BY RemoveFirstMembers
  <2>3. \A i, j \in 1 .. Len(q) : q[i] = q[j] => i = j
    BY <1>5 DEF q
  <2>4. ~Contains(r, n) /\ \A i, j \in 1 .. Len(r) : r[i] = r[j] => i = j
    BY <2>3, RemoveFirstOnce
  <2> HIDE DEF r
  <2> QED BY <2>1, <2>2, <2>4 DEF q
<1>7. \A m \in All : node'[m] = Free \/ node'[m] \in NodeRecords
  BY <1>4 DEF IInv, TypeOK
<1>8. \A m \in All : kids'[m] \in Seq(Nodes)
  BY <1>4, <1>6, TreeFacts
<1>9. /\ ~Live(n)' /\ \A m \in All : m # n => (Live(m)' <=> Live(m))
      /\ \A m \in All : m # n => (IsDir(m)' <=> IsDir(m))
  BY <1>3, <1>4 DEF Live, IsDir
<1>10. \A e \in All : ~Contains(kids'[e], n)
  BY <1>1, <1>4, <1>6, TreeFacts
<1>11. ASSUME NEW m \in Nodes, Live(m)'
       PROVE  IsDir(node[m].parent)' /\ Contains(kids[node[m].parent], m)'
  <2>1. m \in All /\ m # n /\ Live(m) /\ node'[m] = node[m]
    BY <1>4, <1>9, <1>11 DEF All
  <2>2. /\ node[m].parent \in All /\ IsDir(node[m].parent) /\ Contains(kids[node[m].parent], m)
    BY <2>1, TreeFacts
  <2>3. node[m].parent # n
    BY <1>2, <2>2
  <2>4. Contains(kids'[node[m].parent], m)
    BY <1>4, <1>6, <2>1, <2>2
  <2>5. node'[node[m].parent] = node[node[m].parent]
    BY <1>4, <2>2, <2>3
  <2> QED BY <2>1, <2>2, <2>4, <2>5 DEF IsDir, Live
<1>12. ASSUME NEW e \in All, NEW m \in Nodes, Contains(kids'[e], m)
       PROVE  IsDir(e)' /\ Live(m)' /\ node'[m].parent = e
  <2>1. m # n /\ m \in All
    BY <1>10, <1>12 DEF All
  <2>2. Contains(kids[e], m)
    BY <1>4, <1>6, <1>12, <2>1
  <2>3. e # n /\ IsDir(e) /\ Live(m) /\ node[m].parent = e
    BY <1>2, <2>2, TreeFacts
  <2> QED BY <1>4, <1>9, <2>1, <2>3
<1>13. ASSUME NEW e \in All, NEW i \in 1 .. Len(kids'[e]), NEW j \in 1 .. Len(kids'[e]),
              kids'[e][i] = kids'[e][j]
       PROVE  i = j
  BY <1>4, <1>6, <1>13, TreeFacts
<1>14. TreeOK'
  BY <1>11, <1>12, <1>13 DEF TreeOK, Contains
<1>15. InvRoot'
  BY <1>3, <1>9 DEF IInv, InvRoot, All
<1> QED
  BY <1>4, <1>7, <1>8, <1>9, <1>14, <1>15

----------------------------------------------------------------------------
(* A buffer is not the null pointer. *)
LEMMA BufferNotNull ==
  ASSUME NEW k \in Nat, NEW b \in [1 .. k -> {Byte, Garbage}]
  PROVE  b # Null
<1>1. b \in Seq({Byte, Garbage})
  OBVIOUS
<1> QED
  BY <1>1, VfsAssumption

(* The types of what the steps change. *)
LEMMA TypeFacts ==
  ASSUME IInv
  PROVE  /\ \A n \in All : /\ node[n] = Free \/ node[n] \in NodeRecords
                           /\ kids[n] \in Seq(Nodes)
                           /\ size[n] \in Nat /\ size[n] <= MaxSize
                           /\ cap[n] \in Nat
                           /\ buf[n] = Null \/ buf[n] \in [1 .. cap[n] -> {Byte, Garbage}]
         /\ \A f \in Fds : fd[f] # Closed =>
              fd[f] \in [node : Nodes, off : 0 .. MaxSize, append : BOOLEAN]
         /\ MaxSize \in Nat /\ Cap0 \in Nat /\ Garbage # Byte
         /\ Nodes \subseteq All /\ Root \in All /\ Root \notin Nodes
BY VfsAssumption DEF IInv, TypeOK, All

(* A step that leaves the tree alone. *)
LEMMA SameTree ==
  ASSUME IInv, UNCHANGED tree
  PROVE  /\ TreeOK' /\ InvRoot' /\ DOMAIN node' = All /\ DOMAIN kids' = All
         /\ \A m \in All : node'[m] = Free \/ node'[m] \in NodeRecords
         /\ \A m \in All : kids'[m] \in Seq(Nodes)
         /\ \A m : Live(m)' <=> Live(m)
         /\ \A m : IsFile(m)' <=> IsFile(m)
<1>1. TreeOK' /\ InvRoot' /\ \A m : (Live(m)' <=> Live(m)) /\ (IsFile(m)' <=> IsFile(m))
  BY DEF IInv, TreeOK, InvRoot, IsDir, IsFile, Live, tree
<1>2. DOMAIN node' = All /\ DOMAIN kids' = All
  BY DEF IInv, InvShape, tree
<1> QED
  BY <1>1, <1>2, TypeFacts DEF tree

(* The descriptor sys_open returns points to the node it found or made. *)
LEMMA InstallFacts ==
  ASSUME IInv, NEW n \in Nodes, NEW len \in 0 .. MaxSize, NEW flags, Install(n, len, flags)
  PROVE  /\ DOMAIN fd' = Fds
         /\ \A f \in Fds : fd'[f] # Closed =>
              /\ fd'[f] \in [node : Nodes, off : 0 .. MaxSize, append : BOOLEAN]
              /\ fd'[f] = fd[f] \/ (fd'[f].node = n /\ fd'[f].off \in {0, len})
<1> DEFINE new == [node |-> n, off |-> IF "append" \in flags THEN len ELSE 0,
                   append |-> "append" \in flags]
<1>1. /\ new \in [node : Nodes, off : 0 .. MaxSize, append : BOOLEAN]
      /\ new.node = n /\ new.off \in {0, len}
  BY TypeFacts
<1>2. UNCHANGED fd \/ \E g : fd' = [fd EXCEPT ![g] = new]
  BY DEF Install
<1> HIDE DEF new
<1>3. DOMAIN fd = Fds
  BY DEF IInv, InvShape
<1>4. \A f \in Fds : fd'[f] = fd[f] \/ fd'[f] = new
  BY <1>2, <1>3
<1> QED
  BY <1>1, <1>2, <1>3, <1>4, TypeFacts

(* The invariant after a step, node by node: what is left to show of a step
   that has kept the tree. *)
LEMMA Assemble ==
  ASSUME IInv,
         TreeOK', InvRoot', DOMAIN node' = All, DOMAIN kids' = All,
         \A m \in All : node'[m] = Free \/ node'[m] \in NodeRecords,
         \A m \in All : kids'[m] \in Seq(Nodes),
         DOMAIN size' = All, DOMAIN cap' = All, DOMAIN buf' = All, DOMAIN fd' = Fds,
         \A m \in All : /\ size'[m] \in 0 .. MaxSize /\ cap'[m] \in Nat
                        /\ buf'[m] = Null \/ buf'[m] \in [1 .. cap'[m] -> {Byte, Garbage}],
         \A f \in Fds : fd'[f] # Closed =>
           fd'[f] \in [node : Nodes, off : 0 .. MaxSize, append : BOOLEAN],
         page_fault' \in BOOLEAN, careful' \in BOOLEAN,
         InvBody', InvOpen', NoHeapBytes'
  PROVE  IInv'
<1>1. TypeOK'
  BY DEF TypeOK
<1>2. InvShape'
  BY DEF InvShape
<1> QED
  BY <1>1, <1>2 DEF IInv

(* sys_open of a node that exists: with O_TRUNC the file is empty and has no
   buffer. *)
LEMMA OpenExistingInv ==
  ASSUME IInv, page_fault = FALSE, NEW path \in Paths, NEW flags \in Flags,
         OpenExisting(path, flags)
  PROVE  IInv'
<1> DEFINE n == Resolve(path)
<1>1. n \in Nodes /\ n \in All /\ Live(n)
  BY ResolveFacts, TypeFacts DEF OpenExisting
<1>2. /\ \/ Truncate(n) /\ Install(n, 0, flags) /\ "trunc" \in flags
         \/ UNCHANGED body /\ Install(n, size[n], flags)
      /\ careful' = (careful /\ "trunc" \notin flags)
      /\ UNCHANGED <<tree, page_fault>>
  BY DEF OpenExisting
<1> HIDE DEF n
<1>3. /\ TreeOK' /\ InvRoot' /\ DOMAIN node' = All /\ DOMAIN kids' = All
      /\ \A m \in All : node'[m] = Free \/ node'[m] \in NodeRecords
      /\ \A m \in All : kids'[m] \in Seq(Nodes)
      /\ \A m : Live(m)' <=> Live(m)
      /\ \A m : IsFile(m)' <=> IsFile(m)
  BY <1>2, SameTree
<1>4. /\ page_fault' \in BOOLEAN /\ careful' \in BOOLEAN
      /\ careful' => careful
  BY <1>2 DEF IInv, TypeOK
<1>5. CASE Truncate(n) /\ Install(n, 0, flags) /\ "trunc" \in flags
  <2>1. ~careful'
    BY <1>2, <1>5
  <2>2. /\ DOMAIN size' = All /\ DOMAIN cap' = All /\ DOMAIN buf' = All
        /\ \A m \in All : size'[m] = IF m = n THEN 0 ELSE size[m]
        /\ \A m \in All : buf'[m] = IF m = n THEN Null ELSE buf[m]
        /\ cap' = cap
    BY <1>5 DEF Truncate, IInv, InvShape
  <2>3. \A m \in All : /\ size'[m] \in 0 .. MaxSize /\ cap'[m] \in Nat
                       /\ buf'[m] = Null \/ buf'[m] \in [1 .. cap'[m] -> {Byte, Garbage}]
    BY <2>2, TypeFacts
  <2>4. 0 \in 0 .. MaxSize
    BY TypeFacts
  <2>5. /\ DOMAIN fd' = Fds
        /\ \A f \in Fds : fd'[f] # Closed =>
             fd'[f] \in [node : Nodes, off : 0 .. MaxSize, append : BOOLEAN]
    BY <1>1, <1>5, <2>4, InstallFacts
  <2>6. InvBody'
    <3>1. ASSUME NEW m \in Nodes, IsFile(m)
          PROVE  size'[m] <= cap'[m] /\ (buf'[m] = Null => size'[m] = 0)
      BY <2>2, <3>1, TypeFacts DEF IInv, InvBody
    <3> QED BY <1>3, <3>1 DEF InvBody
  <2>7. InvOpen' /\ NoHeapBytes'
    BY <2>1 DEF InvOpen, NoHeapBytes
  <2> QED BY <1>3, <1>4, <2>2, <2>3, <2>5, <2>6, <2>7, Assemble
<1>6. CASE UNCHANGED body /\ Install(n, size[n], flags)
  <2>1. /\ size' = size /\ cap' = cap /\ buf' = buf
        /\ DOMAIN size' = All /\ DOMAIN cap' = All /\ DOMAIN buf' = All
    BY <1>6 DEF body, IInv, InvShape
  <2>2. \A m \in All : /\ size'[m] \in 0 .. MaxSize /\ cap'[m] \in Nat
                       /\ buf'[m] = Null \/ buf'[m] \in [1 .. cap'[m] -> {Byte, Garbage}]
    BY <2>1, TypeFacts
  <2>3. size[n] \in 0 .. MaxSize /\ size[n] \in Nat
    BY <1>1, TypeFacts
  <2>4. /\ DOMAIN fd' = Fds
        /\ \A f \in Fds : fd'[f] # Closed =>
             /\ fd'[f] \in [node : Nodes, off : 0 .. MaxSize, append : BOOLEAN]
             /\ fd'[f] = fd[f] \/ (fd'[f].node = n /\ fd'[f].off \in {0, size[n]})
    BY <1>1, <1>6, <2>3, InstallFacts
  <2>5. InvBody' /\ NoHeapBytes'
    BY <1>3, <1>4, <2>1 DEF IInv, InvBody, NoHeapBytes
  <2>6. InvOpen'
    <3>1. ASSUME careful, NEW f \in Fds, fd'[f] # Closed
          PROVE  Live(fd'[f].node) /\ fd'[f].off <= size[fd'[f].node]
      BY <1>1, <2>3, <2>4, <3>1 DEF IInv, InvOpen
    <3> QED BY <1>3, <1>4, <2>1, <3>1 DEF InvOpen, Live
  <2> QED BY <1>3, <1>4, <2>1, <2>2, <2>4, <2>5, <2>6, Assemble
<1> QED
  BY <1>2, <1>5, <1>6

(* sys_close. *)
LEMMA CloseInv ==
  ASSUME IInv, NEW g \in Fds, sys_close(g)
  PROVE  IInv'
<1>1. /\ TreeOK' /\ InvRoot' /\ DOMAIN node' = All /\ DOMAIN kids' = All
      /\ \A m \in All : node'[m] = Free \/ node'[m] \in NodeRecords
      /\ \A m \in All : kids'[m] \in Seq(Nodes)
      /\ \A m : Live(m)' <=> Live(m)
      /\ \A m : IsFile(m)' <=> IsFile(m)
  BY SameTree DEF sys_close
<1>2. /\ size' = size /\ cap' = cap /\ buf' = buf /\ page_fault' = page_fault /\ careful' = careful
      /\ DOMAIN size' = All /\ DOMAIN cap' = All /\ DOMAIN buf' = All
      /\ page_fault' \in BOOLEAN /\ careful' \in BOOLEAN
  BY DEF sys_close, body, IInv, InvShape, TypeOK
<1>3. DOMAIN fd' = Fds /\ \A f \in Fds : fd'[f] # Closed => fd'[f] = fd[f]
  BY DEF sys_close, IInv, InvShape
<1>4. \A f \in Fds : fd'[f] # Closed =>
        fd'[f] \in [node : Nodes, off : 0 .. MaxSize, append : BOOLEAN]
  BY <1>3, TypeFacts
<1>5. \A m \in All : /\ size'[m] \in 0 .. MaxSize /\ cap'[m] \in Nat
                     /\ buf'[m] = Null \/ buf'[m] \in [1 .. cap'[m] -> {Byte, Garbage}]
  BY <1>2, TypeFacts
<1>6. InvBody' /\ NoHeapBytes'
  BY <1>1, <1>2 DEF IInv, InvBody, NoHeapBytes
<1>7. InvOpen'
  <2>1. ASSUME careful, NEW f \in Fds, fd'[f] # Closed
        PROVE  Live(fd'[f].node) /\ fd'[f].off <= size[fd'[f].node]
    BY <1>3, <2>1 DEF IInv, InvOpen
  <2> QED BY <1>1, <1>2, <2>1 DEF InvOpen, Live
<1> QED
  BY <1>1, <1>2, <1>3, <1>4, <1>5, <1>6, <1>7, Assemble

(* sys_read moves the offset, and not beyond the file. *)
LEMMA ReadInv ==
  ASSUME IInv, NEW g \in Fds, NEW n \in 1 .. MaxSize, sys_read(g, n)
  PROVE  IInv'
<1> DEFINE x == fd[g].node
           o == fd[g].off
           o2 == IF buf[x] = Null \/ o >= size[x] THEN o
                 ELSE IF o + n > size[x] THEN size[x] ELSE o + n
<1>1. /\ fd[g] # Closed /\ fd' = [fd EXCEPT ![g].off = o2]
      /\ UNCHANGED <<tree, body, page_fault, careful>>
  BY DEF sys_read
<1>2. x \in Nodes /\ x \in All /\ o \in 0 .. MaxSize /\ fd[g].append \in BOOLEAN
      /\ size[x] \in Nat /\ size[x] <= MaxSize /\ MaxSize \in Nat
  <2>1. fd[g] \in [node : Nodes, off : 0 .. MaxSize, append : BOOLEAN]
    BY <1>1, TypeFacts
  <2> QED BY <2>1, TypeFacts
<1>3. o2 \in 0 .. MaxSize /\ (o <= size[x] => o2 <= size[x])
  BY <1>2
<1> HIDE DEF o2
<1>4. /\ DOMAIN fd' = Fds /\ \A f \in Fds : f # g => fd'[f] = fd[f]
      /\ fd'[g] \in [node : Nodes, off : 0 .. MaxSize, append : BOOLEAN]
      /\ fd'[g].node = x /\ fd'[g].off = o2
  <2>1. fd[g] \in [node : Nodes, off : 0 .. MaxSize, append : BOOLEAN]
    BY <1>1, TypeFacts
  <2>2. DOMAIN fd = Fds
    BY DEF IInv, InvShape
  <2> QED BY <1>1, <1>3, <2>1, <2>2
<1>5. /\ TreeOK' /\ InvRoot' /\ DOMAIN node' = All /\ DOMAIN kids' = All
      /\ \A m \in All : node'[m] = Free \/ node'[m] \in NodeRecords
      /\ \A m \in All : kids'[m] \in Seq(Nodes)
      /\ \A m : Live(m)' <=> Live(m)
      /\ \A m : IsFile(m)' <=> IsFile(m)
  BY <1>1, SameTree
<1>6. /\ size' = size /\ cap' = cap /\ buf' = buf /\ page_fault' = page_fault /\ careful' = careful
      /\ DOMAIN size' = All /\ DOMAIN cap' = All /\ DOMAIN buf' = All
      /\ page_fault' \in BOOLEAN /\ careful' \in BOOLEAN
  BY <1>1 DEF body, IInv, InvShape, TypeOK
<1>7. \A f \in Fds : fd'[f] # Closed =>
        fd'[f] \in [node : Nodes, off : 0 .. MaxSize, append : BOOLEAN]
  BY <1>4, TypeFacts
<1>8. \A m \in All : /\ size'[m] \in 0 .. MaxSize /\ cap'[m] \in Nat
                     /\ buf'[m] = Null \/ buf'[m] \in [1 .. cap'[m] -> {Byte, Garbage}]
  BY <1>6, TypeFacts
<1>9. InvBody' /\ NoHeapBytes'
  BY <1>5, <1>6 DEF IInv, InvBody, NoHeapBytes
<1>10. InvOpen'
  <2>1. ASSUME careful, NEW f \in Fds, fd'[f] # Closed
        PROVE  Live(fd'[f].node) /\ fd'[f].off <= size[fd'[f].node]
    <3>1. CASE f = g
      BY <1>1, <1>3, <1>4, <2>1, <3>1 DEF IInv, InvOpen
    <3>2. CASE f # g
      BY <1>4, <2>1, <3>2 DEF IInv, InvOpen
    <3> QED BY <3>1, <3>2
  <2> QED BY <1>5, <1>6, <2>1 DEF InvOpen, Live
<1> QED
  BY <1>4, <1>5, <1>6, <1>7, <1>8, <1>9, <1>10, Assemble

(* sys_write: the buffer grows before the bytes are put in, and holds them. *)
LEMMA WriteInv ==
  ASSUME IInv, NEW h \in Fds, NEW n \in 1 .. MaxSize, sys_write(h, n)
  PROVE  IInv'
<1> DEFINE x == fd[h].node
           o == IF fd[h].append THEN size[x] ELSE fd[h].off
           g == IF o + n > cap[x] THEN Grown(x, o, n) ELSE [cap |-> cap[x], buf |-> buf[x]]
           b == [i \in DOMAIN g.buf |-> IF i \in o + 1 .. o + n THEN Byte ELSE g.buf[i]]
           z == IF o + n > size[x] THEN o + n ELSE size[x]
<1>1. /\ fd[h] # Closed /\ IsFile(x) /\ o + n <= MaxSize
      /\ UNCHANGED <<tree, careful>>
      /\ IF g.buf = Null
              THEN page_fault' = TRUE /\ UNCHANGED <<body, fd>>
              ELSE /\ buf'  = [buf EXCEPT ![x] = b]
                   /\ cap'  = [cap EXCEPT ![x] = g.cap]
                   /\ size' = [size EXCEPT ![x] = IF o + n > @ THEN o + n ELSE @]
                   /\ fd'   = [fd EXCEPT ![h].off = o + n]
                   /\ UNCHANGED page_fault
  BY DEF sys_write
<1>2. fd[h] \in [node : Nodes, off : 0 .. MaxSize, append : BOOLEAN]
  BY <1>1, TypeFacts
<1>3. /\ x \in Nodes /\ x \in All /\ size[x] \in Nat /\ size[x] <= MaxSize /\ cap[x] \in Nat
      /\ fd[h].off \in 0 .. MaxSize /\ MaxSize \in Nat
      /\ buf[x] = Null \/ buf[x] \in [1 .. cap[x] -> {Byte, Garbage}]
      /\ n \in Nat /\ n >= 1
  BY <1>2, TypeFacts
<1>4. o \in Nat
  BY <1>3
<1>5. /\ TreeOK' /\ InvRoot' /\ DOMAIN node' = All /\ DOMAIN kids' = All
      /\ \A m \in All : node'[m] = Free \/ node'[m] \in NodeRecords
      /\ \A m \in All : kids'[m] \in Seq(Nodes)
      /\ \A m : Live(m)' <=> Live(m)
      /\ \A m : IsFile(m)' <=> IsFile(m)
  BY <1>1, SameTree
<1>6. size[x] <= cap[x] /\ (buf[x] = Null => size[x] = 0)
  BY <1>1, <1>3 DEF IInv, InvBody
<1>7. page_fault' \in BOOLEAN /\ careful' = careful /\ careful' \in BOOLEAN
  BY <1>1 DEF IInv, TypeOK
<1>8. CASE g.buf = Null
  <2>1. /\ size' = size /\ cap' = cap /\ buf' = buf /\ fd' = fd
        /\ DOMAIN size' = All /\ DOMAIN cap' = All /\ DOMAIN buf' = All /\ DOMAIN fd' = Fds
    BY <1>1, <1>8 DEF body, IInv, InvShape
  <2>2. InvBody' /\ NoHeapBytes' /\ InvOpen'
    BY <1>5, <1>7, <2>1 DEF IInv, InvBody, NoHeapBytes, InvOpen
  <2>3. \A m \in All : /\ size'[m] \in 0 .. MaxSize /\ cap'[m] \in Nat
                       /\ buf'[m] = Null \/ buf'[m] \in [1 .. cap'[m] -> {Byte, Garbage}]
    BY <2>1, TypeFacts
  <2>4. \A f \in Fds : fd'[f] # Closed =>
          fd'[f] \in [node : Nodes, off : 0 .. MaxSize, append : BOOLEAN]
    BY <2>1, TypeFacts
  <2> QED BY <1>5, <1>7, <2>1, <2>2, <2>3, <2>4, Assemble
<1>9. CASE g.buf # Null
  <2>1. /\ g.cap \in Nat /\ o + n <= g.cap /\ size[x] <= g.cap
        /\ g.buf \in [1 .. g.cap -> {Byte, Garbage}]
        /\ \A i \in 1 .. size[x] : g.buf[i] = buf[x][i]
    <3>1. CASE o + n > cap[x]
      <4>1. g = [cap |-> 2 * (o + n),
                 buf |-> [i \in 1 .. 2 * (o + n) |->
                            IF buf[x] # Null /\ i <= size[x] THEN buf[x][i] ELSE Garbage]]
        BY <3>1 DEF Grown
      <4> HIDE DEF o, g
      <4>2. \A i \in 1 .. 2 * (o + n) : buf[x] # Null /\ i <= size[x] =>
              buf[x][i] \in {Byte, Garbage}
        BY <1>3, <1>4, <1>6
      <4>3. 2 * (o + n) \in Nat /\ o + n <= 2 * (o + n) /\ size[x] <= 2 * (o + n)
        BY <1>3, <1>4, <1>6, <3>1
      <4>4. \A i \in 1 .. size[x] : i \in 1 .. 2 * (o + n) /\ i <= size[x] /\ buf[x] # Null
        BY <1>3, <1>4, <1>6, <4>3
      <4> QED BY <4>1, <4>2, <4>3, <4>4
    <3>2. CASE ~(o + n > cap[x])
      <4>1. g.cap = cap[x] /\ g.buf = buf[x]
        BY <3>2
      <4> HIDE DEF o, g
      <4> QED BY <1>3, <1>4, <1>6, <1>9, <3>2, <4>1
    <3> QED BY <3>1, <3>2
  <2>2. /\ buf' = [buf EXCEPT ![x] = b] /\ cap' = [cap EXCEPT ![x] = g.cap]
        /\ size' = [size EXCEPT ![x] = z] /\ fd' = [fd EXCEPT ![h].off = o + n]
    BY <1>1, <1>9
  <2>3. b \in [1 .. g.cap -> {Byte, Garbage}] /\ b # Null
    <3> HIDE DEF o, g
    <3>1. b \in [1 .. g.cap -> {Byte, Garbage}]
      BY <2>1
    <3> HIDE DEF b
    <3> QED BY <2>1, <3>1, BufferNotNull
  <2>4. /\ z \in Nat /\ z <= MaxSize /\ z <= g.cap /\ size[x] <= z /\ o + n <= z
        /\ z = o + n \/ z = size[x]
    <3> HIDE DEF o, g
    <3> QED BY <1>1, <1>3, <1>4, <2>1
  <2>5. ASSUME careful, NEW i \in 1 .. z PROVE b[i] # Garbage
    <3>1. o <= size[x]
      BY <1>1, <1>3, <2>5 DEF IInv, InvOpen
    <3>2. \A j \in 1 .. size[x] : buf[x][j] # Garbage
      BY <1>1, <1>3, <2>5 DEF IInv, NoHeapBytes
    <3>3. i \in DOMAIN g.buf
      <4> HIDE DEF o, g
      <4> QED BY <2>1, <2>4
    <3> HIDE DEF g
    <3>4. CASE i \in o + 1 .. o + n
      BY <3>3, <3>4, TypeFacts
    <3>5. CASE i \notin o + 1 .. o + n
      <4>1. i \in 1 .. size[x]
        <5> HIDE DEF o
        <5> QED BY <1>3, <1>4, <2>4, <3>1, <3>5
      <4>2. b[i] = g.buf[i]
        BY <3>3, <3>5
      <4> QED BY <2>1, <3>2, <4>1, <4>2
    <3> QED BY <3>4, <3>5
  <2>6. o + n \in 0 .. MaxSize
    <3> HIDE DEF o
    <3> QED BY <1>1, <1>3, <1>4
  <2> HIDE DEF o, g, b, z
  <2>7. /\ DOMAIN size' = All /\ DOMAIN cap' = All /\ DOMAIN buf' = All
        /\ \A m \in All : /\ size'[m] = IF m = x THEN z ELSE size[m]
                          /\ cap'[m] = IF m = x THEN g.cap ELSE cap[m]
                          /\ buf'[m] = IF m = x THEN b ELSE buf[m]
    BY <1>3, <2>2 DEF IInv, InvShape
  <2>8. /\ DOMAIN fd' = Fds /\ \A f \in Fds : f # h => fd'[f] = fd[f]
        /\ fd'[h] \in [node : Nodes, off : 0 .. MaxSize, append : BOOLEAN]
        /\ fd'[h].node = x /\ fd'[h].off = o + n
    <3>1. DOMAIN fd = Fds
      BY DEF IInv, InvShape
    <3> QED BY <1>2, <2>2, <2>6, <3>1
  <2>9. \A m \in All : /\ size'[m] \in 0 .. MaxSize /\ cap'[m] \in Nat
                       /\ buf'[m] = Null \/ buf'[m] \in [1 .. cap'[m] -> {Byte, Garbage}]
    BY <2>1, <2>3, <2>4, <2>7, TypeFacts
  <2>10. \A f \in Fds : fd'[f] # Closed =>
           fd'[f] \in [node : Nodes, off : 0 .. MaxSize, append : BOOLEAN]
    BY <2>8, TypeFacts
  <2>11. InvBody'
    <3>1. ASSUME NEW m \in Nodes, IsFile(m)
          PROVE  size'[m] <= cap'[m] /\ (buf'[m] = Null => size'[m] = 0)
      BY <2>3, <2>4, <2>7, <3>1, TypeFacts DEF IInv, InvBody
    <3> QED BY <1>5, <3>1 DEF InvBody
  <2>12. InvOpen'
    <3>1. ASSUME careful, NEW f \in Fds, fd'[f] # Closed
          PROVE  Live(fd'[f].node) /\ fd'[f].off <= size'[fd'[f].node]
      <4>1. CASE f = h
        BY <1>1, <1>3, <2>4, <2>7, <2>8, <4>1 DEF IsFile
      <4>2. CASE f # h
        <5>1. fd'[f] = fd[f] /\ Live(fd[f].node) /\ fd[f].off <= size[fd[f].node]
          BY <2>8, <3>1, <4>2 DEF IInv, InvOpen
        <5>2. fd[f].node \in All /\ fd[f].off \in Nat /\ size[fd[f].node] \in Nat
          BY <3>1, <5>1, TypeFacts
        <5> QED BY <2>4, <2>7, <5>1, <5>2
      <4> QED BY <4>1, <4>2
    <3> QED BY <1>5, <1>7, <3>1 DEF InvOpen, Live
  <2>13. NoHeapBytes'
    <3>1. ASSUME careful, NEW m \in Nodes, IsFile(m), NEW i \in 1 .. size'[m]
          PROVE  buf'[m][i] # Garbage
      BY <2>5, <2>7, <3>1, TypeFacts DEF IInv, NoHeapBytes
    <3> QED BY <1>5, <1>7, <3>1 DEF NoHeapBytes
  <2> QED BY <1>5, <1>7, <2>7, <2>8, <2>9, <2>10, <2>11, <2>12, <2>13, Assemble
<1> QED
  BY <1>8, <1>9

(* A new node with its content, whatever made it: sys_open with O_CREAT, mkdir
   and touch.  Its size is 0, and no descriptor of a careful program points to
   the address it gets. *)
LEMMA NewNodeInv ==
  ASSUME IInv, NEW n \in Nodes, NEW d \in All, NEW name \in Names, NEW kind \in {"file", "dir"},
         IsDir(d), ~Live(n), kyrofs_create_node(n, d, name, kind),
         \/ Fresh(n) \/ FreshTruncated(n)
         \/ kind = "dir" /\ size' = [size EXCEPT ![n] = 0] /\ UNCHANGED <<cap, buf>>,
         DOMAIN fd' = Fds,
         \A f \in Fds : fd'[f] # Closed =>
              /\ fd'[f] \in [node : Nodes, off : 0 .. MaxSize, append : BOOLEAN]
              /\ fd'[f] = fd[f] \/ (fd'[f].node = n /\ fd'[f].off = 0),
         page_fault' \in BOOLEAN, careful' \in BOOLEAN, careful' => careful
  PROVE  IInv'
<1>1. /\ TreeOK' /\ InvRoot' /\ DOMAIN node' = All /\ DOMAIN kids' = All
      /\ \A m \in All : node'[m] = Free \/ node'[m] \in NodeRecords
      /\ \A m \in All : kids'[m] \in Seq(Nodes)
      /\ Live(n)' /\ node'[n].kind = kind
      /\ \A m \in All : m # n => node'[m] = node[m]
  BY CreateTree
<1>2. /\ DOMAIN size' = All /\ DOMAIN cap' = All /\ DOMAIN buf' = All
      /\ size'[n] = 0
      /\ \A m \in All : m # n => size'[m] = size[m] /\ cap'[m] = cap[m] /\ buf'[m] = buf[m]
  BY TypeFacts DEF Fresh, FreshTruncated, IInv, InvShape
<1>3. cap'[n] \in Nat /\ (buf'[n] = Null \/ buf'[n] \in [1 .. cap'[n] -> {Byte, Garbage}])
  <2>1. CASE Fresh(n)
    BY <2>1, TypeFacts DEF Fresh, IInv, InvShape
  <2>2. CASE FreshTruncated(n)
    BY <2>2, TypeFacts DEF FreshTruncated, IInv, InvShape
  <2>3. CASE UNCHANGED <<cap, buf>>
    BY <2>3, TypeFacts
  <2> QED BY <2>1, <2>2, <2>3
<1>4. \A m \in All : /\ size'[m] \in 0 .. MaxSize /\ cap'[m] \in Nat
                     /\ buf'[m] = Null \/ buf'[m] \in [1 .. cap'[m] -> {Byte, Garbage}]
  BY <1>2, <1>3, TypeFacts
<1>5. /\ \A m \in All : m # n => (IsFile(m)' <=> IsFile(m))
      /\ \A m \in All : m # n => (Live(m)' <=> Live(m))
  BY <1>1 DEF IsFile, Live
<1>6. InvBody'
  <2>1. ASSUME NEW m \in Nodes, IsFile(m)'
        PROVE  size'[m] <= cap'[m] /\ (buf'[m] = Null => size'[m] = 0)
    <3>1. CASE m = n
      BY <1>2, <1>3, <3>1
    <3>2. CASE m # n
      <4>1. m \in All /\ IsFile(m)
        BY <1>5, <2>1, <3>2, TypeFacts
      <4> QED BY <1>2, <3>2, <4>1 DEF IInv, InvBody
    <3> QED BY <3>1, <3>2
  <2> QED BY <2>1 DEF InvBody
<1>7. InvOpen'
  <2>1. ASSUME careful, NEW f \in Fds, fd'[f] # Closed
        PROVE  node'[fd'[f].node] # Free /\ fd'[f].off <= size'[fd'[f].node]
    <3>1. CASE fd'[f] = fd[f]
      <4>1. Live(fd[f].node) /\ fd[f].off <= size[fd[f].node] /\ fd[f].node \in All
        BY <2>1, <3>1, TypeFacts DEF IInv, InvOpen
      <4>2. fd[f].node # n
        BY <4>1
      <4>3. node'[fd[f].node] = node[fd[f].node]
        BY <1>1, <4>1, <4>2
      <4> QED BY <1>2, <3>1, <4>1, <4>2, <4>3 DEF Live
    <3>2. CASE fd'[f].node = n /\ fd'[f].off = 0
      BY <1>1, <1>2, <3>2 DEF Live
    <3> QED BY <2>1, <3>1, <3>2
  <2> QED BY <2>1 DEF InvOpen, Live
<1>8. NoHeapBytes'
  <2>1. ASSUME careful, NEW m \in Nodes, IsFile(m)', NEW i \in 1 .. size'[m]
        PROVE  buf'[m][i] # Garbage
    <3>1. m # n
      BY <1>2, <2>1
    <3>2. m \in All /\ IsFile(m)
      BY <1>5, <2>1, <3>1, TypeFacts
    <3> QED BY <1>2, <2>1, <3>1, <3>2 DEF IInv, NoHeapBytes
  <2> QED BY <2>1 DEF NoHeapBytes
<1> QED
  BY <1>1, <1>2, <1>4, <1>6, <1>7, <1>8, Assemble

(* sys_open with O_CREAT of a path that names nothing. *)
LEMMA OpenNewInv ==
  ASSUME IInv, NEW path \in Paths, NEW n \in Nodes, NEW flags \in Flags, OpenNew(path, n, flags)
  PROVE  IInv'
<1>1. /\ DirOf(path) # Null /\ IsDir(DirOf(path)) /\ ~Live(n)
      /\ kyrofs_create_node(n, DirOf(path), Last(path), "file")
      /\ Fresh(n) \/ FreshTruncated(n)
      /\ Install(n, 0, flags)
      /\ careful' = (careful /\ "trunc" \notin flags)
      /\ UNCHANGED page_fault
  BY DEF OpenNew
<1>2. DirOf(path) \in All /\ Last(path) \in Names
  BY <1>1, DirOfFacts
<1>3. 0 \in 0 .. MaxSize
  BY TypeFacts
<1>4. /\ DOMAIN fd' = Fds
      /\ \A f \in Fds : fd'[f] # Closed =>
           /\ fd'[f] \in [node : Nodes, off : 0 .. MaxSize, append : BOOLEAN]
           /\ fd'[f] = fd[f] \/ (fd'[f].node = n /\ fd'[f].off = 0)
  BY <1>1, <1>3, InstallFacts
<1>5. page_fault' \in BOOLEAN /\ careful' \in BOOLEAN /\ (careful' => careful)
  BY <1>1 DEF IInv, TypeOK
<1> QED
  BY <1>1, <1>2, <1>4, <1>5, NewNodeInv

(* Descriptors, page_fault and careful of a step that leaves them alone. *)
LEMMA SameFds ==
  ASSUME IInv, UNCHANGED <<fd, page_fault, careful>>
  PROVE  /\ DOMAIN fd' = Fds
         /\ \A f \in Fds : fd'[f] # Closed =>
              /\ fd'[f] \in [node : Nodes, off : 0 .. MaxSize, append : BOOLEAN]
              /\ fd'[f] = fd[f]
         /\ page_fault' \in BOOLEAN /\ careful' \in BOOLEAN /\ (careful' => careful)
BY TypeFacts DEF IInv, InvShape, TypeOK

(* mkdir and touch keep the invariant. *)
LEMMA MakeInv ==
  ASSUME IInv, NEW path \in Paths, NEW n \in Nodes, sys_mkdir(path, n) \/ touch(path, n)
  PROVE  IInv'
<1>1. /\ DirOf(path) # Null /\ IsDir(DirOf(path)) /\ ~Live(n)
      /\ UNCHANGED <<fd, page_fault, careful>>
  BY DEF sys_mkdir, touch
<1>2. DirOf(path) \in All /\ Last(path) \in Names
  BY <1>1, DirOfFacts
<1>3. CASE sys_mkdir(path, n)
  <2>1. /\ kyrofs_create_node(n, DirOf(path), Last(path), "dir")
        /\ size' = [size EXCEPT ![n] = 0] /\ UNCHANGED <<cap, buf>>
    BY <1>3 DEF sys_mkdir
  <2> QED BY <1>1, <1>2, <2>1, SameFds, NewNodeInv
<1>4. CASE touch(path, n)
  <2>1. kyrofs_create_node(n, DirOf(path), Last(path), "file") /\ Fresh(n)
    BY <1>4 DEF touch
  <2> QED BY <1>1, <1>2, <2>1, SameFds, NewNodeInv
<1> QED
  BY <1>3, <1>4

(* A node is removed: the descriptors of a careful program do not point to it. *)
LEMMA DeleteInv ==
  ASSUME IInv, NEW n \in Nodes, NEW d \in All, Contains(kids[d], n), Removable(n), Delete(d, n)
  PROVE  IInv'
<1>1. n \in All
  BY TypeFacts
<1>2. /\ node' = [node EXCEPT ![n] = Free]
      /\ kids' = [kids EXCEPT ![d] = RemoveFirst(@, n)]
      /\ size' = [size EXCEPT ![n] = 0]
      /\ cap'  = [cap EXCEPT ![n] = 0]
      /\ buf'  = [buf EXCEPT ![n] = Null]
      /\ careful' = (careful /\ \A f \in Fds : fd[f] # Closed => fd[f].node # n)
      /\ UNCHANGED <<fd, page_fault>>
  BY DEF Delete
<1>3. /\ TreeOK' /\ InvRoot' /\ DOMAIN node' = All /\ DOMAIN kids' = All
      /\ \A m \in All : node'[m] = Free \/ node'[m] \in NodeRecords
      /\ \A m \in All : kids'[m] \in Seq(Nodes)
      /\ ~Live(n)'
      /\ \A m \in All : m # n => node'[m] = node[m]
  BY <1>2, DeleteTree
<1>4. /\ DOMAIN size' = All /\ DOMAIN cap' = All /\ DOMAIN buf' = All
      /\ size'[n] = 0 /\ cap'[n] = 0 /\ buf'[n] = Null
      /\ \A m \in All : m # n => size'[m] = size[m] /\ cap'[m] = cap[m] /\ buf'[m] = buf[m]
  BY <1>1, <1>2 DEF IInv, InvShape
<1>5. \A m \in All : /\ size'[m] \in 0 .. MaxSize /\ cap'[m] \in Nat
                     /\ buf'[m] = Null \/ buf'[m] \in [1 .. cap'[m] -> {Byte, Garbage}]
  BY <1>4, TypeFacts
<1>6. /\ DOMAIN fd' = Fds /\ fd' = fd
      /\ \A f \in Fds : fd'[f] # Closed =>
           fd'[f] \in [node : Nodes, off : 0 .. MaxSize, append : BOOLEAN]
      /\ page_fault' \in BOOLEAN
  BY <1>2, TypeFacts DEF IInv, InvShape, TypeOK
<1>7. careful' \in BOOLEAN /\ (careful' => careful)
  BY <1>2 DEF IInv, TypeOK
<1>8. \A m \in All : IsFile(m)' => m # n /\ IsFile(m)
  BY <1>3 DEF IsFile, Live
<1>9. InvBody'
  <2>1. ASSUME NEW m \in Nodes, IsFile(m)'
        PROVE  size'[m] <= cap'[m] /\ (buf'[m] = Null => size'[m] = 0)
    <3>1. m \in All /\ m # n /\ IsFile(m)
      BY <1>8, <2>1, TypeFacts
    <3> QED BY <1>4, <3>1 DEF IInv, InvBody
  <2> QED BY <2>1 DEF InvBody
<1>10. NoHeapBytes'
  <2>1. ASSUME careful, NEW m \in Nodes, IsFile(m)', NEW i \in 1 .. size'[m]
        PROVE  buf'[m][i] # Garbage
    <3>1. m \in All /\ m # n /\ IsFile(m)
      BY <1>8, <2>1, TypeFacts
    <3> QED BY <1>4, <2>1, <3>1 DEF IInv, NoHeapBytes
  <2> QED BY <1>7, <2>1 DEF NoHeapBytes
<1>11. InvOpen'
  <2>1. ASSUME careful', NEW f \in Fds, fd[f] # Closed
        PROVE  node'[fd[f].node] # Free /\ fd[f].off <= size'[fd[f].node]
    <3>1. careful /\ fd[f].node # n
      BY <1>2, <2>1
    <3>2. Live(fd[f].node) /\ fd[f].off <= size[fd[f].node] /\ fd[f].node \in All
      BY <2>1, <3>1, TypeFacts DEF IInv, InvOpen
    <3>3. node'[fd[f].node] = node[fd[f].node] /\ size'[fd[f].node] = size[fd[f].node]
      BY <1>3, <1>4, <3>1, <3>2
    <3> QED BY <1>6, <3>2, <3>3 DEF Live
  <2> QED BY <1>6, <2>1 DEF InvOpen, Live
<1> QED
  BY <1>3, <1>4, <1>5, <1>6, <1>7, <1>9, <1>10, <1>11, Assemble

(* sys_unlink and sys_rmdir. *)
LEMMA RemoveInv ==
  ASSUME IInv, NEW path \in Paths, sys_unlink(path) \/ sys_rmdir(path)
  PROVE  IInv'
<1>1. /\ Resolve(path) # Null /\ Removable(Resolve(path))
      /\ Delete(DirOf(path), Resolve(path))
  BY DEF sys_unlink, sys_rmdir
<1>2. /\ DirOf(path) \in All /\ Resolve(path) \in Nodes
      /\ Contains(kids[DirOf(path)], Resolve(path))
  BY <1>1, ResolveFacts
<1>3. PICK n \in Nodes, d \in All : n = Resolve(path) /\ d = DirOf(path)
  BY <1>2
<1>4. Contains(kids[d], n) /\ Removable(n) /\ Delete(d, n)
  BY <1>1, <1>2, <1>3
<1> QED
  BY <1>4, DeleteInv

(* The invariant speaks of the variables only. *)
LEMMA StutterInv == ASSUME IInv, UNCHANGED vars PROVE IInv'
<1>1. UNCHANGED <<node, kids, size, cap, buf, fd, page_fault, careful>>
  BY DEF vars
<1> QED
  BY <1>1 DEF IInv, TypeOK, InvShape, InvRoot, TreeOK, InvBody, InvOpen, NoHeapBytes, IsDir,
              IsFile, Live

(* Every call of the file tree keeps the invariant. *)
LEMMA NextInv == ASSUME IInv, [Next]_vars PROVE IInv'
<1>1. CASE UNCHANGED vars \/ Panicked
  BY <1>1, StutterInv DEF Panicked
<1>2. CASE ~page_fault /\ SystemCall
  <2>1. page_fault = FALSE
    BY <1>2 DEF IInv, TypeOK
  <2>2. ASSUME NEW path \in Paths, NEW flags \in Flags, OpenExisting(path, flags) PROVE IInv'
    BY <2>1, <2>2, OpenExistingInv
  <2>3. ASSUME NEW path \in Paths, NEW n \in Nodes, NEW flags \in Flags, OpenNew(path, n, flags)
        PROVE  IInv'
    BY <2>3, OpenNewInv
  <2>4. ASSUME NEW f \in Fds, sys_close(f) PROVE IInv'
    BY <2>4, CloseInv
  <2>5. ASSUME NEW f \in Fds, NEW n \in 1 .. MaxSize, sys_read(f, n) PROVE IInv'
    BY <2>5, ReadInv
  <2>6. ASSUME NEW f \in Fds, NEW n \in 1 .. MaxSize, sys_write(f, n) PROVE IInv'
    BY <2>6, WriteInv
  <2>7. ASSUME NEW path \in Paths, NEW n \in Nodes, sys_mkdir(path, n) \/ touch(path, n)
        PROVE  IInv'
    BY <2>7, MakeInv
  <2>8. ASSUME NEW path \in Paths, sys_unlink(path) \/ sys_rmdir(path) PROVE IInv'
    BY <2>8, RemoveInv
  <2> QED
    BY <1>2, <2>2, <2>3, <2>4, <2>5, <2>6, <2>7, <2>8 DEF SystemCall
<1> QED
  BY <1>1, <1>2 DEF Next

(* The strengthening is an invariant of every execution. *)
THEOREM Inductive == Spec => []IInv
<1>1. Init => IInv
  BY InitInv
<1>2. IInv /\ [Next]_vars => IInv'
  BY NextInv
<1> QED
  BY <1>1, <1>2, PTL DEF Spec

(* The types of the nodes, the buffers and the descriptors: a buffer is exactly
   as long as the capacity that kyrofs_write compares with. *)
THEOREM TypeCorrect == Spec => []TypeOK
<1>1. IInv => TypeOK
  BY DEF IInv
<1> QED
  BY <1>1, Inductive, PTL

(* No sequence of open, mkdir, touch, unlink and rmdir loses a node or leaves a
   freed one in a directory, duplicate names included (kyrofs_create_node,
   kyrofs_remove, kyrofs_rmdir). *)
THEOREM TreeStaysOK == Spec => []TreeOK
<1>1. IInv => TreeOK
  BY DEF IInv
<1> QED
  BY <1>1, Inductive, PTL

(* kyrofs_write and kyrofs_read never show a program bytes of the heap, if no
   file is truncated and none removed while open. *)
THEOREM NeverHeapBytes == Spec => []NoHeapBytes
<1>1. IInv => NoHeapBytes
  BY DEF IInv
<1> QED
  BY <1>1, Inductive, PTL

(* A file never reaches beyond its buffer, whatever programs do. *)
THEOREM SizeStaysInBuffer == Spec => []SizeInBuffer
<1>1. IInv => SizeInBuffer
  <2>1. ASSUME IInv, NEW n \in Nodes, IsFile(n), buf[n] # Null PROVE size[n] <= Len(buf[n])
    <3>1. /\ buf[n] \in [1 .. cap[n] -> {Byte, Garbage}] /\ cap[n] \in Nat
          /\ size[n] <= cap[n]
      BY <2>1, TypeFacts DEF IInv, InvBody
    <3>2. Len(buf[n]) = cap[n]
      BY <3>1
    <3> QED BY <3>1, <3>2
  <2> QED BY <2>1 DEF SizeInBuffer
<1> QED
  BY <1>1, Inductive, PTL

----------------------------------------------------------------------------
(* The mount points.  Until a second mount was tried there is at most one. *)
MountInv ==
  ~a_shared => /\ a_mounted => a_table = a_disk /\ \E p \in MountPoints : a_flag = {p}
               /\ ~a_mounted => a_flag = {}

(* Each call of the adapter keeps the points and the table together. *)
LEMMA MountStep ==
  ASSUME MountInv, [Mounts!Next]_(Mounts!vars)
  PROVE  MountInv'
<1> SUFFICES ASSUME ~a_shared' PROVE MountInv'
  BY DEF MountInv
<1>1. CASE Mounts!Device
  BY <1>1 DEF MountInv, Mounts!Device, Mounts!tree, Mounts!fs
<1>2. ASSUME NEW p \in MountPoints, NEW fails \in {"none", "super", "table"}, Mounts!Mount(p, fails)
      PROVE  MountInv'
  <2>1. /\ ~a_shared /\ ~a_mounted /\ a_disk' = a_disk /\ a_flag = {}
    BY <1>2 DEF Mounts!Mount, MountInv
  <2>2. CASE fails = "table"
    BY <1>2, <2>1, <2>2 DEF Mounts!Mount, Mounts!tree, MountInv
  <2>3. CASE fails # "table"
    <3>1. a_table' = a_disk /\ a_mounted' = TRUE /\ a_flag' = {p}
      BY <1>2, <2>1, <2>3 DEF Mounts!Mount
    <3> QED BY <2>1, <3>1 DEF MountInv
  <2> QED BY <2>2, <2>3
<1>3. ASSUME NEW p \in MountPoints, Mounts!Unmount(p)
      PROVE  MountInv'
  <2>1. ~a_shared /\ p \in a_flag /\ a_mounted' = FALSE /\ a_flag' = a_flag \ {p}
    BY <1>3 DEF Mounts!Unmount
  <2>2. a_flag' = {}
    BY <2>1 DEF MountInv
  <2> QED BY <2>1, <2>2 DEF MountInv
<1>4. ASSUME NEW p \in MountPoints, NEW name \in MountNames, Mounts!Create(p, name)
      PROVE  MountInv'
  BY <1>4 DEF Mounts!Create, Mounts!CreateAt, MountInv
<1>5. ASSUME NEW p \in MountPoints, NEW name \in MountNames, Mounts!Remove(p, name)
      PROVE  MountInv'
  BY <1>5 DEF Mounts!Remove, MountInv
<1>6. ASSUME NEW p \in MountPoints, NEW name \in MountNames, NEW create \in BOOLEAN,
             Mounts!Open(p, name, create)
      PROVE  MountInv'
  BY <1>6 DEF Mounts!Open, Mounts!CreateAt, MountInv
<1>7. ASSUME NEW f \in MountFds, Mounts!ReadWrite(f) \/ Mounts!Close(f)
      PROVE  MountInv'
  BY <1>7 DEF Mounts!ReadWrite, Mounts!Close, Mounts!tree, Mounts!fs, MountInv
<1>8. CASE UNCHANGED Mounts!vars
  BY <1>8 DEF Mounts!vars, MountInv
<1> QED BY <1>1, <1>2, <1>3, <1>4, <1>5, <1>6, <1>7, <1>8 DEF Mounts!Next

(* MountsAgree: one mount at a time leaves one point, and it shows what the disk holds. *)
THEOREM MountsTheorem == MCSpec => []MountsAgree
<1>1. MCInit => MountInv
  BY DEF MCInit, Mounts!Init, MountInv
<1>2. MountInv /\ [MCNext]_all => MountInv'
  <2>1. [MCNext]_all => [Mounts!Next]_(Mounts!vars)
    BY DEF MCNext, all, others, adapterVars, Mounts!vars, TreeOnly, MountsOnly, DriveOnly, ToolsOnly,
           PacksOnly, DiskOnly, PromptOnly, SetupOnly
  <2> QED BY <2>1, MountStep
<1>3. MountInv => MountsAgree
  <2>0. Mounts!Cardinality(a_flag) = Cardinality(a_flag)
    BY DEF Mounts!Cardinality, Cardinality
  <2> SUFFICES ASSUME MountInv, ~a_shared
               PROVE  /\ a_mounted <=> a_flag # {}
                      /\ a_mounted => a_table = a_disk /\ Cardinality(a_flag) = 1
    BY <2>0 DEF MountsAgree, Mounts!MountsAgree
  <2>1. CASE a_mounted
    <3>1. PICK p \in MountPoints : a_flag = {p}
      BY <2>1 DEF MountInv
    <3>2. Cardinality({p}) = 1
      BY FS_Singleton
    <3> QED BY <2>1, <3>1, <3>2 DEF MountInv
  <2>2. CASE ~a_mounted
    BY <2>2 DEF MountInv
  <2> QED BY <2>1, <2>2
<1> QED BY <1>1, <1>2, <1>3, PTL DEF MCSpec

----------------------------------------------------------------------------
(* The numbers of a transfer. *)
LEMMA RoundUp ==
  ASSUME NEW b \in Nat \ {0}, NEW n \in Nat
  PROVE  (n + b - 1) \div b \in Nat
<1>1. n + b - 1 \in Nat
  OBVIOUS
<1> DEFINE a == n + b - 1
<1>2. a \div b \in Nat
  <2> HIDE DEF a
  <2>1. a \in Nat
    BY <1>1 DEF a
  <2> QED BY <2>1
<1> QED BY <1>2

(* The count register holds the number of sectors as long as that is below its limit. *)
LEMMA CutOff ==
  ASSUME NEW c \in Nat \ {0}, NEW n \in Nat
  PROVE  /\ n % c \in 0 .. c - 1 /\ n % c <= n
         /\ n < c => n % c = n
OBVIOUS

(* The first n sectors from l on, and a medium on which they were written. *)
Fetched(m, l, n) == [k \in 1 .. n |-> m[l + k - 1]]
Stored(m, d, l, n) == [s \in Drive!Lba |-> IF s \in l .. l + n - 1 THEN d[s - l + 1] ELSE m[s]]

(* Reading one more sector. *)
LEMMA FetchedNext ==
  ASSUME NEW m, NEW l \in Nat, NEW n \in Nat
  PROVE  Append(Fetched(m, l, n), m[l + n]) = Fetched(m, l, n + 1)
<1> DEFINE S == {m[l + k - 1] : k \in 1 .. n + 1}
           q == Fetched(m, l, n)
           x == m[l + n]
           r == Append(q, x)
<1>1. q \in Seq(S) /\ Len(q) = n /\ \A k \in 1 .. n : q[k] = m[l + k - 1]
  <2>1. \A k \in 1 .. n : m[l + k - 1] \in S
    <3>1. \A k \in 1 .. n : k \in 1 .. n + 1
      OBVIOUS
    <3> QED BY <3>1
  <2>2. q = [k \in 1 .. n |-> m[l + k - 1]]
    BY DEF Fetched
  <2> HIDE DEF q, S
  <2> QED BY <2>1, <2>2
<1>2. x \in S
  <2>1. n + 1 \in 1 .. n + 1 /\ l + (n + 1) - 1 = l + n
    OBVIOUS
  <2> QED BY <2>1
<1> HIDE DEF q, x, S
<1>3. /\ r \in Seq(S) /\ Len(r) = n + 1 /\ r[n + 1] = x
      /\ \A k \in 1 .. n : r[k] = q[k]
  BY <1>1, <1>2, AppendProperties
<1>4. \A k \in 1 .. n + 1 : r[k] = m[l + k - 1]
  <2> SUFFICES ASSUME NEW k \in 1 .. n + 1 PROVE r[k] = m[l + k - 1]
    OBVIOUS
  <2>1. CASE k = n + 1
    BY <1>3, <2>1 DEF x
  <2>2. CASE k # n + 1
    BY <1>1, <1>3, <2>2
  <2> QED BY <2>1, <2>2
<1> HIDE DEF r
<1>5. r = [k \in 1 .. n + 1 |-> r[k]]
  BY <1>3, LenProperties
<1>6. r = Fetched(m, l, n + 1)
  BY <1>4, <1>5 DEF Fetched
<1> QED BY <1>6 DEF r, q, x

Put(m, s, v) == [m EXCEPT ![s] = v]

(* Writing one more sector. *)
LEMMA StoredNext ==
  ASSUME NEW m, NEW d, NEW l \in Nat, NEW n \in Nat, l + n \in Drive!Lba
  PROVE  Put(Stored(m, d, l, n), l + n, d[n + 1]) = Stored(m, d, l, n + 1)
<1>1. \A s \in Drive!Lba :
        [Stored(m, d, l, n) EXCEPT ![l + n] = d[n + 1]][s] = Stored(m, d, l, n + 1)[s]
  <2> SUFFICES ASSUME NEW s \in Drive!Lba
               PROVE  [Stored(m, d, l, n) EXCEPT ![l + n] = d[n + 1]][s] = Stored(m, d, l, n + 1)[s]
    OBVIOUS
  <2>0. s \in Int
    BY MachineConstants DEF Drive!Lba, Drive!IdeConstants
  <2>1. CASE s = l + n
    <3>1. s - l + 1 = n + 1 /\ s \in l .. l + (n + 1) - 1
      BY <2>0, <2>1
    <3> QED BY <2>1, <3>1 DEF Stored
  <2>2. CASE s # l + n
    <3>1. s \in l .. l + (n + 1) - 1 <=> s \in l .. l + n - 1
      BY <2>0, <2>2
    <3> QED BY <2>2, <3>1 DEF Stored
  <2> QED BY <2>1, <2>2
<1> QED BY <1>1 DEF Stored, Put

(* The call of the shell. *)
DrivePlaces == {"idle", "count", "lba", "command", "sectors", "flush", "done"}
DriveWords  == SectorValues \cup {NoData}
DriveResults == {0, -1}
DriveCalls  ==
  [op : {"read", "write"}, at : DrivePlaces, lba : Drive!Lba, size : TransferSizes, i : Nat,
   data : Seq(DriveWords), result : DriveResults]

DriveTypes ==
  /\ media \in [Drive!Lba -> DriveWords]
  /\ call = Drive!Idle \/ call \in DriveCalls
  /\ call # Drive!Idle =>
       /\ call.at # "idle"
       /\ call.lba + Drive!Asked(call.size) <= SectorsOfDisk
       /\ call.op = "write" => Len(call.data) = Drive!Asked(call.size)
       /\ call.at \in {"count", "lba", "command"} => call.i = 0
       /\ call.at = "sectors" => call.i < Drive!NumSectors(call.size)

(* A call that no program came into: what the drive is told, and what has gone over. *)
DriveAlone ==
  call # Drive!Idle /\ ~overlap =>
    /\ call.at \in {"lba", "command"} => count = Drive!NumSectors(call.size)
    /\ call.at = "command" => lba = call.lba
    /\ call.at = "sectors" =>
         job = [op |-> call.op, lba |-> call.lba + call.i, left |-> Drive!NumSectors(call.size) - call.i]
    /\ call.at = "flush" \/ (call.at = "done" /\ call.result = 0) => call.i = Drive!NumSectors(call.size)
    /\ call.op = "read"  => media = before /\ call.data = Fetched(before, call.lba, call.i)
    /\ call.op = "write" => media = Stored(before, call.data, call.lba, call.i)

DriveInv == DriveTypes /\ DriveAlone

(* The numbers of sectors that a transfer of each size has and asks for. *)
LEMMA DriveBasics ==
  /\ SectorsOfDisk \in Nat \ {0} /\ BytesOfSector \in Nat \ {0} /\ SectorCounts \in Nat \ {0}
  /\ Drive!Lba = 0 .. SectorsOfDisk - 1
  /\ \A n \in TransferSizes :
       /\ Drive!Asked(n) \in Nat
       /\ Drive!NumSectors(n) \in 0 .. SectorCounts - 1
       /\ Drive!NumSectors(n) <= Drive!Asked(n)
       /\ Drive!Asked(n) < SectorCounts => Drive!NumSectors(n) = Drive!Asked(n)
<1>1. /\ SectorsOfDisk \in Nat \ {0} /\ BytesOfSector \in Nat \ {0} /\ SectorCounts \in Nat \ {0}
      /\ TransferSizes \subseteq Nat /\ Drive!Lba = 0 .. SectorsOfDisk - 1
  BY MachineConstants DEF Drive!IdeConstants, Drive!Lba
<1>2. ASSUME NEW n \in TransferSizes
      PROVE  /\ Drive!Asked(n) \in Nat
             /\ Drive!NumSectors(n) \in 0 .. SectorCounts - 1
             /\ Drive!NumSectors(n) <= Drive!Asked(n)
             /\ Drive!Asked(n) < SectorCounts => Drive!NumSectors(n) = Drive!Asked(n)
  <2>1. Drive!Asked(n) \in Nat
    BY <1>1, RoundUp DEF Drive!Asked
  <2>2. Drive!NumSectors(n) = Drive!Asked(n) % SectorCounts
    BY DEF Drive!NumSectors, Drive!Asked
  <2> QED BY <1>1, <2>1, <2>2, CutOff
<1> QED BY <1>1, <1>2

(* The call goes on: its place changes, and with it a few of its fields. *)
Going(c, at, i, data, result) == [c EXCEPT !.at = at, !.i = i, !.data = data, !.result = result]

(* What a call is for stays when its place changes. *)
LEMMA CallGoes ==
  ASSUME NEW c \in DriveCalls, NEW at \in DrivePlaces, NEW i \in Nat, NEW data \in Seq(DriveWords),
         NEW result \in DriveResults, at # "idle"
  PROVE  LET r == Going(c, at, i, data, result)
         IN  /\ r \in DriveCalls /\ r # Drive!Idle
             /\ r.at = at /\ r.i = i /\ r.data = data /\ r.result = result
             /\ r.op = c.op /\ r.lba = c.lba /\ r.size = c.size
<1> DEFINE r == Going(c, at, i, data, result)
<1>1. r \in DriveCalls
  BY DEF DriveCalls, Going
<1>2. /\ r.at = at /\ r.i = i /\ r.data = data /\ r.result = result
      /\ r.op = c.op /\ r.lba = c.lba /\ r.size = c.size
  BY DEF DriveCalls, Going
<1>3. r # Drive!Idle
  BY <1>2 DEF Drive!Idle
<1> QED BY <1>1, <1>2, <1>3

(* The drive before the first call. *)
LEMMA DriveInitial == Drive!Init => DriveInv
BY DEF Drive!Init, DriveInv, DriveTypes, DriveAlone, DriveWords

(* A call of the shell begins (ide_read_wrapper, ide_write_wrapper). *)
LEMMA CallKeeps ==
  ASSUME DriveInv, NEW op \in {"read", "write"}, NEW at \in Drive!Lba, NEW bytes \in TransferSizes,
         NEW data \in UNION {[1 .. n -> SectorValues] : n \in 0 .. SectorsOfDisk},
         Drive!Call(op, at, bytes, data)
  PROVE  DriveInv'
<1> USE DriveBasics
<1> DEFINE whole == ~(op = "write" /\ bytes % BytesOfSector # 0)
<1>0. /\ at + Drive!Asked(bytes) <= SectorsOfDisk
      /\ Len(data) = IF op = "write" THEN Drive!Asked(bytes) ELSE 0
      /\ call' = [op |-> op, lba |-> at, size |-> bytes, i |-> 0, data |-> data,
                  at |-> IF whole THEN "count" ELSE "done",
                  result |-> IF whole THEN 0 ELSE -1]
      /\ before' = media /\ overlap' = FALSE
      /\ UNCHANGED <<media, nodes, count, lba, job>>
  BY DEF Drive!Call, Drive!Fail
<1>1. data \in Seq(DriveWords)
  <2>1. PICK n \in 0 .. SectorsOfDisk : data \in [1 .. n -> SectorValues]
    OBVIOUS
  <2>2. n \in Nat /\ data \in [1 .. n -> DriveWords]
    BY <2>1 DEF DriveWords
  <2> QED BY <2>2
<1>2. ~whole => op = "write"
  OBVIOUS
<1> HIDE DEF whole
<1>3. /\ call'.op = op /\ call'.lba = at /\ call'.size = bytes /\ call'.i = 0 /\ call'.data = data
      /\ call'.at = IF whole THEN "count" ELSE "done"
      /\ call'.result = IF whole THEN 0 ELSE -1
  BY <1>0
<1>4. call' \in DriveCalls /\ call' # Drive!Idle
  BY <1>0, <1>1 DEF DriveCalls, DrivePlaces, DriveResults, Drive!Idle
<1>5. DriveTypes'
  BY <1>0, <1>3, <1>4 DEF DriveInv, DriveTypes
<1>6. Fetched(before', at, 0) = <<>> /\ Stored(before', data, at, 0) = media
  <2>1. 1 .. 0 = {} /\ at .. at + 0 - 1 = {}
    OBVIOUS
  <2>2. media = [s \in Drive!Lba |-> media[s]]
    BY DEF DriveInv, DriveTypes
  <2> QED BY <1>0, <2>1, <2>2 DEF Fetched, Stored
<1>7. op = "read" => data = <<>>
  BY <1>0, <1>1, EmptySeq
<1>8. DriveAlone'
  BY <1>0, <1>2, <1>3, <1>6, <1>7 DEF DriveAlone
<1> QED BY <1>5, <1>8 DEF DriveInv

(* The registers are written one by one; a wait may give up. *)
LEMMA RegistersKeep ==
  ASSUME DriveInv, Drive!GiveUp \/ Drive!SetCount \/ Drive!SetLba \/ Drive!Command \/ Drive!Flush
  PROVE  DriveInv'
<1> USE DriveBasics
<1>1. call # Drive!Idle /\ call \in DriveCalls /\ UNCHANGED <<media, before, overlap>>
  BY DEF Drive!GiveUp, Drive!SetCount, Drive!SetLba, Drive!Command, Drive!Flush, Drive!Idle,
         DriveInv, DriveTypes
<1>2. /\ call.i \in Nat /\ call.data \in Seq(DriveWords) /\ call.result \in DriveResults
      /\ call.size \in TransferSizes /\ call.op \in {"read", "write"}
  BY <1>1 DEF DriveCalls
<1> DEFINE Goes(at, result) == call' = Going(call, at, call.i, call.data, result)
           Fits(at) == /\ at \in {"count", "lba", "command"} => call.i = 0
                       /\ at = "sectors" => call.i < Drive!NumSectors(call.size)
<1>3. ASSUME NEW at \in DrivePlaces, at # "idle", NEW result \in DriveResults, Goes(at, result)
      PROVE  /\ call' \in DriveCalls /\ call' # Drive!Idle
             /\ call'.at = at /\ call'.i = call.i /\ call'.data = call.data /\ call'.result = result
             /\ call'.op = call.op /\ call'.lba = call.lba /\ call'.size = call.size
             /\ Fits(at) => DriveTypes'
  <2>1. /\ call' \in DriveCalls /\ call' # Drive!Idle
        /\ call'.at = at /\ call'.i = call.i /\ call'.data = call.data /\ call'.result = result
        /\ call'.op = call.op /\ call'.lba = call.lba /\ call'.size = call.size
    BY <1>1, <1>2, <1>3, CallGoes
  <2>2. Fits(at) => DriveTypes'
    BY <1>1, <1>3, <2>1 DEF DriveInv, DriveTypes, DrivePlaces
  <2> QED BY <2>1, <2>2
<1>4. {"lba", "command", "sectors", "flush", "done"} \subseteq DrivePlaces
  BY DEF DrivePlaces
<1>5. CASE Drive!GiveUp
  <2>1. Goes("done", -1) /\ -1 \in DriveResults
    BY <1>1, <1>5 DEF Drive!GiveUp, Drive!Fail, Going, DriveCalls, DriveResults
  <2> HIDE DEF Goes
  <2>2. DriveTypes' /\ call'.at = "done" /\ call'.i = call.i /\ call'.data = call.data
        /\ call'.result = -1 /\ call'.op = call.op /\ call'.lba = call.lba /\ call'.size = call.size
    BY <1>3, <1>4, <2>1
  <2>3. DriveAlone'
    BY <1>1, <2>2 DEF DriveInv, DriveAlone
  <2> QED BY <2>2, <2>3 DEF DriveInv
<1>6. CASE Drive!SetCount
  <2>1. Goes("lba", call.result) /\ count' = Drive!NumSectors(call.size) /\ call.at = "count"
    BY <1>1, <1>6 DEF Drive!SetCount, Going, DriveCalls
  <2>f. Fits("lba")
    BY <1>1, <2>1 DEF DriveInv, DriveTypes
  <2> HIDE DEF Goes, Fits
  <2>2. DriveTypes' /\ call'.at = "lba" /\ call'.i = call.i /\ call'.data = call.data
        /\ call'.result = call.result /\ call'.op = call.op /\ call'.lba = call.lba
        /\ call'.size = call.size
    BY <1>2, <1>3, <1>4, <2>1, <2>f
  <2>3. DriveAlone'
    BY <1>1, <2>1, <2>2 DEF DriveInv, DriveAlone
  <2> QED BY <2>2, <2>3 DEF DriveInv
<1>7. CASE Drive!SetLba
  <2>1. /\ Goes("command", call.result) /\ lba' = call.lba /\ count' = count /\ call.at = "lba"
    BY <1>1, <1>7 DEF Drive!SetLba, Going, DriveCalls
  <2>f. Fits("command")
    BY <1>1, <2>1 DEF DriveInv, DriveTypes
  <2> HIDE DEF Goes, Fits
  <2>2. DriveTypes' /\ call'.at = "command" /\ call'.i = call.i /\ call'.data = call.data
        /\ call'.result = call.result /\ call'.op = call.op /\ call'.lba = call.lba
        /\ call'.size = call.size
    BY <1>2, <1>3, <1>4, <2>1, <2>f
  <2>3. DriveAlone'
    BY <1>1, <2>1, <2>2 DEF DriveInv, DriveAlone
  <2> QED BY <2>2, <2>3 DEF DriveInv
<1>8. CASE Drive!Command
  <2> DEFINE n == Drive!NumSectors(call.size)
             at == IF n # 0 THEN "sectors" ELSE IF call.op = "write" THEN "flush" ELSE "done"
  <2>1. /\ Goes(at, call.result) /\ call.at = "command"
        /\ job' = [op |-> call.op, lba |-> lba, left |-> IF count = 0 THEN SectorCounts ELSE count]
    BY <1>1, <1>8 DEF Drive!Command, Going, DriveCalls
  <2>2. at \in DrivePlaces /\ at # "idle" /\ n \in 0 .. SectorCounts - 1 /\ n = Drive!NumSectors(call.size)
    BY <1>2, <1>4
  <2>3. (at = "sectors" => n # 0) /\ (at # "sectors" => n = 0)
        /\ (at = "flush" => call.op = "write") /\ at \in {"sectors", "flush", "done"}
    OBVIOUS
  <2>4. call.i = 0 /\ (~overlap => count = n /\ lba = call.lba)
    BY <1>1, <2>1 DEF DriveInv, DriveTypes, DriveAlone
  <2>5. Fits(at)
    BY <2>2, <2>3, <2>4
  <2> HIDE DEF Goes, Fits, at, n
  <2>6. /\ DriveTypes' /\ call'.at = at /\ call'.i = call.i /\ call'.data = call.data
        /\ call'.result = call.result /\ call'.op = call.op /\ call'.lba = call.lba
        /\ call'.size = call.size
    BY <1>2, <1>3, <2>1, <2>2, <2>3, <2>5
  <2>7. ASSUME ~overlap
        PROVE  /\ at = "sectors" => job' = [op |-> call.op, lba |-> call.lba + call.i, left |-> n - call.i]
               /\ at # "sectors" => call.i = n
    <3>1. call.lba \in Int /\ n \in Int
      BY <1>1, <2>2 DEF DriveCalls
    <3> QED BY <2>1, <2>3, <2>4, <2>7, <3>1
  <2>8. DriveAlone'
    <3> SUFFICES ASSUME ~overlap PROVE DriveAlone'
      BY <1>1 DEF DriveAlone
    <3>1. /\ at = "sectors" =>
              job' = [op |-> call'.op, lba |-> call'.lba + call'.i, left |-> n - call'.i]
          /\ at # "sectors" => call'.i = n
          /\ Drive!NumSectors(call'.size) = n
      BY <2>2, <2>6, <2>7
    <3>2. /\ call.op = "read"  => media = before /\ call.data = Fetched(before, call.lba, call.i)
          /\ call.op = "write" => media = Stored(before, call.data, call.lba, call.i)
      BY <1>1 DEF DriveInv, DriveAlone
    <3>3. /\ call'.op = "read"  => media' = before' /\ call'.data = Fetched(before', call'.lba, call'.i)
          /\ call'.op = "write" => media' = Stored(before', call'.data, call'.lba, call'.i)
      BY <1>1, <2>6, <3>2
    <3>4. call'.at \in {"sectors", "flush", "done"} /\ (call'.at = "sectors" <=> at = "sectors")
      BY <2>3, <2>6
    <3> QED BY <3>1, <3>3, <3>4 DEF DriveAlone
  <2> QED BY <2>6, <2>8 DEF DriveInv
<1>9. CASE Drive!Flush
  <2>1. Goes("done", call.result) /\ call.at = "flush"
    BY <1>1, <1>9 DEF Drive!Flush, Going, DriveCalls
  <2>2. Fits("done")
    OBVIOUS
  <2> HIDE DEF Goes, Fits
  <2>3. /\ DriveTypes' /\ call'.at = "done" /\ call'.i = call.i /\ call'.data = call.data
        /\ call'.result = call.result /\ call'.op = call.op /\ call'.lba = call.lba
        /\ call'.size = call.size
    BY <1>2, <1>3, <1>4, <2>1, <2>2
  <2>4. DriveAlone'
    BY <1>1, <2>1, <2>3 DEF DriveInv, DriveAlone
  <2> QED BY <2>3, <2>4 DEF DriveInv
<1> QED BY <1>5, <1>6, <1>7, <1>8, <1>9

(* One sector goes over the data port. *)
LEMMA SectorsKeep ==
  ASSUME DriveInv, Drive!ReadSector \/ Drive!WriteSector
  PROVE  DriveInv'
<1> USE DriveBasics
<1> DEFINE n == Drive!NumSectors(call.size)
           at == IF call.i + 1 < n THEN "sectors" ELSE IF call.op = "write" THEN "flush" ELSE "done"
<1>1. /\ call # Drive!Idle /\ call \in DriveCalls /\ call.at = "sectors"
      /\ UNCHANGED <<nodes, count, lba, before, overlap>>
      /\ job' = Drive!NextJob
  BY DEF Drive!ReadSector, Drive!WriteSector, Drive!Idle, DriveInv, DriveTypes
<1>2. /\ call.i \in Nat /\ call.data \in Seq(DriveWords) /\ call.result \in DriveResults
      /\ call.size \in TransferSizes /\ call.op \in {"read", "write"} /\ call.lba \in Drive!Lba
      /\ call.lba \in Nat /\ call.lba + Drive!Asked(call.size) <= SectorsOfDisk
      /\ media \in [Drive!Lba -> DriveWords]
  BY <1>1 DEF DriveCalls, DriveInv, DriveTypes
<1>3. n \in Nat /\ call.i < n /\ n <= Drive!Asked(call.size) /\ Drive!Asked(call.size) \in Nat
  BY <1>1, <1>2 DEF DriveInv, DriveTypes
<1>4. /\ at \in DrivePlaces /\ at \in {"sectors", "flush", "done"}
      /\ at = "sectors" => call.i + 1 < n
      /\ at # "sectors" => call.i + 1 = n
  BY <1>2, <1>3 DEF DrivePlaces
<1>n. call.i + 1 \in Nat /\ at # "idle"
  BY <1>2, <1>4
<1>5. call.lba + call.i \in Drive!Lba
  BY <1>2, <1>3
<1>6. ASSUME ~overlap
      PROVE  /\ Drive!Port = call.lba + call.i
             /\ at = "sectors" =>
                  job' = [op |-> call.op, lba |-> call.lba + (call.i + 1), left |-> n - (call.i + 1)]
  <2>1. job = [op |-> call.op, lba |-> call.lba + call.i, left |-> n - call.i]
    BY <1>1, <1>6 DEF DriveInv, DriveAlone
  <2>2. n - call.i > 0
    BY <1>2, <1>3
  <2>3. Drive!Port = call.lba + call.i
    BY <1>5, <2>1, <2>2 DEF Drive!Port
  <2>4. Drive!Port # Drive!Fail
    BY <1>2, <2>3 DEF Drive!Fail
  <2>5. job' = [job EXCEPT !.lba = @ + 1, !.left = @ - 1]
    BY <1>1, <2>4 DEF Drive!NextJob
  <2>6. call.lba + call.i + 1 = call.lba + (call.i + 1) /\ n - call.i - 1 = n - (call.i + 1)
    BY <1>2, <1>3
  <2> HIDE DEF n, at
  <2> QED BY <2>1, <2>3, <2>5, <2>6
<1>7. CASE Drive!ReadSector
  <2> DEFINE d == Append(call.data, IF Drive!Port = Drive!Fail THEN NoData ELSE media[Drive!Port])
  <2>1. /\ call.op = "read" /\ media' = media
        /\ call' = Going(call, at, call.i + 1, d, call.result)
    BY <1>1, <1>7 DEF Drive!ReadSector, Drive!NextTurn, Going, DriveCalls
  <2>2. d \in Seq(DriveWords)
    <3>1. Drive!Port = Drive!Fail \/ Drive!Port \in Drive!Lba
      BY DEF Drive!Port
    <3>2. (IF Drive!Port = Drive!Fail THEN NoData ELSE media[Drive!Port]) \in DriveWords
      BY <1>2, <3>1 DEF DriveWords
    <3> QED BY <1>2, <3>2, AppendProperties
  <2> HIDE DEF d, at
  <2>3. /\ call' \in DriveCalls /\ call' # Drive!Idle
        /\ call'.at = at /\ call'.i = call.i + 1 /\ call'.data = d /\ call'.result = call.result
        /\ call'.op = call.op /\ call'.lba = call.lba /\ call'.size = call.size
    <3> DEFINE j == call.i + 1
    <3>1. call' = Going(call, at, j, d, call.result) /\ j \in Nat /\ at # "idle"
      BY <1>n, <2>1
    <3> HIDE DEF j
    <3>2. /\ call' \in DriveCalls /\ call' # Drive!Idle
          /\ call'.at = at /\ call'.i = j /\ call'.data = d /\ call'.result = call.result
          /\ call'.op = call.op /\ call'.lba = call.lba /\ call'.size = call.size
      BY <1>1, <1>2, <1>4, <2>2, <3>1, CallGoes
    <3> QED BY <3>2 DEF j
  <2>4. DriveTypes'
    BY <1>1, <1>2, <1>4, <2>1, <2>3 DEF DriveInv, DriveTypes
  <2>5. DriveAlone'
    <3> SUFFICES ASSUME ~overlap PROVE DriveAlone'
      BY <1>1 DEF DriveAlone
    <3>1. media = before /\ call.data = Fetched(before, call.lba, call.i)
      BY <1>1, <2>1 DEF DriveInv, DriveAlone
    <3>2. Drive!Port = call.lba + call.i /\ Drive!Port # Drive!Fail
      BY <1>2, <1>6 DEF Drive!Fail
    <3>3. d = Append(Fetched(before, call.lba, call.i), before[call.lba + call.i])
      BY <3>1, <3>2 DEF d
    <3>4. d = Fetched(before, call.lba, call.i + 1)
      BY <1>2, <3>3, FetchedNext
    <3> HIDE DEF n
    <3>5. /\ at = "sectors" =>
               job' = [op |-> call'.op, lba |-> call'.lba + call'.i, left |-> n - call'.i]
          /\ at # "sectors" => call'.i = n
      BY <1>4, <1>6, <2>3
    <3>6. n = Drive!NumSectors(call'.size)
      BY <2>3 DEF n
    <3> QED BY <1>1, <1>4, <2>1, <2>3, <3>1, <3>4, <3>5, <3>6 DEF DriveAlone
  <2> QED BY <2>4, <2>5 DEF DriveInv
<1>8. CASE Drive!WriteSector
  <2>1. /\ call.op = "write"
        /\ media' = IF Drive!Port = Drive!Fail THEN media
                    ELSE [media EXCEPT ![Drive!Port] = call.data[call.i + 1]]
        /\ call' = Going(call, at, call.i + 1, call.data, call.result)
    BY <1>1, <1>8 DEF Drive!WriteSector, Drive!NextTurn, Going, DriveCalls
  <2> HIDE DEF at
  <2>2. /\ call' \in DriveCalls /\ call' # Drive!Idle
        /\ call'.at = at /\ call'.i = call.i + 1 /\ call'.data = call.data /\ call'.result = call.result
        /\ call'.op = call.op /\ call'.lba = call.lba /\ call'.size = call.size
    <3> DEFINE j == call.i + 1
    <3>1. call' = Going(call, at, j, call.data, call.result) /\ j \in Nat /\ at # "idle"
      BY <1>n, <2>1
    <3> HIDE DEF j
    <3>2. /\ call' \in DriveCalls /\ call' # Drive!Idle
          /\ call'.at = at /\ call'.i = j /\ call'.data = call.data /\ call'.result = call.result
          /\ call'.op = call.op /\ call'.lba = call.lba /\ call'.size = call.size
      BY <1>1, <1>2, <1>4, <3>1, CallGoes
    <3> QED BY <3>2 DEF j
  <2>3. media' \in [Drive!Lba -> DriveWords]
    <3>1. Len(call.data) = Drive!Asked(call.size)
      BY <1>1, <2>1 DEF DriveInv, DriveTypes
    <3>2. call.i + 1 \in 1 .. Len(call.data)
      BY <1>2, <1>3, <3>1
    <3>3. call.data[call.i + 1] \in DriveWords
      BY <1>2, <3>2, ElementOfSeq
    <3> QED BY <1>2, <2>1, <3>3
  <2>4. DriveTypes'
    BY <1>1, <1>2, <1>4, <2>1, <2>2, <2>3 DEF DriveInv, DriveTypes
  <2>5. DriveAlone'
    <3> SUFFICES ASSUME ~overlap PROVE DriveAlone'
      BY <1>1 DEF DriveAlone
    <3>1. media = Stored(before, call.data, call.lba, call.i)
      BY <1>1, <2>1 DEF DriveInv, DriveAlone
    <3>2. Drive!Port = call.lba + call.i /\ Drive!Port # Drive!Fail
      BY <1>2, <1>6 DEF Drive!Fail
    <3>3. media' = Put(Stored(before, call.data, call.lba, call.i), call.lba + call.i,
                       call.data[call.i + 1])
      BY <2>1, <3>1, <3>2 DEF Put
    <3>4. media' = Stored(before, call.data, call.lba, call.i + 1)
      BY <1>2, <1>5, <3>3, StoredNext
    <3> HIDE DEF n
    <3>5. /\ at = "sectors" =>
               job' = [op |-> call'.op, lba |-> call'.lba + call'.i, left |-> n - call'.i]
          /\ at # "sectors" => call'.i = n
      BY <1>4, <1>6, <2>2
    <3>6. n = Drive!NumSectors(call'.size)
      BY <2>2 DEF n
    <3> QED BY <1>1, <1>4, <2>1, <2>2, <3>4, <3>5, <3>6 DEF DriveAlone
  <2> QED BY <2>4, <2>5 DEF DriveInv
<1> QED BY <1>7, <1>8

(* Every step of the drive, the transfers of programs included. *)
LEMMA DriveStep ==
  ASSUME DriveInv, [Drive!Next]_(Drive!vars)
  PROVE  DriveInv'
<1>1. CASE \E ok \in BOOLEAN, listed \in SUBSET {"sda1", "sda2"} : Drive!Attach(ok, listed)
  BY <1>1 DEF Drive!Attach, DriveInv, DriveTypes, DriveAlone
<1>2. CASE \E op \in {"read", "write"}, at \in Drive!Lba, bytes \in TransferSizes,
              data \in UNION {[1 .. n -> SectorValues] : n \in 0 .. SectorsOfDisk} :
                Drive!Call(op, at, bytes, data)
  BY <1>2, CallKeeps
<1>3. CASE Drive!Return
  BY <1>3 DEF Drive!Return, DriveInv, DriveTypes, DriveAlone
<1>4. ASSUME NEW op \in {"read", "write"}, NEW at \in Drive!Lba, NEW value \in SectorValues,
             NEW ok \in BOOLEAN, Drive!ProgramCalls(op, at, value, ok)
      PROVE  DriveInv'
  <2>1. /\ media' \in {media, [media EXCEPT ![at] = value]} /\ call' = call
        /\ overlap' = (call.at # "idle")
    BY <1>4 DEF Drive!ProgramCalls
  <2>2. media' \in [Drive!Lba -> DriveWords]
    BY <2>1 DEF DriveInv, DriveTypes, DriveWords
  <2>3. call # Drive!Idle => overlap'
    BY <2>1 DEF DriveInv, DriveTypes
  <2>4. DriveTypes'
    BY <2>1, <2>2 DEF DriveInv, DriveTypes
  <2>5. DriveAlone'
    BY <2>1, <2>3 DEF DriveAlone
  <2> QED BY <2>4, <2>5 DEF DriveInv
<1>5. CASE UNCHANGED Drive!vars
  BY <1>5 DEF Drive!vars, DriveInv, DriveTypes, DriveAlone
<1> QED BY <1>1, <1>2, <1>3, <1>4, <1>5, RegistersKeep, SectorsKeep DEF Drive!Next

(* TransferSound: a transfer of the shell that no program came into brings or writes
   the sectors asked for, and a failed write a prefix of them. *)
THEOREM TransferTheorem == MCSpec => []TransferSound
<1>1. MCInit => DriveInv
  BY DriveInitial DEF MCInit
<1>2. DriveInv /\ [MCNext]_all => DriveInv'
  <2>1. [MCNext]_all => [Drive!Next]_(Drive!vars)
    BY DEF MCNext, all, others, driveVars, Drive!vars, TreeOnly, MountsOnly, DriveOnly, ToolsOnly,
           PacksOnly, DiskOnly, PromptOnly, SetupOnly
  <2> QED BY <2>1, DriveStep
<1>3. DriveInv => TransferSound
  <2> SUFFICES ASSUME DriveInv, call.at = "done", ~overlap, Drive!Asked(call.size) < SectorCounts
               PROVE  Drive!TransferSound
    BY DEF TransferSound, Drive!TransferSound
  <2> DEFINE n == Drive!Asked(call.size)
  <2>1. call \in DriveCalls /\ call # Drive!Idle
    BY DEF DriveInv, DriveTypes, Drive!Idle
  <2>2. call.result = 0 => call.i = n
    BY <2>1, DriveBasics DEF DriveInv, DriveAlone, DriveCalls
  <2>3. /\ call.op = "read"  => media = before /\ call.data = Fetched(before, call.lba, call.i)
        /\ call.op = "write" => media = Stored(before, call.data, call.lba, call.i)
    BY <2>1 DEF DriveInv, DriveAlone
  <2>4. call.op = "read" /\ call.result = 0 => call.data = [k \in 1 .. n |-> media[call.lba + k - 1]]
    BY <2>2, <2>3 DEF Fetched
  <2>5. call.op = "write" =>
          media = [s \in Drive!Lba |-> IF s \in call.lba .. call.lba + call.i - 1
                                       THEN call.data[s - call.lba + 1] ELSE before[s]]
    BY <2>3 DEF Stored
  <2> QED BY <2>2, <2>3, <2>4, <2>5 DEF Drive!TransferSound
<1> QED BY <1>1, <1>2, <1>3, PTL DEF MCSpec


----------------------------------------------------------------------------
(* The disk.  A table is a function from the slots to entries; the place of a
   call says what it has done so far. *)
DiskTables == [Disk!Slots -> Disk!Entries \cup {Free}]
DiskPlaces == {"super", "data", "table"}
DiskOps ==
  [kind : {"write", "create", "delete", "format", "unmount"}, pc : DiskPlaces,
   name : Names \cup {Closed}, slot : Disk!Slots,
   new : Seq(Nodes \X (1 .. LongestFile)) \cup {Closed}, i : Nat \ {0}]

DiskTypes ==
  /\ Disk!SuperOK(d_super) /\ Disk!SuperOK(d_sb)
  /\ d_table \in DiskTables
  /\ d_cache = Null \/ d_cache \in DiskTables
  /\ d_data \in [Disk!Blocks -> Disk!Chunks]
  /\ d_mounted \in BOOLEAN
  /\ d_cache # Null => d_mounted
  /\ d_mounted => d_sb # Garbage
  /\ DOMAIN d_content = Names /\ d_content = [n \in Names |-> d_content[n]]
  /\ d_faults \subseteq {"io", "format", "long"}
  /\ d_op = Disk!Idle \/ d_op \in DiskOps

(* The call in progress: its entry is in the cache, its data within the space
   that Fits found free. *)
DiskWrite ==
  d_op.kind = "write" =>
    /\ d_cache # Null /\ d_cache[d_op.slot] # Free
    /\ d_cache[d_op.slot].name = d_op.name
    /\ d_op.name \in Names
    /\ d_op.new \in Seq(Nodes \X (1 .. LongestFile)) /\ Len(d_op.new) <= LongestFile
    /\ d_op.pc \in {"super", "data"} /\ Len(d_op.new) > 0 =>
         /\ Disk!First <= d_cache[d_op.slot].start
         /\ d_cache[d_op.slot].start + Len(d_op.new) <= BlocksOfDisk
    /\ d_op.pc = "data" => d_op.i <= Len(d_op.new) + 1

DiskCall ==
  /\ DiskWrite
  /\ d_op.kind \in {"create", "delete"} => d_op.pc = "table" /\ d_op.name \in Names /\ d_cache # Null
  /\ d_op.kind \in {"format", "unmount"} => d_op.pc # "data"
  /\ d_op.kind = "unmount" => d_mounted
  /\ d_op # Disk!Idle /\ d_op.pc = "table" => d_op.i \in Disk!Slots

(* What of the table on the disk is not as in the cache: what was wiped by a
   format, and the entry of the call in progress. *)
DiskAgree ==
  /\ d_cache # Null => \A s \in Disk!Slots :
       \/ d_table[s] \in {Free, d_cache[s]}
       \/ d_op.kind \in {"write", "delete"} /\ d_op.slot = s /\ d_table[s].name = d_op.name
  /\ d_op.kind = "delete" => d_cache[d_op.slot] = Free
                             /\ \A r \in Disk!Slots : d_cache[r] # Free => d_cache[r].name # d_op.name
  /\ d_op.kind \in {"write", "create", "delete", "unmount"} /\ d_op.pc = "table" /\ d_cache # Null =>
       \A s \in Disk!Slots : s < d_op.i => d_table[s] = d_cache[s]

DiskNames ==
  "io" \notin d_faults =>
     /\ Disk!UniqueIn(d_table)
     /\ d_cache # Null => Disk!UniqueIn(d_cache)
     /\ DiskAgree

DiskInv == DiskTypes /\ Disk!SpaceAccounted /\ DiskCall /\ DiskNames

Held(t, d, name) ==
  LET found == {s \in Disk!Slots : t[s] # Free /\ t[s].name = name}
      e     == t[Disk!Lowest(found)]
  IN  IF found = {} THEN Closed
      ELSE [i \in 1 .. e.size |-> IF e.start + i - 1 \in Disk!Blocks THEN d[e.start + i - 1] ELSE Free]

(* What a call has made of its file so far. *)
Expected(name) ==
  IF /\ d_op.kind \in {"write", "create", "delete"} /\ d_op.name = name
     /\ d_op.pc = "table" /\ d_op.slot < d_op.i
  THEN d_op.new ELSE d_content[name]

Sure == d_faults = {} /\ d_op.kind # "format"

\* A format clears the table of a disk that nobody has mounted.
SureFormat == d_faults = {} /\ d_op.kind = "format" =>
   /\ d_cache = Null /\ ~d_mounted
   /\ d_op.pc = "table" => \A s \in Disk!Slots : s < d_op.i => d_table[s] = Free
\* Only the entry of the call in progress differs from the table on the disk,
SureTable == Sure /\ d_cache # Null => \A s \in Disk!Slots :
   d_table[s] = d_cache[s] \/ (d_op.kind \in {"write", "create", "delete"} /\ d_op.slot = s)
\* and only by its new block the superblock.
SureSuper == Sure /\ d_mounted =>
   /\ d_super # Garbage
   /\ \/ d_sb = d_super
      \/ d_op.kind = "write" /\ d_op.pc = "super" /\ d_sb.next = d_super.next + 1
\* The blocks of the files on the disk are below the next one of the superblock.
SureBlocks == Sure => \A s \in Disk!Slots : d_table[s] # Free /\ d_table[s].size > 0 =>
   /\ d_table[s].size = 1 /\ d_table[s].start \in Disk!Blocks
   /\ d_super # Garbage /\ d_table[s].start < d_super.next
\* So the new block is in no file on the disk while it is written.
SureWrite == Sure /\ d_op.kind = "write" =>
   LET e == d_cache[d_op.slot]
   IN  /\ Len(d_op.new) <= 1
       /\ Len(d_op.new) = 1 =>
            /\ d_op.pc = "super" => e.start = d_super.next /\ d_sb.next = d_super.next + 1
            /\ d_op.pc = "data" =>
                 /\ \A s \in Disk!Slots :
                      d_table[s] # Free /\ d_table[s].size > 0 => d_table[s].start # e.start
                 /\ d_op.i = 2 => d_data[e.start] = d_op.new[1]
            /\ d_op.pc # "super" => e.start < d_super.next
            /\ d_op.pc = "table" => e.start \in Disk!Blocks /\ d_data[e.start] = d_op.new[1]
       /\ d_op.pc = "table" => e.size = Len(d_op.new)
SureOther == Sure =>
   /\ d_op.kind = "create" =>
        LET e == d_cache[d_op.slot]
        IN  d_op.new = <<>> /\ e # Free /\ e.name = d_op.name /\ e.size = 0
   /\ d_op.kind = "delete" => d_op.new = Closed
\* A file is what the last call that wrote its entry made of it.
SureHeld == Sure => \A n \in Names : Held(d_table, d_data, n) = Expected(n)

SureInv == SureFormat /\ SureTable /\ SureSuper /\ SureBlocks /\ SureWrite /\ SureOther /\ SureHeld

----------------------------------------------------------------------------
(* What the constants of the disk are. *)
LEMMA DiskBasics ==
  /\ FilesOfDisk \in Nat \ {0} /\ BlocksOfDisk \in Nat /\ LongestFile \in Nat
  /\ Disk!First = 1 + FilesOfDisk /\ Disk!First < BlocksOfDisk
  /\ Disk!Slots = 1 .. FilesOfDisk
  /\ Disk!Blocks = Disk!First .. BlocksOfDisk - 1
  /\ Garbage \notin Disk!Supers /\ Free \notin Disk!Entries /\ Null \notin DiskTables
BY MachineConstants DEF Disk!DiskConstants, Disk!First, Disk!Slots, Disk!Blocks, DiskTables

(* A set of slots that is not empty has a lowest one. *)
LEMMA LowestLemma ==
  ASSUME NEW S \in SUBSET Disk!Slots, S # {}
  PROVE  Disk!Lowest(S) \in S
<1>1. S \in SUBSET (1 .. FilesOfDisk) /\ FilesOfDisk \in Nat
  BY DiskBasics
<1>2. Min(S) \in S
  BY <1>1, SearchLemma
<1> QED BY <1>2 DEF Min, Disk!Lowest

(* The slot a call works on is one that find_file_entry found. *)
LEMMA SlotFound ==
  ASSUME d_cache # Null, NEW name, Disk!find_file_entry(name) # {}
  PROVE  LET s == Disk!Lowest(Disk!find_file_entry(name))
         IN  s \in Disk!Slots /\ d_cache[s] # Free /\ d_cache[s].name = name
BY LowestLemma DEF Disk!find_file_entry, Disk!Used

(* The slot of a new file is a free one. *)
LEMMA SlotFree ==
  ASSUME Disk!FreeSlots # {}
  PROVE  LET s == Disk!Lowest(Disk!FreeSlots) IN s \in Disk!Slots /\ d_cache[s] = Free
BY LowestLemma DEF Disk!FreeSlots, Disk!Used

(* A disk without a file system. *)
LEMMA DiskInitial == Disk!Init => DiskInv
<1> SUFFICES ASSUME Disk!Init PROVE DiskInv
  OBVIOUS
<1> USE DEF Disk!Init
<1>1. DiskTypes
  BY DiskBasics DEF DiskTypes, Disk!SuperOK, DiskTables, Disk!Chunks, Disk!Nothing
<1>2. Disk!SpaceAccounted
  BY DEF Disk!SpaceAccounted
<1>3. DiskCall
  BY DEF DiskCall, DiskWrite, Disk!Idle
<1>4. DiskNames
  BY DEF DiskNames, DiskAgree, Disk!UniqueIn, Disk!Used, Disk!Idle
<1> QED BY <1>1, <1>2, <1>3, <1>4 DEF DiskInv

(* fs_write_file takes its block off the free ones. *)
LEMMA WriteKeeps ==
  ASSUME DiskInv, NEW name \in Names, NEW v \in Nodes, NEW n \in 0 .. LongestFile,
         Disk!fs_write_file(name, v, n)
  PROVE  DiskInv'
<1> DEFINE s == Disk!Lowest(Disk!find_file_entry(name))
<1> USE DiskBasics
<1>0. /\ d_op = Disk!Idle /\ d_cache # Null /\ n <= d_sb.free
      /\ d_cache' = [d_cache EXCEPT ![s].start = Disk!NewBlock(d_sb)]
      /\ d_op' = [kind |-> "write", pc |-> IF d_sb.free = 0 THEN "data" ELSE "super",
                  name |-> name, slot |-> s, new |-> Disk!File(v, n), i |-> 1]
      /\ d_sb' = Disk!Taken(d_sb)
      /\ d_faults' \in {d_faults, d_faults \cup {"long"}}
      /\ UNCHANGED <<d_super, d_table, d_data, d_mounted, d_content>>
  BY DEF Disk!fs_write_file, Disk!Begin, Disk!disk, Disk!Fits
<1>1. s \in Disk!Slots /\ d_cache[s] # Free /\ d_cache[s].name = name
  BY <1>0, SlotFound DEF Disk!fs_write_file
<1> HIDE DEF s
<1>2. /\ d_cache \in DiskTables /\ d_cache[s] \in Disk!Entries
      /\ d_sb \in Disk!Supers /\ d_sb.next + d_sb.free = BlocksOfDisk
  BY <1>0, <1>1 DEF DiskInv, DiskTypes, DiskTables, Disk!SuperOK, Disk!SpaceAccounted
<1>3. /\ d_sb.next \in Disk!First .. BlocksOfDisk /\ d_sb.free \in 0 .. BlocksOfDisk
      /\ Disk!First \in Nat
  BY <1>2 DEF Disk!Supers
<1>4. /\ Disk!NewBlock(d_sb) \in {0} \cup Disk!First .. BlocksOfDisk
      /\ Disk!Taken(d_sb) \in Disk!Supers
      /\ Disk!Taken(d_sb).next + Disk!Taken(d_sb).free = BlocksOfDisk
  BY <1>2, <1>3 DEF Disk!NewBlock, Disk!Taken, Disk!Supers
<1>5. [d_cache[s] EXCEPT !.start = Disk!NewBlock(d_sb)] \in Disk!Entries
  BY <1>2, <1>4 DEF Disk!Entries
<1>6. d_cache' \in DiskTables
  BY <1>0, <1>1, <1>2, <1>5 DEF DiskTables
<1>7. /\ \A r \in Disk!Slots : /\ d_cache'[r] = Free <=> d_cache[r] = Free
                               /\ d_cache[r] # Free => d_cache'[r].name = d_cache[r].name
                               /\ r # s => d_cache'[r] = d_cache[r]
      /\ d_cache'[s] = [d_cache[s] EXCEPT !.start = Disk!NewBlock(d_sb)]
      /\ d_cache'[s].start = Disk!NewBlock(d_sb)
  BY <1>0, <1>1, <1>2, <1>5 DEF DiskTables, Disk!Entries
<1>8. /\ Disk!File(v, n) \in Seq(Nodes \X (1 .. LongestFile))
      /\ Len(Disk!File(v, n)) = n
  BY DEF Disk!File
<1>9. d_op' \in DiskOps /\ d_op' # Disk!Idle
  BY <1>0, <1>1, <1>8 DEF DiskOps, DiskPlaces, Disk!Idle
<1>a. DiskTypes'
  <2>1. d_cache' # Null /\ d_mounted /\ d_sb' # Garbage /\ d_sb' \in Disk!Supers
    BY <1>0, <1>4, <1>6 DEF DiskInv, DiskTypes
  <2>2. d_faults' \subseteq {"io", "format", "long"}
    BY <1>0 DEF DiskInv, DiskTypes
  <2> QED BY <1>0, <1>6, <1>9, <2>1, <2>2 DEF DiskInv, DiskTypes, Disk!SuperOK
<1>b. Disk!SpaceAccounted'
  BY <1>0, <1>4 DEF DiskInv, Disk!SpaceAccounted
<1>c. DiskCall'
  <2>1. n > 0 => /\ d_cache'[s].start = d_sb.next /\ Disk!First <= d_sb.next
                 /\ d_sb.next + n <= BlocksOfDisk
    BY <1>0, <1>2, <1>3, <1>7 DEF Disk!NewBlock
  <2>2. d_op'.name = name /\ d_op'.slot = s /\ d_op'.new = Disk!File(v, n) /\ d_op'.i = 1
    BY <1>0
  <2>5. d_cache' # Null /\ n \in Nat /\ n <= LongestFile
    BY <1>6
  <2>3. d_cache'[s] # Free /\ d_cache'[s].name = name
    BY <1>1, <1>7
  <2>4. DiskWrite'
    BY <1>8, <2>1, <2>2, <2>3, <2>5 DEF DiskWrite
  <2> QED BY <1>0, <2>4 DEF DiskCall
<1>d. DiskNames'
  <2> SUFFICES ASSUME "io" \notin d_faults' PROVE DiskNames'
    BY DEF DiskNames
  <2>1. DiskNames /\ "io" \notin d_faults
    BY <1>0 DEF DiskInv
  <2>2. Disk!UniqueIn(d_cache')
    BY <1>7, <2>1, <1>0 DEF DiskNames, Disk!UniqueIn, Disk!Used
  <2>3. DiskAgree'
    BY <1>0, <1>1, <1>7, <2>1 DEF DiskNames, DiskAgree, Disk!Idle
  <2> QED BY <1>0, <2>1, <2>2, <2>3 DEF DiskNames, Disk!UniqueIn
<1> QED BY <1>a, <1>b, <1>c, <1>d DEF DiskInv

(* fs_create_file and fs_delete_file change one entry of the cache. *)
LEMMA CreateKeeps ==
  ASSUME DiskInv, NEW name \in Names, NEW kind \in {"file", "dir"},
         Disk!fs_create_file(name, kind)
  PROVE  DiskInv'
<1> DEFINE s == Disk!Lowest(Disk!FreeSlots)
           e == [name |-> name, kind |-> kind, start |-> 0, size |-> 0]
<1> USE DiskBasics
<1>0. /\ d_op = Disk!Idle /\ d_cache # Null /\ d_mounted /\ Disk!find_file_entry(name) = {}
      /\ d_cache' = [d_cache EXCEPT ![s] = e]
      /\ d_op' = [kind |-> "create", pc |-> "table", name |-> name, slot |-> s,
                  new |-> <<>>, i |-> 1]
      /\ UNCHANGED <<d_super, d_table, d_data, d_mounted, d_sb, d_content, d_faults>>
  BY DEF Disk!fs_create_file, Disk!Begin, Disk!disk
<1>1. s \in Disk!Slots /\ d_cache[s] = Free
  BY SlotFree DEF Disk!fs_create_file
<1> HIDE DEF s
<1>2. d_cache \in DiskTables /\ e \in Disk!Entries
  BY <1>0 DEF DiskInv, DiskTypes, Disk!Entries
<1> HIDE DEF e
<1>3. d_cache' \in DiskTables /\ d_cache'[s] = e
      /\ \A r \in Disk!Slots : r # s => d_cache'[r] = d_cache[r]
  BY <1>0, <1>1, <1>2 DEF DiskTables
<1>4. d_op' \in DiskOps /\ d_op' # Disk!Idle
  BY <1>0, <1>1 DEF DiskOps, DiskPlaces, Disk!Idle
<1>a. DiskTypes'
  BY <1>0, <1>3, <1>4 DEF DiskInv, DiskTypes
<1>b. Disk!SpaceAccounted'
  BY <1>0 DEF DiskInv, Disk!SpaceAccounted
<1>c. DiskCall'
  <2>1. d_op'.kind = "create" /\ d_op'.pc = "table" /\ d_op'.name = name /\ d_op'.i = 1
    BY <1>0
  <2>2. d_cache' # Null /\ 1 \in Disk!Slots
    BY <1>3
  <2> QED BY <2>1, <2>2 DEF DiskCall, DiskWrite
<1>d. DiskNames'
  <2> SUFFICES ASSUME "io" \notin d_faults' PROVE DiskNames'
    BY DEF DiskNames
  <2>1. DiskNames /\ "io" \notin d_faults
    BY <1>0 DEF DiskInv
  <2>2. \A r \in Disk!Slots : d_cache[r] # Free => d_cache[r].name # e.name
    BY <1>0 DEF Disk!find_file_entry, Disk!Used, e
  <2>3. Disk!UniqueIn(d_cache')
    BY <1>3, <2>1, <2>2, <1>0 DEF DiskNames, Disk!UniqueIn, Disk!Used
  <2>4. \A r \in Disk!Slots : d_table[r] \in {Free, d_cache[r]}
    BY <1>0, <2>1 DEF DiskNames, DiskAgree, Disk!Idle
  <2>5. DiskAgree'
    BY <1>0, <1>1, <1>3, <2>4 DEF DiskAgree
  <2> QED BY <1>0, <2>1, <2>3, <2>5 DEF DiskNames, Disk!UniqueIn
<1> QED BY <1>a, <1>b, <1>c, <1>d DEF DiskInv

(* fs_delete_file empties the entry of the file in the cache. *)
LEMMA DeleteKeeps ==
  ASSUME DiskInv, NEW name \in Names, Disk!fs_delete_file(name)
  PROVE  DiskInv'
<1> DEFINE s == Disk!Lowest(Disk!find_file_entry(name))
<1> USE DiskBasics
<1>0. /\ d_op = Disk!Idle /\ d_cache # Null /\ d_mounted
      /\ d_cache' = [d_cache EXCEPT ![s] = Free]
      /\ d_op' = [kind |-> "delete", pc |-> "table", name |-> name, slot |-> s,
                  new |-> Closed, i |-> 1]
      /\ UNCHANGED <<d_super, d_table, d_data, d_mounted, d_sb, d_content, d_faults>>
  BY DEF Disk!fs_delete_file, Disk!Begin, Disk!disk
<1>1. s \in Disk!Slots /\ d_cache[s] # Free /\ d_cache[s].name = name
  BY <1>0, SlotFound DEF Disk!fs_delete_file
<1> HIDE DEF s
<1>2. d_cache \in DiskTables
  BY <1>0 DEF DiskInv, DiskTypes
<1>3. d_cache' \in DiskTables /\ d_cache'[s] = Free
      /\ \A r \in Disk!Slots : r # s => d_cache'[r] = d_cache[r]
  BY <1>0, <1>1, <1>2 DEF DiskTables
<1>4. d_op' \in DiskOps /\ d_op' # Disk!Idle
  BY <1>0, <1>1 DEF DiskOps, DiskPlaces, Disk!Idle
<1>a. DiskTypes'
  BY <1>0, <1>3, <1>4 DEF DiskInv, DiskTypes
<1>b. Disk!SpaceAccounted'
  BY <1>0 DEF DiskInv, Disk!SpaceAccounted
<1>c. DiskCall'
  <2>1. d_op'.kind = "delete" /\ d_op'.pc = "table" /\ d_op'.name = name /\ d_op'.i = 1
    BY <1>0
  <2>2. d_cache' # Null /\ 1 \in Disk!Slots
    BY <1>3
  <2> QED BY <2>1, <2>2 DEF DiskCall, DiskWrite
<1>d. DiskNames'
  <2> SUFFICES ASSUME "io" \notin d_faults' PROVE DiskNames'
    BY DEF DiskNames
  <2>1. DiskNames /\ "io" \notin d_faults
    BY <1>0 DEF DiskInv
  <2>2. Disk!UniqueIn(d_cache)
    BY <1>0, <2>1 DEF DiskNames
  <2>3. Disk!UniqueIn(d_cache')
    BY <1>3, <2>2 DEF Disk!UniqueIn, Disk!Used
  <2>4. \A r \in Disk!Slots : d_table[r] \in {Free, d_cache[r]}
    BY <1>0, <2>1 DEF DiskNames, DiskAgree, Disk!Idle
  <2>5. \A r \in Disk!Slots : d_cache'[r] # Free => d_cache'[r].name # name
    BY <1>1, <1>3, <2>2 DEF Disk!UniqueIn, Disk!Used
  <2>6. DiskAgree'
    BY <1>0, <1>1, <1>3, <2>4, <2>5 DEF DiskAgree
  <2> QED BY <1>0, <2>1, <2>3, <2>6 DEF DiskNames, Disk!UniqueIn
<1> QED BY <1>a, <1>b, <1>c, <1>d DEF DiskInv

(* Formatting, mounting and the start of unmounting. *)
LEMMA MountKeeps ==
  ASSUME DiskInv, Disk!fs_format \/ Disk!fs_mount \/ Disk!fs_unmount
  PROVE  DiskInv'
<1> USE DiskBasics
<1>1. CASE Disk!fs_format
  <2>0. /\ d_op = Disk!Idle
        /\ d_op' = [kind |-> "format", pc |-> "super", name |-> Closed, slot |-> 1,
                    new |-> Closed, i |-> 1]
        /\ d_faults' \in {d_faults, d_faults \cup {"format"}}
        /\ UNCHANGED <<d_super, d_table, d_data, d_mounted, d_sb, d_cache, d_content>>
    BY <1>1 DEF Disk!fs_format, Disk!Begin, Disk!disk
  <2>1. d_op' \in DiskOps /\ d_op' # Disk!Idle
    BY <2>0 DEF DiskOps, DiskPlaces, Disk!Idle
  <2>2. DiskTypes'
    BY <2>0, <2>1 DEF DiskInv, DiskTypes
  <2>3. Disk!SpaceAccounted' /\ DiskCall'
    BY <2>0 DEF DiskInv, Disk!SpaceAccounted, DiskCall, DiskWrite
  <2>4. DiskNames'
    BY <2>0 DEF DiskInv, DiskNames, DiskAgree, Disk!Idle, Disk!UniqueIn
  <2> QED BY <2>2, <2>3, <2>4 DEF DiskInv
<1>2. CASE Disk!fs_mount
  <2>0. /\ d_op = Disk!Idle /\ d_super # Garbage
        /\ \/ d_mounted' = TRUE /\ d_sb' = d_super /\ d_cache' = d_table
           \/ d_cache' = Null /\ UNCHANGED <<d_mounted, d_sb>>
        /\ UNCHANGED <<d_super, d_table, d_data, d_op, d_content, d_faults>>
    BY <1>2 DEF Disk!fs_mount, Disk!disk
  <2>1. d_table # Null /\ d_table \in DiskTables
    BY DEF DiskInv, DiskTypes
  <2>5. DiskTypes'
    <3>1. CASE d_mounted' = TRUE /\ d_sb' = d_super /\ d_cache' = d_table
      BY <2>0, <2>1, <3>1 DEF DiskInv, DiskTypes
    <3>2. CASE d_cache' = Null /\ UNCHANGED <<d_mounted, d_sb>>
      BY <2>0, <3>2 DEF DiskInv, DiskTypes
    <3> QED BY <2>0, <3>1, <3>2
  <2>2. Disk!SpaceAccounted'
    BY <2>0 DEF DiskInv, Disk!SpaceAccounted
  <2>3. DiskCall'
    BY <2>0 DEF DiskInv, DiskCall, DiskWrite, Disk!Idle
  <2>4. DiskNames'
    BY <2>0 DEF DiskInv, DiskNames, DiskAgree, Disk!Idle, Disk!UniqueIn
  <2> QED BY <2>5, <2>2, <2>3, <2>4 DEF DiskInv
<1>3. CASE Disk!fs_unmount
  <2>0. /\ d_op = Disk!Idle /\ d_mounted
        /\ d_op' = [kind |-> "unmount", pc |-> "super", name |-> Closed, slot |-> 1,
                    new |-> Closed, i |-> 1]
        /\ UNCHANGED <<d_super, d_table, d_data, d_mounted, d_sb, d_cache, d_content, d_faults>>
    BY <1>3 DEF Disk!fs_unmount, Disk!Begin, Disk!disk
  <2>1. d_op' \in DiskOps /\ d_op' # Disk!Idle
    BY <2>0 DEF DiskOps, DiskPlaces, Disk!Idle
  <2>2. DiskTypes'
    BY <2>0, <2>1 DEF DiskInv, DiskTypes
  <2>3. Disk!SpaceAccounted' /\ DiskCall'
    BY <2>0 DEF DiskInv, Disk!SpaceAccounted, DiskCall, DiskWrite
  <2>4. DiskNames'
    BY <2>0 DEF DiskInv, DiskNames, DiskAgree, Disk!Idle, Disk!UniqueIn
  <2> QED BY <2>2, <2>3, <2>4 DEF DiskInv
<1> QED BY <1>1, <1>2, <1>3

(* What a stop of the machine leaves on the disk. *)
LEMMA CrashKeeps ==
  ASSUME DiskInv, Disk!Crash
  PROVE  DiskInv'
<1> USE DiskBasics
<1>0. /\ d_op' = Disk!Idle /\ d_cache' = Null /\ d_mounted' = FALSE /\ d_sb' = Garbage
      /\ d_faults' \in {d_faults, d_faults \cup {"format"}}
      /\ d_content' = IF d_faults' = {} THEN [n \in Names |-> Disk!OnDisk(n)] ELSE Disk!Nothing
      /\ UNCHANGED <<d_super, d_table, d_data>>
  BY DEF Disk!Crash, Disk!disk
<1>1. DOMAIN d_content' = Names /\ d_content' = [n \in Names |-> d_content'[n]]
  BY <1>0 DEF Disk!Nothing
<1>2. DiskTypes'
  BY <1>0, <1>1 DEF DiskInv, DiskTypes, Disk!SuperOK
<1>3. Disk!SpaceAccounted' /\ DiskCall'
  BY <1>0 DEF DiskInv, Disk!SpaceAccounted, DiskCall, DiskWrite, Disk!Idle
<1>4. DiskNames'
  BY <1>0 DEF DiskInv, DiskNames, DiskAgree, Disk!Idle, Disk!UniqueIn
<1> QED BY <1>2, <1>3, <1>4 DEF DiskInv

(* What a call is for stays when its place changes. *)
Moved(o, pc, i) == [o EXCEPT !.pc = pc, !.i = i]

(* Its fields, one by one. *)
LEMMA OpMoves ==
  ASSUME NEW o \in DiskOps, NEW pc \in DiskPlaces, NEW i \in Nat, i # 0
  PROVE  /\ Moved(o, pc, i) \in DiskOps /\ Moved(o, pc, i) # Disk!Idle
         /\ Moved(o, pc, i).pc = pc /\ Moved(o, pc, i).i = i
         /\ Moved(o, pc, i).kind = o.kind /\ Moved(o, pc, i).name = o.name
         /\ Moved(o, pc, i).slot = o.slot /\ Moved(o, pc, i).new = o.new
<1> DEFINE r == Moved(o, pc, i)
<1>1. r \in DiskOps
  BY DEF DiskOps, Moved
<1>2. r.kind # "none"
  BY DEF DiskOps, Moved
<1>3. r # Disk!Idle
  BY <1>2 DEF Disk!Idle
<1>4. /\ r.pc = pc /\ r.i = i
      /\ r.kind = o.kind /\ r.name = o.name /\ r.slot = o.slot /\ r.new = o.new
  BY DEF DiskOps, Moved
<1> QED BY <1>1, <1>3, <1>4

(* A call that stops where it is, on a block that could not be written. *)
LEMMA AbortKeeps ==
  ASSUME DiskInv, d_faults' = d_faults \cup {"io"}, Disk!Abort,
         UNCHANGED <<d_super, d_table, d_data, d_sb>>
  PROVE  DiskInv'
<1>0. d_op' = Disk!Idle /\ UNCHANGED <<d_mounted, d_cache>> /\ d_content' = Disk!Nothing
  BY DEF Disk!Abort
<1>1. DiskTypes'
  BY <1>0 DEF DiskInv, DiskTypes, Disk!Nothing
<1>2. Disk!SpaceAccounted' /\ DiskCall' /\ DiskNames'
  BY <1>0 DEF DiskInv, Disk!SpaceAccounted, DiskCall, DiskWrite, Disk!Idle, DiskNames
<1> QED BY <1>1, <1>2 DEF DiskInv

(* The superblock is written, or could not be. *)
LEMMA SuperKeeps ==
  ASSUME DiskInv, Disk!WriteSuper
  PROVE  DiskInv'
<1> USE DiskBasics
<1>0. /\ d_op # Disk!Idle /\ d_op.pc = "super" /\ d_op \in DiskOps
      /\ UNCHANGED <<d_table, d_data, d_sb>>
  BY DEF Disk!WriteSuper, DiskInv, DiskTypes
<1>1. ASSUME Disk!AfterSuper, d_faults' \in {d_faults, d_faults \cup {"io"}},
             d_super' \in {d_super, d_sb, Disk!Blank}
      PROVE  DiskInv'
  <2>0. /\ d_op' = [d_op EXCEPT !.pc = IF d_op.kind = "write" THEN "data" ELSE "table", !.i = 1]
        /\ UNCHANGED <<d_mounted, d_cache, d_content>>
    BY <1>1 DEF Disk!AfterSuper, Disk!Goto
  <2>1. /\ d_op' \in DiskOps /\ d_op' # Disk!Idle /\ d_op'.i = 1
        /\ d_op'.kind = d_op.kind /\ d_op'.name = d_op.name /\ d_op'.slot = d_op.slot
        /\ d_op'.new = d_op.new
        /\ d_op'.pc = IF d_op.kind = "write" THEN "data" ELSE "table"
    <3> DEFINE pc == IF d_op.kind = "write" THEN "data" ELSE "table"
    <3>1. pc \in DiskPlaces
      BY DEF DiskPlaces
    <3>2. d_op' = Moved(d_op, pc, 1)
      BY <2>0 DEF Moved
    <3> HIDE DEF pc
    <3>3. /\ d_op' \in DiskOps /\ d_op' # Disk!Idle /\ d_op'.pc = pc /\ d_op'.i = 1
          /\ d_op'.kind = d_op.kind /\ d_op'.name = d_op.name /\ d_op'.slot = d_op.slot
          /\ d_op'.new = d_op.new
      BY <1>0, <3>1, <3>2, OpMoves
    <3> QED BY <3>3 DEF pc
  <2>2. Disk!Blank \in Disk!Supers /\ Disk!Blank.next + Disk!Blank.free = BlocksOfDisk
    BY DEF Disk!Blank, Disk!Supers
  <2>3. Disk!SuperOK(d_super')
    BY <1>1, <2>2 DEF DiskInv, DiskTypes, Disk!SuperOK
  <2>4. d_faults' \subseteq {"io", "format", "long"}
    BY <1>1 DEF DiskInv, DiskTypes
  <2>5. DiskTypes'
    BY <1>0, <2>0, <2>1, <2>3, <2>4 DEF DiskInv, DiskTypes
  <2>6. Disk!SpaceAccounted'
    BY <1>0, <1>1, <2>2 DEF DiskInv, Disk!SpaceAccounted
  <2>7. DiskWrite'
    <3>1. CASE d_op.kind = "write"
      <4>1. DiskWrite /\ d_op.new \in Seq(Nodes \X (1 .. LongestFile)) /\ Len(d_op.new) \in Nat
        BY <3>1, LenProperties DEF DiskInv, DiskCall, DiskWrite
      <4> QED BY <1>0, <2>0, <2>1, <3>1, <4>1 DEF DiskWrite
    <3>2. CASE d_op.kind # "write"
      BY <2>1, <3>2 DEF DiskWrite
    <3> QED BY <3>1, <3>2
  <2>8. DiskCall'
    <3>1. d_op.kind \notin {"create", "delete"}
      BY <1>0 DEF DiskInv, DiskCall
    <3>2. d_op.kind = "unmount" => d_mounted
      BY DEF DiskInv, DiskCall
    <3>3. 1 \in Disk!Slots
      OBVIOUS
    <3> QED BY <2>0, <2>1, <2>7, <3>1, <3>2, <3>3 DEF DiskCall
  <2>9. DiskNames'
    <3> SUFFICES ASSUME "io" \notin d_faults' PROVE DiskNames'
      BY DEF DiskNames
    <3>1. DiskNames /\ "io" \notin d_faults
      BY <1>1 DEF DiskInv
    <3>2. DiskAgree'
      BY <1>0, <2>0, <2>1, <3>1 DEF DiskNames, DiskAgree
    <3> QED BY <1>0, <2>0, <3>1, <3>2 DEF DiskNames, Disk!UniqueIn
  <2> QED BY <2>5, <2>6, <2>8, <2>9 DEF DiskInv
<1>2. CASE Disk!AfterSuper
  BY <1>1, <1>2 DEF Disk!WriteSuper
<1>3. CASE Disk!Abort /\ d_faults' = d_faults \cup {"io"} /\ UNCHANGED d_super
  BY <1>0, <1>3, AbortKeeps
<1> QED BY <1>2, <1>3 DEF Disk!WriteSuper

(* A block of the file: the target is a data block, so nothing else is touched. *)
LEMMA TargetLemma ==
  ASSUME DiskInv, d_op # Disk!Idle, d_op.pc = "data"
  PROVE  /\ d_op \in DiskOps /\ d_op.kind = "write"
         /\ d_op.new \in Seq(Nodes \X (1 .. LongestFile)) /\ Len(d_op.new) \in Nat
         /\ d_op.i \in Nat \ {0}
         /\ d_cache # Null /\ d_cache \in DiskTables /\ d_op.slot \in Disk!Slots
         /\ d_cache[d_op.slot] \in Disk!Entries
         /\ d_op.i <= Len(d_op.new) => Disk!Target \in Disk!Blocks
<1> USE DiskBasics
<1>1. d_op \in DiskOps
  BY DEF DiskInv, DiskTypes
<1>2. d_op.kind \in {"write", "create", "delete", "format", "unmount"}
      /\ d_op.i \in Nat \ {0} /\ d_op.slot \in Disk!Slots
  BY <1>1 DEF DiskOps
<1>3. d_op.kind = "write"
  BY <1>2 DEF DiskInv, DiskCall
<1>4. DiskWrite /\ d_op.new \in Seq(Nodes \X (1 .. LongestFile))
  BY <1>3 DEF DiskInv, DiskCall, DiskWrite
<1>5. Len(d_op.new) \in Nat
  BY <1>4, LenProperties
<1>6. d_cache # Null /\ d_cache \in DiskTables /\ d_cache[d_op.slot] # Free
  BY <1>3, <1>4 DEF DiskInv, DiskTypes, DiskWrite
<1>7. d_cache[d_op.slot] \in Disk!Entries
  BY <1>2, <1>6 DEF DiskTables
<1>8. ASSUME d_op.i <= Len(d_op.new) PROVE Disk!Target \in Disk!Blocks
  <2>1. /\ Disk!First <= d_cache[d_op.slot].start
        /\ d_cache[d_op.slot].start + Len(d_op.new) <= BlocksOfDisk
    BY <1>2, <1>3, <1>4, <1>5, <1>8 DEF DiskWrite
  <2>2. d_cache[d_op.slot].start \in Nat
    BY <1>7 DEF Disk!Entries
  <2> QED BY <1>2, <1>5, <1>8, <2>1, <2>2 DEF Disk!Target
<1> QED BY <1>1, <1>2, <1>3, <1>4, <1>5, <1>6, <1>7, <1>8

(* One block of a file is written, or could not be. *)
LEMMA DataKeeps ==
  ASSUME DiskInv, Disk!WriteData
  PROVE  DiskInv'
<1> USE DiskBasics
<1>0. /\ d_op # Disk!Idle /\ d_op.pc = "data" /\ d_op.i <= Len(d_op.new)
      /\ UNCHANGED <<d_super, d_table, d_sb>>
  BY DEF Disk!WriteData
<1>1. /\ d_op \in DiskOps /\ d_op.kind = "write"
      /\ d_op.new \in Seq(Nodes \X (1 .. LongestFile)) /\ Len(d_op.new) \in Nat
      /\ d_op.i \in Nat \ {0} /\ Disk!Target \in Disk!Blocks
  BY <1>0, TargetLemma
<1>2. CASE /\ d_data' = [d_data EXCEPT ![Disk!Target] = d_op.new[d_op.i]]
           /\ d_op' = [d_op EXCEPT !.i = @ + 1]
           /\ UNCHANGED <<d_mounted, d_cache, d_content, d_faults>>
  <2>1. /\ d_op' \in DiskOps /\ d_op' # Disk!Idle /\ d_op'.i = d_op.i + 1
        /\ d_op'.kind = d_op.kind /\ d_op'.name = d_op.name /\ d_op'.slot = d_op.slot
        /\ d_op'.new = d_op.new /\ d_op'.pc = d_op.pc
    <3>1. d_op.pc \in DiskPlaces /\ d_op.i + 1 \in Nat /\ d_op.i + 1 # 0
      BY <1>1 DEF DiskOps
    <3>2. d_op' = Moved(d_op, d_op.pc, d_op.i + 1)
      BY <1>1, <1>2 DEF Moved, DiskOps
    <3> QED BY <1>1, <3>1, <3>2, OpMoves
  <2>2. d_op.new[d_op.i] \in Nodes \X (1 .. LongestFile)
    BY <1>0, <1>1, ElementOfSeq
  <2>3. d_data' \in [Disk!Blocks -> Disk!Chunks]
    BY <1>2, <2>2 DEF DiskInv, DiskTypes, Disk!Chunks
  <2>4. DiskTypes'
    BY <1>0, <1>2, <2>1, <2>3 DEF DiskInv, DiskTypes
  <2>5. Disk!SpaceAccounted'
    BY <1>0 DEF DiskInv, Disk!SpaceAccounted
  <2>6. DiskWrite'
    BY <1>0, <1>1, <1>2, <2>1 DEF DiskInv, DiskCall, DiskWrite
  <2>7. DiskCall'
    BY <1>0, <1>1, <2>1, <2>6 DEF DiskCall
  <2>8. DiskNames'
    BY <1>0, <1>1, <1>2, <2>1 DEF DiskInv, DiskNames, DiskAgree, Disk!UniqueIn
  <2> QED BY <2>4, <2>5, <2>7, <2>8 DEF DiskInv
<1>3. CASE d_faults' = d_faults \cup {"io"} /\ Disk!Abort /\ UNCHANGED d_data
  BY <1>0, <1>3, AbortKeeps
<1> QED BY <1>2, <1>3 DEF Disk!WriteData

(* The size of the file is set in the cache once all its blocks are written. *)
LEMMA SizeKeeps ==
  ASSUME DiskInv, Disk!SetSize
  PROVE  DiskInv'
<1> USE DiskBasics
<1> DEFINE s == d_op.slot
<1>0. /\ d_op # Disk!Idle /\ d_op.pc = "data"
      /\ d_cache' = [d_cache EXCEPT ![s].size = Len(d_op.new)]
      /\ d_op' = [d_op EXCEPT !.pc = "table", !.i = 1]
      /\ UNCHANGED <<d_super, d_table, d_data, d_mounted, d_sb, d_content, d_faults>>
  BY DEF Disk!SetSize, Disk!disk
<1>1. /\ d_op \in DiskOps /\ d_op.kind = "write"
      /\ d_op.new \in Seq(Nodes \X (1 .. LongestFile)) /\ Len(d_op.new) \in Nat
      /\ d_cache # Null /\ d_cache \in DiskTables /\ s \in Disk!Slots
      /\ d_cache[s] \in Disk!Entries
  BY <1>0, TargetLemma
<1>2. DiskWrite /\ Len(d_op.new) <= LongestFile
  BY <1>1 DEF DiskInv, DiskCall, DiskWrite
<1>3. /\ d_op' \in DiskOps /\ d_op' # Disk!Idle /\ d_op'.i = 1 /\ d_op'.pc = "table"
      /\ d_op'.kind = d_op.kind /\ d_op'.name = d_op.name /\ d_op'.slot = s
      /\ d_op'.new = d_op.new
  <2>1. "table" \in DiskPlaces
    BY DEF DiskPlaces
  <2>2. d_op' = Moved(d_op, "table", 1)
    BY <1>0 DEF Moved
  <2> QED BY <1>0, <1>1, <2>1, <2>2, OpMoves
<1> HIDE DEF s
<1>4. [d_cache[s] EXCEPT !.size = Len(d_op.new)] \in Disk!Entries
  <2> DEFINE n == Len(d_op.new)
  <2>1. n \in 0 .. LongestFile
    BY <1>1, <1>2
  <2> HIDE DEF n
  <2>2. [d_cache[s] EXCEPT !.size = n] \in Disk!Entries
    BY <1>1, <2>1 DEF Disk!Entries
  <2> QED BY <2>2 DEF n
<1>5. d_cache' \in DiskTables
  BY <1>0, <1>1, <1>4 DEF DiskTables
<1>6. \A r \in Disk!Slots : /\ d_cache'[r] = Free <=> d_cache[r] = Free
                            /\ d_cache[r] # Free => d_cache'[r].name = d_cache[r].name
                            /\ r # s => d_cache'[r] = d_cache[r]
  BY <1>0, <1>1, <1>4 DEF DiskTables, Disk!Entries
<1>7. d_cache' # Null
  BY <1>5
<1>a. DiskTypes'
  BY <1>0, <1>1, <1>3, <1>5, <1>7 DEF DiskInv, DiskTypes
<1>b. Disk!SpaceAccounted'
  BY <1>0 DEF DiskInv, Disk!SpaceAccounted
<1>c. DiskCall'
  <2>1. DiskWrite'
    BY <1>1, <1>2, <1>3, <1>6, <1>7 DEF DiskWrite, s
  <2> QED BY <1>1, <1>3, <2>1 DEF DiskCall
<1>d. DiskNames'
  <2> SUFFICES ASSUME "io" \notin d_faults' PROVE DiskNames'
    BY DEF DiskNames
  <2>1. DiskNames /\ "io" \notin d_faults /\ d_cache[s].name = d_op.name /\ d_cache[s] # Free
    BY <1>0, <1>1, <1>2 DEF DiskInv, DiskWrite, s
  <2>2. Disk!UniqueIn(d_cache')
    BY <1>1, <1>6, <2>1 DEF DiskNames, Disk!UniqueIn, Disk!Used
  <2>3. DiskAgree'
    BY <1>0, <1>1, <1>3, <1>6, <2>1 DEF DiskNames, DiskAgree, s
  <2> QED BY <1>0, <2>1, <2>2, <2>3 DEF DiskNames, Disk!UniqueIn
<1> QED BY <1>a, <1>b, <1>c, <1>d DEF DiskInv

(* The end of a call. *)
LEMMA FinishKeeps ==
  ASSUME DiskInv, d_op \in DiskOps, Disk!Finish, UNCHANGED <<d_super, d_data, d_sb>>,
         d_table' \in DiskTables, d_faults' \in {d_faults, d_faults \cup {"io"}},
         "io" \notin d_faults' =>
            /\ Disk!UniqueIn(d_table')
            /\ d_cache # Null => \A s \in Disk!Slots : d_table'[s] \in {Free, d_cache[s]}
  PROVE  DiskInv'
<1>0. d_op' = Disk!Idle
  BY DEF Disk!Finish
<1>1. \/ d_mounted' = FALSE /\ d_cache' = Null
      \/ UNCHANGED <<d_mounted, d_cache>>
  BY DEF Disk!Finish
<1>2. d_content' \in {Disk!Nothing, d_content, [d_content EXCEPT ![d_op.name] = d_op.new]}
  BY DEF Disk!Finish
<1>3. DOMAIN d_content' = Names /\ d_content' = [n \in Names |-> d_content'[n]]
  BY <1>2 DEF DiskInv, DiskTypes, Disk!Nothing
<1>4. DiskTypes'
  <2>1. d_faults' \subseteq {"io", "format", "long"}
    BY DEF DiskInv, DiskTypes
  <2>2. CASE d_mounted' = FALSE /\ d_cache' = Null
    BY <1>0, <1>3, <2>1, <2>2 DEF DiskInv, DiskTypes
  <2>3. CASE UNCHANGED <<d_mounted, d_cache>>
    BY <1>0, <1>3, <2>1, <2>3 DEF DiskInv, DiskTypes
  <2> QED BY <1>1, <2>2, <2>3
<1>5. Disk!SpaceAccounted' /\ DiskCall'
  <2>1. Disk!SpaceAccounted'
    BY DEF DiskInv, Disk!SpaceAccounted
  <2>2. DiskCall'
    BY <1>0 DEF DiskCall, DiskWrite, Disk!Idle
  <2> QED BY <2>1, <2>2
<1>6. DiskNames'
  <2> SUFFICES ASSUME "io" \notin d_faults' PROVE DiskNames'
    BY DEF DiskNames
  <2>1. d_cache' # Null => d_cache' = d_cache
    BY <1>1
  <2>2. d_cache # Null => Disk!UniqueIn(d_cache)
    BY DEF DiskInv, DiskNames
  <2>3. d_cache' # Null => Disk!UniqueIn(d_cache')
    BY <2>1, <2>2
  <2>4. d_cache' # Null => \A s \in Disk!Slots : d_table'[s] \in {Free, d_cache'[s]}
    BY <2>1
  <2>5. d_op'.kind = "none"
    BY <1>0 DEF Disk!Idle
  <2>6. DiskAgree'
    BY <2>4, <2>5 DEF DiskAgree
  <2>7. Disk!UniqueIn(d_table')
    OBVIOUS
  <2> QED BY <2>3, <2>6, <2>7 DEF DiskNames
<1> QED BY <1>4, <1>5, <1>6 DEF DiskInv

(* What is in the table while it is written is unique as what is in the cache. *)
LEMMA MixUnique ==
  ASSUME NEW t \in DiskTables, NEW c \in DiskTables, Disk!UniqueIn(c),
         NEW slot \in Disk!Slots, NEW name \in Names,
         c[slot] # Free => c[slot].name = name,
         \A r \in Disk!Slots : c[r] # Free /\ c[r].name = name => r = slot,
         \A s \in Disk!Slots : t[s] \in {Free, c[s]} \/ (s = slot /\ t[s].name = name)
  PROVE  Disk!UniqueIn(t)
<1> SUFFICES ASSUME NEW r \in Disk!Slots, NEW s \in Disk!Slots,
                    t[r] # Free, t[s] # Free, t[r].name = t[s].name
             PROVE  r = s
  BY DEF Disk!UniqueIn, Disk!Used
<1>1. CASE t[r] = c[r] /\ t[s] = c[s]
  BY <1>1 DEF Disk!UniqueIn, Disk!Used
<1>2. CASE r = slot /\ t[r].name = name
  BY <1>2
<1>3. CASE s = slot /\ t[s].name = name
  BY <1>3
<1> QED BY <1>1, <1>2, <1>3

(* One entry of the table is written, or could not be. *)
LEMMA TableKeeps ==
  ASSUME DiskInv, Disk!WriteTable
  PROVE  DiskInv'
<1> USE DiskBasics
<1>0. /\ d_op # Disk!Idle /\ d_op.pc = "table" /\ d_op \in DiskOps
      /\ d_op.kind = "format" \/ d_cache # Null
      /\ UNCHANGED <<d_super, d_data, d_sb>>
  BY DEF Disk!WriteTable, DiskInv, DiskTypes
<1>1. /\ d_op.i \in Disk!Slots /\ d_op.slot \in Disk!Slots
      /\ d_op.kind \in {"write", "create", "delete", "format", "unmount"}
      /\ d_table \in DiskTables
      /\ d_cache # Null => d_cache \in DiskTables
  BY <1>0 DEF DiskInv, DiskTypes, DiskCall, DiskOps
<1> DEFINE v == IF d_op.kind = "format" THEN Free ELSE d_cache[d_op.i]
<1>2. v \in Disk!Entries \cup {Free}
  BY <1>0, <1>1 DEF DiskTables
<1>3. CASE /\ d_table' = [d_table EXCEPT ![d_op.i] = v]
           /\ UNCHANGED d_faults
           /\ IF d_op.i < FilesOfDisk
              THEN d_op' = [d_op EXCEPT !.i = @ + 1] /\ UNCHANGED <<d_mounted, d_cache, d_content>>
              ELSE Disk!Finish
  <2> HIDE DEF v
  <2>1. /\ d_table' \in DiskTables /\ d_table'[d_op.i] = v
        /\ \A s \in Disk!Slots : s # d_op.i => d_table'[s] = d_table[s]
    BY <1>1, <1>2, <1>3 DEF DiskTables
  <2>2. ASSUME "io" \notin d_faults, d_op.kind = "format"
        PROVE  /\ Disk!UniqueIn(d_table')
               /\ d_cache # Null => \A s \in Disk!Slots : d_table'[s] \in {Free, d_cache[s]}
    <3>1. \A s \in Disk!Slots : d_table'[s] \in {Free, d_table[s]}
      BY <2>1, <2>2 DEF v
    <3>2. DiskNames
      BY DEF DiskInv
    <3>3. Disk!UniqueIn(d_table')
      BY <2>2, <3>1, <3>2 DEF DiskNames, Disk!UniqueIn, Disk!Used
    <3>4. d_cache # Null => \A s \in Disk!Slots : d_table[s] \in {Free, d_cache[s]}
      BY <2>2, <3>2 DEF DiskNames, DiskAgree
    <3> QED BY <3>1, <3>3, <3>4
  <2>3. ASSUME "io" \notin d_faults, d_op.kind # "format"
        PROVE  /\ Disk!UniqueIn(d_table')
               /\ \A s \in Disk!Slots :
                    \/ d_table'[s] \in {Free, d_cache[s]}
                    \/ d_op.kind \in {"write", "delete"} /\ d_op.slot = s /\ d_table'[s].name = d_op.name
               /\ \A s \in Disk!Slots : s < d_op.i + 1 => d_table'[s] = d_cache[s]
    <3>1. d_cache # Null /\ DiskNames /\ v = d_cache[d_op.i]
      BY <1>0, <2>3 DEF DiskInv, v
    <3>2. DiskAgree /\ Disk!UniqueIn(d_cache)
      BY <2>3, <3>1 DEF DiskNames
    <3>3. \A s \in Disk!Slots :
             \/ d_table'[s] \in {Free, d_cache[s]}
             \/ d_op.kind \in {"write", "delete"} /\ d_op.slot = s /\ d_table'[s].name = d_op.name
      BY <2>1, <3>1, <3>2 DEF DiskAgree
    <3>4. \A s \in Disk!Slots : s < d_op.i => d_table[s] = d_cache[s]
      BY <1>0, <1>1, <2>3, <3>1, <3>2 DEF DiskAgree
    <3>5. \A s \in Disk!Slots : s < d_op.i + 1 => d_table'[s] = d_cache[s]
      BY <1>1, <2>1, <3>1, <3>4
    <3>6. Disk!UniqueIn(d_table')
      <4>1. CASE d_op.kind \in {"write", "delete"}
        <5>1. d_cache[d_op.slot] # Free => d_cache[d_op.slot].name = d_op.name
          BY <4>1, <3>2 DEF DiskInv, DiskCall, DiskWrite, DiskAgree
        <5>2. \A r \in Disk!Slots : d_cache[r] # Free /\ d_cache[r].name = d_op.name => r = d_op.slot
          <6>1. CASE d_op.kind = "write"
            BY <6>1, <1>1, <3>2 DEF DiskInv, DiskCall, DiskWrite, Disk!UniqueIn, Disk!Used
          <6>2. CASE d_op.kind = "delete"
            BY <6>2, <3>2 DEF DiskAgree
          <6> QED BY <4>1, <6>1, <6>2
        <5>3. \A s \in Disk!Slots : d_table'[s] \in {Free, d_cache[s]}
                                    \/ (s = d_op.slot /\ d_table'[s].name = d_op.name)
          BY <3>3
        <5>4. d_op.name \in Names
          BY <4>1 DEF DiskInv, DiskCall, DiskWrite
        <5> QED BY <1>1, <2>1, <3>1, <3>2, <5>1, <5>2, <5>3, <5>4, MixUnique
      <4>2. CASE d_op.kind \notin {"write", "delete"}
        BY <4>2, <3>2, <3>3 DEF Disk!UniqueIn, Disk!Used
      <4> QED BY <4>1, <4>2
    <3> QED BY <3>3, <3>5, <3>6
  <2>4. CASE d_op.i < FilesOfDisk
    <3>0. d_op' = [d_op EXCEPT !.i = @ + 1] /\ UNCHANGED <<d_mounted, d_cache, d_content>>
      BY <1>3, <2>4
    <3>1. /\ d_op' \in DiskOps /\ d_op' # Disk!Idle /\ d_op'.i = d_op.i + 1
          /\ d_op'.kind = d_op.kind /\ d_op'.name = d_op.name /\ d_op'.slot = d_op.slot
          /\ d_op'.new = d_op.new /\ d_op'.pc = d_op.pc
      <4>1. d_op.pc \in DiskPlaces /\ d_op.i + 1 \in Nat /\ d_op.i + 1 # 0
        BY <1>0 DEF DiskOps
      <4>2. d_op' = Moved(d_op, d_op.pc, d_op.i + 1)
        BY <1>0, <3>0 DEF Moved, DiskOps
      <4> QED BY <1>0, <4>1, <4>2, OpMoves
    <3>2. DiskTypes'
      BY <1>0, <1>3, <2>1, <3>0, <3>1 DEF DiskInv, DiskTypes
    <3>3. Disk!SpaceAccounted'
      BY <1>0 DEF DiskInv, Disk!SpaceAccounted
    <3>4. DiskWrite'
      BY <1>0, <3>0, <3>1 DEF DiskInv, DiskCall, DiskWrite
    <3>5. DiskCall'
      <4>1. d_op.i + 1 \in Disk!Slots
        BY <1>1, <2>4
      <4> QED BY <1>0, <3>0, <3>1, <3>4, <4>1 DEF DiskInv, DiskCall
    <3>6. DiskNames'
      <4> SUFFICES ASSUME "io" \notin d_faults' PROVE DiskNames'
        BY DEF DiskNames
      <4>1. DiskNames /\ "io" \notin d_faults
        BY <1>3 DEF DiskInv
      <4>2. DiskAgree'
        <5>1. CASE d_op.kind = "format"
          BY <2>2, <3>0, <3>1, <4>1, <5>1 DEF DiskAgree
        <5>2. CASE d_op.kind # "format"
          BY <2>3, <3>0, <3>1, <4>1, <5>2 DEF DiskNames, DiskAgree
        <5> QED BY <5>1, <5>2
      <4>3. Disk!UniqueIn(d_table')
        BY <2>2, <2>3, <4>1
      <4> QED BY <3>0, <4>1, <4>2, <4>3 DEF DiskNames, Disk!UniqueIn
    <3> QED BY <3>2, <3>3, <3>5, <3>6 DEF DiskInv
  <2>5. CASE ~(d_op.i < FilesOfDisk)
    <3>1. d_op.i = FilesOfDisk /\ Disk!Finish
      BY <1>1, <1>3, <2>5
    <3>2. "io" \notin d_faults =>
            /\ Disk!UniqueIn(d_table')
            /\ d_cache # Null => \A s \in Disk!Slots : d_table'[s] \in {Free, d_cache[s]}
      <4> SUFFICES ASSUME "io" \notin d_faults
                   PROVE  /\ Disk!UniqueIn(d_table')
                          /\ d_cache # Null => \A s \in Disk!Slots : d_table'[s] \in {Free, d_cache[s]}
        OBVIOUS
      <4>1. CASE d_op.kind = "format"
        BY <2>2, <4>1
      <4>2. CASE d_op.kind # "format"
        <5>1. \A s \in Disk!Slots : s < d_op.i + 1
          BY <3>1
        <5> QED BY <2>3, <4>2, <5>1
      <4> QED BY <4>1, <4>2
    <3> QED BY <1>0, <1>3, <2>1, <3>1, <3>2, FinishKeeps
  <2> QED BY <2>4, <2>5
<1>4. CASE /\ d_faults' = d_faults \cup {"io"}
           /\ IF d_op.kind = "format" THEN Disk!Abort ELSE Disk!Finish
           /\ UNCHANGED d_table
  <2>1. CASE d_op.kind = "format"
    BY <1>0, <1>4, <2>1, AbortKeeps
  <2>2. CASE d_op.kind # "format"
    BY <1>0, <1>1, <1>4, <2>2, FinishKeeps
  <2> QED BY <2>1, <2>2
<1> QED BY <1>3, <1>4 DEF Disk!WriteTable

(* fs_unmount without a cache has no table to write. *)
LEMMA NoTableKeeps ==
  ASSUME DiskInv, Disk!NoTable
  PROVE  DiskInv'
<1>0. /\ d_op # Disk!Idle /\ d_cache = Null /\ Disk!Finish
      /\ UNCHANGED <<d_super, d_table, d_data, d_sb, d_faults>>
  BY DEF Disk!NoTable, Disk!disk
<1>1. d_op \in DiskOps /\ d_table \in DiskTables
  BY <1>0 DEF DiskInv, DiskTypes
<1>2. "io" \notin d_faults => Disk!UniqueIn(d_table)
  BY DEF DiskInv, DiskNames
<1>3. "io" \notin d_faults => Disk!UniqueIn(d_table')
  BY <1>0, <1>2
<1> QED BY <1>0, <1>1, <1>3, FinishKeeps

(* The disk invariant, through every step that is written, fails or is cut off. *)
LEMMA DiskInductive == Disk!Spec => []DiskInv
<1>1. Disk!Init => DiskInv
  BY DiskInitial
<1>2. DiskInv /\ [Disk!Next]_(Disk!vars) => DiskInv'
  <2> SUFFICES ASSUME DiskInv, [Disk!Next]_(Disk!vars) PROVE DiskInv'
    OBVIOUS
  <2>1. CASE Disk!Next
    <3>1. CASE \E name \in Names, v \in Nodes, n \in 0 .. LongestFile : Disk!fs_write_file(name, v, n)
      BY <3>1, WriteKeeps
    <3>2. CASE \E name \in Names, kind \in {"file", "dir"} : Disk!fs_create_file(name, kind)
      BY <3>2, CreateKeeps
    <3>3. CASE \E name \in Names : Disk!fs_delete_file(name)
      BY <3>3, DeleteKeeps
    <3> QED BY <2>1, <3>1, <3>2, <3>3, MountKeeps, SuperKeeps, DataKeeps, SizeKeeps,
               TableKeeps, NoTableKeeps, CrashKeeps DEF Disk!Next
  <2>2. CASE UNCHANGED Disk!vars
    BY <2>2 DEF Disk!vars, Disk!disk, DiskInv, DiskTypes, Disk!SpaceAccounted, DiskCall, DiskWrite,
                DiskNames, DiskAgree, Disk!UniqueIn, Disk!Used
  <2> QED BY <2>1, <2>2
<1> QED BY <1>1, <1>2, PTL DEF Disk!Spec

(* The disk of the run behaves as the module of the disk says. *)
LEMMA DiskRuns == MCSpec => Disk!Spec
<1>1. MCInit => Disk!Init
  BY DEF MCInit
<1>2. [MCNext]_all => [Disk!Next]_(Disk!vars)
  BY DEF MCNext, all, others, diskVars, Disk!vars, Disk!disk, TreeOnly, MountsOnly, DriveOnly, ToolsOnly,
         PacksOnly, DiskOnly, PromptOnly, SetupOnly
<1> QED BY <1>1, <1>2, PTL DEF MCSpec, Disk!Spec

(* TableSound: the table has a name once and the free blocks add up, on the disk
   and in memory, whatever fails and whenever the machine stops. *)
THEOREM TableTheorem == MCSpec => []TableSound
<1>1. DiskInv => TableSound
  BY DEF DiskInv, DiskNames, TableSound, Disk!NamesUnique
<1> QED BY <1>1, DiskInductive, DiskRuns, PTL

(* DataStaysData: the block that a write of a file is about to hit lies in the data area
   of the partition, because Fits compared the size with the free blocks. *)
THEOREM DataTheorem == MCSpec => []DataStaysData
<1>1. DiskInv => DataStaysData
  BY TargetLemma DEF DataStaysData, Disk!DataStaysData
<1> QED BY <1>1, DiskInductive, DiskRuns, PTL


----------------------------------------------------------------------------
(* What is found under a name. *)
LEMMA HeldNone ==
  ASSUME NEW t, NEW d, NEW name, \A s \in Disk!Slots : t[s] # Free => t[s].name # name
  PROVE  Held(t, d, name) = Closed
BY DEF Held

TextAt(d, e) ==
  [i \in 1 .. e.size |-> IF e.start + i - 1 \in Disk!Blocks THEN d[e.start + i - 1] ELSE Free]

(* A name that one entry has leads to the blocks of that entry. *)
LEMMA HeldAt ==
  ASSUME NEW t, NEW d, NEW s \in Disk!Slots, t[s] # Free, Disk!UniqueIn(t)
  PROVE  Held(t, d, t[s].name) = TextAt(d, t[s])
<1> DEFINE found == {r \in Disk!Slots : t[r] # Free /\ t[r].name = t[s].name}
<1>1. found # {} /\ Disk!Lowest(found) \in found
  BY LowestLemma
<1>2. Disk!Lowest(found) = s
  <2> HIDE DEF found
  <2>1. \A r \in found : r \in Disk!Slots /\ t[r] # Free /\ t[r].name = t[s].name
    BY DEF found
  <2> QED BY <1>1, <2>1 DEF Disk!UniqueIn, Disk!Used
<1> HIDE DEF found
<1>3. t[Disk!Lowest(found)] = t[s]
  BY <1>2
<1> QED BY <1>1, <1>3 DEF Held, TextAt, found

(* Two tables with the same entry for a name, over the same blocks, hold the same file. *)
LEMMA HeldSame ==
  ASSUME NEW t, NEW u, NEW d, NEW e, NEW name,
         \A s \in Disk!Slots :
            (t[s] # Free /\ t[s].name = name) <=> (u[s] # Free /\ u[s].name = name),
         \A s \in Disk!Slots : t[s] # Free /\ t[s].name = name => t[s] = u[s],
         \A s \in Disk!Slots : t[s] # Free /\ t[s].name = name =>
            \A i \in 1 .. t[s].size :
               t[s].start + i - 1 \in Disk!Blocks => d[t[s].start + i - 1] = e[t[s].start + i - 1]
  PROVE  Held(t, d, name) = Held(u, e, name)
<1> DEFINE F == {s \in Disk!Slots : t[s] # Free /\ t[s].name = name}
           G == {s \in Disk!Slots : u[s] # Free /\ u[s].name = name}
           k == Disk!Lowest(F)
<1>1. F = G
  OBVIOUS
<1>2. CASE F = {}
  BY <1>1, <1>2 DEF Held
<1>3. CASE F # {}
  <2>1. k \in F
    BY <1>3, LowestLemma
  <2>2. k \in Disk!Slots /\ t[k] # Free /\ t[k].name = name
    BY <2>1
  <2> DEFINE x == t[k]
  <2>3. /\ u[k] = x
        /\ \A i \in 1 .. x.size :
              x.start + i - 1 \in Disk!Blocks => d[x.start + i - 1] = e[x.start + i - 1]
    BY <2>2
  <2>4. Held(t, d, name) =
          [i \in 1 .. x.size |-> IF x.start + i - 1 \in Disk!Blocks THEN d[x.start + i - 1] ELSE Free]
    BY <1>3 DEF Held
  <2>5. Disk!Lowest(G) = k /\ G # {}
    BY <1>1, <1>3
  <2>6. Held(u, e, name) =
          [i \in 1 .. u[k].size |-> IF u[k].start + i - 1 \in Disk!Blocks
                                    THEN e[u[k].start + i - 1] ELSE Free]
    <3> HIDE DEF k
    <3> QED BY <2>5 DEF Held
  <2> HIDE DEF x, k, F, G
  <2>7. Held(u, e, name) =
          [i \in 1 .. x.size |-> IF x.start + i - 1 \in Disk!Blocks THEN e[x.start + i - 1] ELSE Free]
    BY <2>3, <2>6
  <2> QED BY <2>3, <2>4, <2>7
<1> QED BY <1>2, <1>3

(* OnDisk is what the table and the data of the disk hold. *)
LEMMA OnDiskHeld ==
  ASSUME NEW n PROVE Disk!OnDisk(n) = Held(d_table, d_data, n)
BY DEF Disk!OnDisk, Held, Disk!Used

(* A disk without a file system holds no file. *)
LEMMA SureInitial == Disk!Init => SureInv
<1> SUFFICES ASSUME Disk!Init PROVE SureInv
  OBVIOUS
<1>1. /\ \A s \in Disk!Slots : d_table[s] = Free
      /\ d_cache = Null /\ d_mounted = FALSE /\ d_op.kind = "none"
      /\ \A n \in Names : d_content[n] = Closed
  BY DEF Disk!Init, Disk!Idle, Disk!Nothing
<1>2. SureHeld
  BY <1>1, HeldNone DEF SureHeld, Expected
<1> QED BY <1>1, <1>2 DEF SureInv, SureFormat, SureTable, SureSuper, SureBlocks, SureWrite, SureOther

(* The start of a call. *)
LEMMA SureWriteFile ==
  ASSUME DiskInv, DiskInv', SureInv, NEW name \in Names, NEW v \in Nodes, NEW n \in 0 .. LongestFile,
         Disk!fs_write_file(name, v, n)
  PROVE  SureInv'
<1> DEFINE s == Disk!Lowest(Disk!find_file_entry(name))
<1> USE DiskBasics
<1>0. /\ d_op = Disk!Idle /\ d_cache # Null /\ n <= d_sb.free
      /\ d_cache' = [d_cache EXCEPT ![s].start = Disk!NewBlock(d_sb)]
      /\ d_op' = [kind |-> "write", pc |-> IF d_sb.free = 0 THEN "data" ELSE "super",
                  name |-> name, slot |-> s, new |-> Disk!File(v, n), i |-> 1]
      /\ d_sb' = Disk!Taken(d_sb)
      /\ d_faults' = IF n > 1 THEN d_faults \cup {"long"} ELSE d_faults
      /\ UNCHANGED <<d_super, d_table, d_data, d_mounted, d_content>>
  BY DEF Disk!fs_write_file, Disk!Begin, Disk!disk, Disk!Fits
<1>1. s \in Disk!Slots /\ d_cache[s] # Free
  BY <1>0, SlotFound DEF Disk!fs_write_file
<1> HIDE DEF s
<1> SUFFICES ASSUME d_faults' = {} PROVE SureInv'
  BY <1>0 DEF SureInv, SureFormat, SureTable, SureSuper, SureBlocks, SureWrite, SureOther, SureHeld, Sure
<1>2. /\ d_faults = {} /\ n <= 1 /\ n \in Nat /\ Sure /\ d_op.kind = "none" /\ d_mounted
      /\ d_cache \in DiskTables /\ d_cache[s] \in Disk!Entries
  <2>1. d_op.kind = "none"
    BY <1>0 DEF Disk!Idle
  <2>2. d_faults = {} /\ ~(n > 1)
    BY <1>0
  <2>3. n \in Nat /\ n <= 1
    BY <2>2
  <2>4. d_mounted /\ d_cache \in DiskTables
    BY <1>0 DEF DiskInv, DiskTypes
  <2>5. d_cache[s] \in Disk!Entries
    BY <1>1, <2>4 DEF DiskTables
  <2> QED BY <2>1, <2>2, <2>3, <2>4, <2>5 DEF Sure
<1>3. /\ d_super # Garbage /\ d_sb = d_super /\ d_super \in Disk!Supers
  BY <1>2 DEF SureInv, SureSuper, DiskInv, DiskTypes, Disk!SuperOK
<1>4. /\ \A r \in Disk!Slots : r # s => d_cache'[r] = d_cache[r]
      /\ d_cache'[s].start = Disk!NewBlock(d_sb)
  BY <1>0, <1>1, <1>2 DEF DiskTables, Disk!Entries
<1>5. /\ d_op'.kind = "write" /\ d_op'.slot = s /\ d_op'.new = Disk!File(v, n) /\ d_op'.i = 1
      /\ d_op'.pc = IF d_sb.free = 0 THEN "data" ELSE "super"
  BY <1>0
<1>6. Len(Disk!File(v, n)) = n
  BY <1>2 DEF Disk!File
<1>7. SureTable'
  BY <1>0, <1>2, <1>4, <1>5 DEF SureInv, SureTable, Sure
<1>8. SureSuper'
  BY <1>0, <1>3, <1>5 DEF SureSuper, Disk!Taken
<1>9. SureBlocks' /\ SureFormat' /\ SureOther'
  BY <1>0, <1>2, <1>5 DEF SureInv, SureBlocks, SureFormat, SureOther, Sure
<1>a. SureWrite'
  <2>1. n = 1 => /\ d_sb.free # 0 /\ Disk!NewBlock(d_sb) = d_super.next
                 /\ d_sb'.next = d_super.next + 1
    BY <1>0, <1>3 DEF Disk!NewBlock, Disk!Taken, Disk!Supers
  <2>2. d_op'.pc \in {"super", "data"} /\ (n = 1 => d_op'.pc = "super") /\ d_super' = d_super
    BY <1>0, <1>5, <2>1
  <2>3. Len(d_op'.new) <= 1 /\ (Len(d_op'.new) = 1 => n = 1)
    BY <1>2, <1>5, <1>6
  <2> QED BY <1>4, <1>5, <2>1, <2>2, <2>3 DEF SureWrite
<1>b. SureHeld'
  BY <1>0, <1>2, <1>5 DEF SureInv, SureHeld, Expected, Sure
<1> QED BY <1>7, <1>8, <1>9, <1>a, <1>b DEF SureInv

(* fs_create_file changes the cache only. *)
LEMMA SureCreate ==
  ASSUME DiskInv, SureInv, NEW name \in Names, NEW kind \in {"file", "dir"},
         Disk!fs_create_file(name, kind)
  PROVE  SureInv'
<1> DEFINE s == Disk!Lowest(Disk!FreeSlots)
           e == [name |-> name, kind |-> kind, start |-> 0, size |-> 0]
<1> USE DiskBasics
<1>0. /\ d_op = Disk!Idle /\ d_cache # Null /\ d_mounted
      /\ d_cache' = [d_cache EXCEPT ![s] = e]
      /\ d_op' = [kind |-> "create", pc |-> "table", name |-> name, slot |-> s,
                  new |-> <<>>, i |-> 1]
      /\ UNCHANGED <<d_super, d_table, d_data, d_mounted, d_sb, d_content, d_faults>>
  BY DEF Disk!fs_create_file, Disk!Begin, Disk!disk
<1>1. s \in Disk!Slots
  BY SlotFree DEF Disk!fs_create_file
<1> HIDE DEF s
<1>2. d_cache \in DiskTables /\ e \in Disk!Entries /\ e.name = name /\ e.size = 0
  BY <1>0 DEF DiskInv, DiskTypes, Disk!Entries
<1> HIDE DEF e
<1>3. e # Free /\ d_cache'[s] = e /\ \A r \in Disk!Slots : r # s => d_cache'[r] = d_cache[r]
  BY <1>0, <1>1, <1>2 DEF DiskTables
<1>4. /\ d_op.kind = "none" /\ d_op'.kind = "create" /\ d_op'.slot = s /\ d_op'.new = <<>> /\ d_op'.i = 1
      /\ d_op'.name = name
  BY <1>0 DEF Disk!Idle
<1>5. SureTable' /\ SureSuper' /\ SureBlocks' /\ SureFormat' /\ SureWrite'
  BY <1>0, <1>1, <1>3, <1>4 DEF SureInv, SureTable, SureSuper, SureBlocks, SureFormat, SureWrite, Sure
<1>6. SureOther'
  BY <1>2, <1>3, <1>4 DEF SureOther
<1>7. SureHeld'
  BY <1>0, <1>1, <1>4 DEF SureInv, SureHeld, Expected, Sure
<1> QED BY <1>5, <1>6, <1>7 DEF SureInv

(* fs_delete_file changes the cache only. *)
LEMMA SureDelete ==
  ASSUME DiskInv, SureInv, NEW name \in Names, Disk!fs_delete_file(name)
  PROVE  SureInv'
<1> DEFINE s == Disk!Lowest(Disk!find_file_entry(name))
<1> USE DiskBasics
<1>0. /\ d_op = Disk!Idle /\ d_cache # Null /\ d_mounted
      /\ d_cache' = [d_cache EXCEPT ![s] = Free]
      /\ d_op' = [kind |-> "delete", pc |-> "table", name |-> name, slot |-> s,
                  new |-> Closed, i |-> 1]
      /\ UNCHANGED <<d_super, d_table, d_data, d_mounted, d_sb, d_content, d_faults>>
  BY DEF Disk!fs_delete_file, Disk!Begin, Disk!disk
<1>1. s \in Disk!Slots
  BY <1>0, SlotFound DEF Disk!fs_delete_file
<1> HIDE DEF s
<1>2. d_cache \in DiskTables
  BY <1>0 DEF DiskInv, DiskTypes
<1>3. \A r \in Disk!Slots : r # s => d_cache'[r] = d_cache[r]
  BY <1>0, <1>1, <1>2 DEF DiskTables
<1>4. /\ d_op.kind = "none" /\ d_op'.kind = "delete" /\ d_op'.slot = s /\ d_op'.new = Closed /\ d_op'.i = 1
  BY <1>0 DEF Disk!Idle
<1>5. SureTable' /\ SureSuper' /\ SureBlocks' /\ SureFormat' /\ SureWrite' /\ SureOther'
  BY <1>0, <1>1, <1>3, <1>4 DEF SureInv, SureTable, SureSuper, SureBlocks, SureFormat, SureWrite,
                                SureOther, Sure
<1>7. SureHeld'
  BY <1>0, <1>1, <1>4 DEF SureInv, SureHeld, Expected, Sure
<1> QED BY <1>5, <1>7 DEF SureInv

(* A mount reads what is on the disk; a format begins on a disk that is not mounted. *)
LEMMA SureMount ==
  ASSUME DiskInv, SureInv, Disk!fs_format \/ Disk!fs_mount \/ Disk!fs_unmount
  PROVE  SureInv'
<1> USE DEF SureInv, SureTable, SureSuper, SureBlocks, SureFormat, SureWrite, SureOther, SureHeld,
            Expected, Sure
<1>1. CASE Disk!fs_format
  <2>1. d_op'.kind = "format" /\ d_op'.pc = "super" /\ UNCHANGED <<d_mounted, d_cache>>
    BY <1>1 DEF Disk!fs_format, Disk!Begin
  <2>2. d_faults' = {} => ~d_mounted /\ d_cache = Null
    BY <1>1 DEF Disk!fs_format, DiskInv, DiskTypes
  <2> QED BY <2>1, <2>2
<1>2. CASE Disk!fs_mount
  <2>1. /\ d_op.kind = "none" /\ d_super # Garbage
        /\ \/ d_mounted' = TRUE /\ d_sb' = d_super /\ d_cache' = d_table
           \/ d_cache' = Null /\ UNCHANGED <<d_mounted, d_sb>>
        /\ UNCHANGED <<d_super, d_table, d_data, d_op, d_content, d_faults>>
    BY <1>2 DEF Disk!fs_mount, Disk!disk, Disk!Idle
  <2> QED BY <2>1
<1>3. CASE Disk!fs_unmount
  <2>1. /\ d_op.kind = "none" /\ d_op'.kind = "unmount"
        /\ UNCHANGED <<d_super, d_table, d_data, d_mounted, d_sb, d_cache, d_content, d_faults>>
    BY <1>3 DEF Disk!fs_unmount, Disk!Begin, Disk!disk, Disk!Idle
  <2> QED BY <2>1
<1> QED BY <1>1, <1>2, <1>3

(* A block that could not be written ends what is promised. *)
LEMMA SureFaults ==
  ASSUME d_faults' # {}
  PROVE  SureInv'
BY DEF SureInv, SureTable, SureSuper, SureBlocks, SureFormat, SureWrite, SureOther, SureHeld, Sure

(* The superblock counts the new block before anything is written into it. *)
LEMMA SureWriteSuper ==
  ASSUME DiskInv, DiskInv', SureInv, Disk!WriteSuper
  PROVE  SureInv'
<1> USE DiskBasics
<1> SUFFICES ASSUME d_faults' = {} PROVE SureInv'
  BY SureFaults
<1>0. /\ d_op # Disk!Idle /\ d_op.pc = "super" /\ d_op \in DiskOps
      /\ d_super' = IF d_op.kind = "format" THEN Disk!Blank ELSE d_sb
      /\ d_op' = Moved(d_op, IF d_op.kind = "write" THEN "data" ELSE "table", 1)
      /\ UNCHANGED <<d_table, d_data, d_sb, d_mounted, d_cache, d_content, d_faults>>
  BY DEF Disk!WriteSuper, DiskInv, DiskTypes, Disk!AfterSuper, Disk!Goto, Moved
<1>1. /\ d_op'.kind = d_op.kind /\ d_op'.slot = d_op.slot /\ d_op'.name = d_op.name
      /\ d_op'.new = d_op.new /\ d_op'.i = 1
      /\ d_op'.pc = IF d_op.kind = "write" THEN "data" ELSE "table"
  <2> DEFINE pc == IF d_op.kind = "write" THEN "data" ELSE "table"
  <2>1. pc \in DiskPlaces
    BY DEF DiskPlaces
  <2>2. d_op' = Moved(d_op, pc, 1)
    BY <1>0
  <2> HIDE DEF pc
  <2>3. /\ d_op'.kind = d_op.kind /\ d_op'.slot = d_op.slot /\ d_op'.name = d_op.name
        /\ d_op'.new = d_op.new /\ d_op'.i = 1 /\ d_op'.pc = pc
    BY <1>0, <2>1, <2>2, OpMoves
  <2> QED BY <2>3 DEF pc
<1>2. d_op.kind \in {"write", "format", "unmount"} /\ d_op.slot \in Disk!Slots
  BY <1>0 DEF DiskOps, DiskInv, DiskCall
<1>3. CASE d_op.kind = "format"
  BY <1>0, <1>1, <1>3 DEF SureInv, SureTable, SureSuper, SureBlocks, SureFormat, SureWrite,
                          SureOther, SureHeld, Sure
<1>4. CASE d_op.kind # "format"
  <2>0. Sure /\ d_op.kind \in {"write", "unmount"} /\ d_faults = {}
    BY <1>0, <1>2, <1>4 DEF Sure
  <2>1. d_mounted
    BY <2>0 DEF DiskInv, DiskTypes, DiskCall, DiskWrite
  <2>2. /\ d_super # Garbage /\ d_super \in Disk!Supers /\ d_sb \in Disk!Supers /\ d_sb # Garbage
        /\ d_sb = d_super \/ (d_op.kind = "write" /\ d_sb.next = d_super.next + 1)
    BY <2>0, <2>1 DEF SureInv, SureSuper, DiskInv, DiskTypes, Disk!SuperOK
  <2>3. d_super.next \in Nat /\ d_super' = d_sb /\ d_super.next <= d_super'.next
    BY <1>0, <1>4, <2>2 DEF Disk!Supers
  <2>4. SureTable' /\ SureSuper' /\ SureFormat' /\ SureOther'
    BY <1>0, <1>1, <2>0, <2>2, <2>3 DEF SureInv, SureTable, SureSuper, SureFormat, SureOther, Sure
  <2>5. \A s \in Disk!Slots : d_table[s] # Free =>
           d_table[s].start \in Nat /\ d_table[s].size \in Nat
    BY DEF DiskInv, DiskTypes, DiskTables, Disk!Entries
  <2>6. SureBlocks'
    BY <1>0, <2>0, <2>2, <2>3, <2>5 DEF SureInv, SureBlocks
  <2>7. SureWrite'
    <3> SUFFICES ASSUME d_op.kind = "write" PROVE SureWrite'
      BY <1>1 DEF SureWrite
    <3> DEFINE e == d_cache[d_op.slot]
    <3>1. Len(d_op.new) <= 1
      BY <2>0 DEF SureInv, SureWrite
    <3>2. ASSUME Len(d_op.new) = 1
          PROVE  /\ e.start = d_super.next /\ e.start < d_super'.next
                 /\ \A s \in Disk!Slots :
                      d_table[s] # Free /\ d_table[s].size > 0 => d_table[s].start # e.start
      <4>1. e.start = d_super.next /\ d_super'.next = d_super.next + 1
        BY <1>0, <2>0, <2>3, <3>2 DEF SureInv, SureWrite
      <4> QED BY <2>0, <2>3, <2>5, <4>1 DEF SureInv, SureBlocks
    <3> HIDE DEF e
    <3>3. d_op'.kind = "write" /\ d_op'.pc = "data" /\ d_op'.i = 1 /\ d_op'.new = d_op.new
      BY <1>1
    <3>4. d_cache'[d_op'.slot] = e
      BY <1>0, <1>1 DEF e
    <3>5. d_table' = d_table
      BY <1>0
    <3> QED BY <3>1, <3>2, <3>3, <3>4, <3>5 DEF SureWrite
  <2>8. SureHeld'
    BY <1>0, <1>1, <2>0 DEF SureInv, SureHeld, Expected
  <2> QED BY <2>4, <2>6, <2>7, <2>8 DEF SureInv
<1> QED BY <1>3, <1>4

(* The new block belongs to no entry of the table on the disk. *)
LEMMA SureWriteData ==
  ASSUME DiskInv, DiskInv', SureInv, Disk!WriteData
  PROVE  SureInv'
<1> USE DiskBasics
<1> SUFFICES ASSUME d_faults' = {} PROVE SureInv'
  BY SureFaults
<1> DEFINE e == d_cache[d_op.slot]
<1>0. /\ d_op # Disk!Idle /\ d_op.pc = "data" /\ d_op.i <= Len(d_op.new)
      /\ d_data' = [d_data EXCEPT ![Disk!Target] = d_op.new[d_op.i]]
      /\ d_op' = [d_op EXCEPT !.i = @ + 1]
      /\ UNCHANGED <<d_super, d_table, d_sb, d_mounted, d_cache, d_content, d_faults>>
  BY DEF Disk!WriteData
<1>1. /\ d_op \in DiskOps /\ d_op.kind = "write" /\ d_op.slot \in Disk!Slots
      /\ Len(d_op.new) \in Nat /\ d_op.i \in Nat \ {0} /\ Disk!Target \in Disk!Blocks
      /\ e \in Disk!Entries
  BY <1>0, TargetLemma
<1>2. /\ d_op'.i = d_op.i + 1 /\ d_op'.kind = d_op.kind /\ d_op'.slot = d_op.slot
      /\ d_op'.name = d_op.name /\ d_op'.new = d_op.new /\ d_op'.pc = d_op.pc
  <2>1. d_op.pc \in DiskPlaces /\ d_op.i + 1 \in Nat /\ d_op.i + 1 # 0
    BY <1>1 DEF DiskOps
  <2>2. d_op' = Moved(d_op, d_op.pc, d_op.i + 1)
    BY <1>0, <1>1 DEF Moved, DiskOps
  <2>3. d_op \in DiskOps
    BY <1>1
  <2> HIDE DEF e
  <2> QED BY <2>1, <2>2, <2>3, OpMoves
<1>3. Sure /\ d_faults = {}
  BY <1>0, <1>1 DEF Sure
<1>4. Len(d_op.new) = 1 /\ d_op.i = 1
  <2>1. Len(d_op.new) <= 1
    BY <1>1, <1>3 DEF SureInv, SureWrite
  <2> HIDE DEF e
  <2>2. d_op.i <= Len(d_op.new) /\ Len(d_op.new) \in Nat /\ d_op.i \in Nat /\ d_op.i # 0
    BY <1>0, <1>1
  <2> DEFINE l == Len(d_op.new)
             j == d_op.i
  <2>3. l \in Nat /\ j \in Nat /\ j # 0 /\ j <= l /\ l <= 1
    BY <2>1, <2>2
  <2> HIDE DEF l, j
  <2>4. l = 1 /\ j = 1
    BY <2>3
  <2> QED BY <2>4 DEF l, j
<1>5. /\ e.start < d_super.next
      /\ \A s \in Disk!Slots : d_table[s] # Free /\ d_table[s].size > 0 => d_table[s].start # e.start
  BY <1>0, <1>1, <1>3, <1>4 DEF SureInv, SureWrite
<1>6. e.start \in Nat /\ Disk!Target = e.start
  BY <1>1, <1>4 DEF Disk!Target, Disk!Entries
<1>7. /\ d_data'[e.start] = d_op.new[1]
      /\ \A b \in Disk!Blocks : b # e.start => d_data'[b] = d_data[b]
  BY <1>0, <1>1, <1>4, <1>6 DEF DiskInv, DiskTypes
<1>8. SureTable' /\ SureSuper' /\ SureBlocks' /\ SureFormat' /\ SureOther'
  BY <1>0, <1>1, <1>2, <1>3 DEF SureInv, SureTable, SureSuper, SureBlocks, SureFormat, SureOther, Sure
<1>9. SureWrite'
  <2>1. d_cache'[d_op'.slot] = e /\ d_table' = d_table /\ d_super' = d_super
    BY <1>0, <1>2
  <2> HIDE DEF e
  <2> QED BY <1>0, <1>1, <1>2, <1>4, <1>5, <1>7, <2>1 DEF SureWrite
<1>a. SureHeld'
  <2> SUFFICES ASSUME NEW n \in Names PROVE Held(d_table', d_data', n) = Expected(n)'
    BY DEF SureHeld
  <2>1. Held(d_table, d_data, n) = Expected(n) /\ Expected(n)' = Expected(n)
    BY <1>0, <1>1, <1>2, <1>3 DEF SureInv, SureHeld, Expected
  <2>2. ASSUME NEW s \in Disk!Slots, d_table[s] # Free, NEW i \in 1 .. d_table[s].size,
               d_table[s].start + i - 1 \in Disk!Blocks
        PROVE  d_data[d_table[s].start + i - 1] = d_data'[d_table[s].start + i - 1]
    <3>1. d_table[s].start \in Nat /\ d_table[s].size \in Nat
      BY <2>2 DEF DiskInv, DiskTypes, DiskTables, Disk!Entries
    <3>2. d_table[s].size > 0
      BY <2>2, <3>1
    <3>3. d_table[s].size = 1
      BY <1>3, <2>2, <3>2 DEF SureInv, SureBlocks
    <3>4. d_table[s].start + i - 1 # e.start
      BY <1>5, <2>2, <3>1, <3>2, <3>3
    <3> HIDE DEF e
    <3> QED BY <1>7, <2>2, <3>4
  <2>3. Held(d_table, d_data, n) = Held(d_table, d_data', n)
    BY <2>2, HeldSame
  <2> QED BY <1>0, <2>1, <2>3
<1> QED BY <1>8, <1>9, <1>a DEF SureInv

(* The block is whole before the size of the file says that it is there. *)
LEMMA SureSetSize ==
  ASSUME DiskInv, SureInv, Disk!SetSize
  PROVE  SureInv'
<1> USE DiskBasics
<1> SUFFICES ASSUME d_faults' = {} PROVE SureInv'
  BY SureFaults
<1> DEFINE e == d_cache[d_op.slot]
<1>0. /\ d_op # Disk!Idle /\ d_op.pc = "data" /\ d_op.i > Len(d_op.new)
      /\ d_cache' = [d_cache EXCEPT ![d_op.slot].size = Len(d_op.new)]
      /\ d_op' = [d_op EXCEPT !.pc = "table", !.i = 1]
      /\ UNCHANGED <<d_super, d_table, d_data, d_mounted, d_sb, d_content, d_faults>>
  BY DEF Disk!SetSize, Disk!disk
<1>1. /\ d_op \in DiskOps /\ d_op.kind = "write" /\ d_op.slot \in Disk!Slots
      /\ Len(d_op.new) \in Nat /\ d_op.i \in Nat \ {0}
      /\ d_cache # Null /\ d_cache \in DiskTables /\ e \in Disk!Entries
  BY <1>0, TargetLemma
<1>2. /\ d_op'.i = 1 /\ d_op'.kind = d_op.kind /\ d_op'.slot = d_op.slot
      /\ d_op'.name = d_op.name /\ d_op'.new = d_op.new /\ d_op'.pc = "table"
  <2>1. "table" \in DiskPlaces
    BY DEF DiskPlaces
  <2>2. d_op' = Moved(d_op, "table", 1)
    BY <1>0 DEF Moved
  <2> QED BY <1>1, <2>1, <2>2, OpMoves
<1>3. Sure /\ d_faults = {}
  BY <1>0, <1>1 DEF Sure
<1>4. /\ \A r \in Disk!Slots : r # d_op.slot => d_cache'[r] = d_cache[r]
      /\ d_cache'[d_op.slot].size = Len(d_op.new)
      /\ d_cache'[d_op.slot].start = e.start
  BY <1>0, <1>1 DEF DiskTables, Disk!Entries
<1>5. SureTable'
  BY <1>0, <1>1, <1>2, <1>3, <1>4 DEF SureInv, SureTable, Sure
<1>6. SureSuper' /\ SureBlocks' /\ SureFormat' /\ SureOther'
  BY <1>0, <1>1, <1>2, <1>3 DEF SureInv, SureSuper, SureBlocks, SureFormat, SureOther, Sure
<1>7. SureWrite'
  <2>1. Len(d_op.new) <= 1
    BY <1>1, <1>3 DEF SureInv, SureWrite
  <2>2. ASSUME Len(d_op.new) = 1
        PROVE  /\ e.start < d_super.next /\ e.start \in Disk!Blocks
               /\ d_data[e.start] = d_op.new[1]
    <3>1. d_op.i = 2 /\ Disk!First <= e.start /\ e.start + 1 <= BlocksOfDisk
      BY <1>0, <1>1, <2>2 DEF DiskInv, DiskCall, DiskWrite
    <3>2. e.start \in Nat
      BY <1>1 DEF Disk!Entries
    <3> QED BY <1>0, <1>1, <1>3, <2>2, <3>1, <3>2 DEF SureInv, SureWrite
  <2> HIDE DEF e
  <2>3. d_super' = d_super /\ d_data' = d_data
    BY <1>0
  <2> QED BY <1>1, <1>2, <1>4, <2>1, <2>2, <2>3 DEF SureWrite
<1>8. SureHeld'
  BY <1>0, <1>1, <1>2, <1>3 DEF SureInv, SureHeld, Expected, DiskOps
<1> QED BY <1>5, <1>6, <1>7, <1>8 DEF SureInv

(* After a stop the files are what the disk holds. *)
LEMMA SureCrash ==
  ASSUME DiskInv, SureInv, Disk!Crash
  PROVE  SureInv'
<1> SUFFICES ASSUME d_faults' = {} PROVE SureInv'
  BY SureFaults
<1>0. /\ d_op' = Disk!Idle /\ d_cache' = Null /\ d_mounted' = FALSE
      /\ d_faults = {} /\ d_op.kind # "format"
      /\ d_content' = [n \in Names |-> Disk!OnDisk(n)]
      /\ UNCHANGED <<d_super, d_table, d_data>>
  BY DEF Disk!Crash, Disk!disk, Disk!Idle
<1>1. d_op'.kind = "none"
  BY <1>0 DEF Disk!Idle
<1>2. SureTable' /\ SureSuper' /\ SureBlocks' /\ SureFormat' /\ SureWrite' /\ SureOther'
  BY <1>0, <1>1 DEF SureInv, SureTable, SureSuper, SureBlocks, SureFormat, SureWrite, SureOther, Sure
<1>3. SureHeld'
  BY <1>0, <1>1, OnDiskHeld DEF SureHeld, Expected
<1> QED BY <1>2, <1>3 DEF SureInv

(* The table is written entry by entry: the file changes with its own entry. *)
LEMMA NewHeld ==
  ASSUME DiskInv, DiskInv', SureInv, Sure, d_faults' = {}, d_op \in DiskOps,
         d_op.kind \in {"write", "create", "delete"}, d_op.pc = "table", d_op.i = d_op.slot,
         d_op.slot \in Disk!Slots,
         d_table'[d_op.slot] = d_cache[d_op.slot], d_data' = d_data,
         \A r \in Disk!Slots : r # d_op.slot => d_table'[r] = d_table[r]
  PROVE  /\ Held(d_table', d_data', d_op.name) = d_op.new
         /\ \A n \in Names : n # d_op.name => Held(d_table', d_data', n) = Held(d_table, d_data, n)
         /\ LET e == d_cache[d_op.slot] IN
            e # Free /\ e.size > 0 => e.size = 1 /\ e.start \in Disk!Blocks /\ e.start < d_super.next
<1> USE DiskBasics
<1> DEFINE s == d_op.slot
           e == d_cache[s]
<1>1. d_faults = {} /\ d_op.kind # "format"
  BY DEF Sure
<1>2. /\ DiskAgree /\ d_cache # Null /\ d_cache \in DiskTables /\ d_table \in DiskTables
      /\ Disk!UniqueIn(d_table')
  BY <1>1 DEF DiskInv, DiskTypes, DiskNames, DiskCall, DiskWrite
<1>3. e \in Disk!Entries \cup {Free}
  BY <1>2 DEF DiskTables
<1>4. /\ d_table'[s] = e
      /\ \A r \in Disk!Slots : r # s => d_table'[r] = d_table[r]
  OBVIOUS
<1>5. d_table[s] # Free => d_table[s].name = d_op.name
  <2>1. e # Free => e.name = d_op.name
    BY <1>1, <1>2 DEF DiskInv, DiskCall, DiskWrite, DiskAgree, SureInv, SureOther, Sure
  <2> QED BY <1>2, <2>1 DEF DiskAgree
<1>6. e # Free => e.name = d_op.name
  BY <1>1, <1>2 DEF DiskInv, DiskCall, DiskWrite, DiskAgree, SureInv, SureOther, Sure
<1>o. ASSUME NEW n \in Names, n # d_op.name
      PROVE  Held(d_table', d_data', n) = Held(d_table, d_data, n)
  <2>1. d_table'[s] # Free => d_table'[s].name # n
    BY <1>4, <1>6, <1>o
  <2>2. d_table[s] # Free => d_table[s].name # n
    BY <1>5, <1>o
  <2>3. \A r \in Disk!Slots : r # s => d_table'[r] = d_table[r]
    BY <1>4
  <2> HIDE DEF s, e
  <2>4. \A r \in Disk!Slots :
           (d_table[r] # Free /\ d_table[r].name = n) <=> (d_table'[r] # Free /\ d_table'[r].name = n)
    BY <2>1, <2>2, <2>3
  <2>5. \A r \in Disk!Slots : d_table[r] # Free /\ d_table[r].name = n => d_table[r] = d_table'[r]
    BY <2>2, <2>3
  <2>6. Held(d_table, d_data, n) = Held(d_table', d_data, n)
    BY <2>4, <2>5, HeldSame
  <2> QED BY <2>6
<1>7. CASE d_op.kind = "write"
  <2>1. /\ e # Free /\ e.size = Len(d_op.new) /\ Len(d_op.new) <= 1 /\ e.name = d_op.name
        /\ Len(d_op.new) = 1 => /\ e.start \in Disk!Blocks /\ d_data[e.start] = d_op.new[1]
                                /\ e.start < d_super.next
        /\ d_op.new \in Seq(Nodes \X (1 .. LongestFile))
    BY <1>7 DEF SureInv, SureWrite, DiskInv, DiskCall, DiskWrite
  <2>2. e \in Disk!Entries /\ e.start \in Nat /\ e.size \in Nat
    BY <1>3, <2>1 DEF Disk!Entries
  <2>3. Held(d_table', d_data', e.name) = TextAt(d_data', e)
    <3>1. s \in Disk!Slots /\ d_table'[s] # Free /\ d_table'[s] = e
      BY <1>4, <2>1
    <3> HIDE DEF s, e
    <3>2. Held(d_table', d_data', d_table'[s].name) = TextAt(d_data', d_table'[s])
      BY <1>2, <3>1, HeldAt
    <3> QED BY <3>1, <3>2
  <2> DEFINE f == [i \in 1 .. e.size |-> IF e.start + i - 1 \in Disk!Blocks
                                         THEN d_data'[e.start + i - 1] ELSE Free]
             c == d_op.new
  <2>4. /\ e.size = Len(c) /\ Len(c) \in Nat
        /\ c = [i \in 1 .. Len(c) |-> c[i]]
    BY <2>1, LenProperties
  <2>5. ASSUME NEW i \in 1 .. Len(c) PROVE f[i] = c[i]
    <3>1. Len(c) = 1 /\ i = 1
      <4> DEFINE l == Len(c)
      <4>1. l \in Nat /\ l <= 1 /\ i \in 1 .. l
        BY <2>1, <2>4, <2>5
      <4> HIDE DEF l
      <4>2. l = 1 /\ i = 1
        BY <4>1
      <4> QED BY <4>2 DEF l
    <3>2. e.start + i - 1 = e.start /\ e.start \in Disk!Blocks /\ d_data'[e.start] = c[1]
      BY <2>1, <2>2, <3>1
    <3> QED BY <2>4, <3>1, <3>2
  <2>6. f = [i \in 1 .. Len(c) |-> f[i]]
    BY <2>4
  <2>7. f = c
    <3> HIDE DEF f, c
    <3>1. [i \in 1 .. Len(c) |-> f[i]] = [i \in 1 .. Len(c) |-> c[i]]
      BY <2>5
    <3> QED BY <2>4, <2>6, <3>1
  <2>8. Held(d_table', d_data', d_op.name) = d_op.new
    <3>1. TextAt(d_data', e) = f
      BY DEF TextAt
    <3>2. e.name = d_op.name
      BY <2>1
    <3> HIDE DEF f, e
    <3>3. Held(d_table', d_data', d_op.name) = TextAt(d_data', e)
      BY <2>3, <3>2
    <3>4. TextAt(d_data', e) = c
      BY <2>7, <3>1
    <3> QED BY <3>3, <3>4
  <2>9. e.size > 0 => e.size = 1 /\ e.start \in Disk!Blocks /\ e.start < d_super.next
    <3> HIDE DEF f, c, e
    <3>1. e.size \in Nat /\ e.size <= 1
      BY <2>1, <2>2
    <3>2. e.size > 0 => e.size = 1
      BY <3>1
    <3> QED BY <2>1, <3>2
  <2> QED BY <1>o, <2>8, <2>9
<1>8. CASE d_op.kind = "create"
  <2>1. e # Free /\ e.size = 0 /\ e.name = d_op.name /\ d_op.new = <<>>
    BY <1>8 DEF SureInv, SureOther
  <2>2. Held(d_table', d_data', e.name) = TextAt(d_data', e)
    <3>1. s \in Disk!Slots /\ d_table'[s] # Free /\ d_table'[s] = e
      BY <1>4, <2>1
    <3> HIDE DEF s, e
    <3>2. Held(d_table', d_data', d_table'[s].name) = TextAt(d_data', d_table'[s])
      BY <1>2, <3>1, HeldAt
    <3> QED BY <3>1, <3>2
  <2>3. Held(d_table', d_data', e.name) = <<>>
    <3>0. e.size = 0
      BY <2>1
    <3> HIDE DEF e
    <3>1. 1 .. e.size = {}
      BY <3>0
    <3> DEFINE g == [i \in 1 .. e.size |-> IF e.start + i - 1 \in Disk!Blocks
                                           THEN d_data'[e.start + i - 1] ELSE Free]
    <3>2. TextAt(d_data', e) = g
      BY DEF TextAt
    <3>3. g = <<>>
      BY <3>1
    <3> HIDE DEF g
    <3> QED BY <2>2, <3>2, <3>3
  <2> QED BY <1>o, <2>1, <2>3
<1>9. CASE d_op.kind = "delete"
  <2>1. /\ e = Free /\ d_op.new = Closed
        /\ \A r \in Disk!Slots : d_cache[r] # Free => d_cache[r].name # d_op.name
    BY <1>1, <1>2, <1>9 DEF DiskAgree, SureInv, SureOther
  <2>2. \A r \in Disk!Slots : r # s => d_table[r] \in {Free, d_cache[r]}
    BY <1>2 DEF DiskAgree
  <2>3. \A r \in Disk!Slots : d_table'[r] # Free => d_table'[r].name # d_op.name
    BY <1>4, <2>1, <2>2
  <2>4. Held(d_table', d_data', d_op.name) = Closed
    BY <2>3, HeldNone
  <2> QED BY <1>o, <2>1, <2>4
<1> QED BY <1>7, <1>8, <1>9

(* What one write of an entry makes of the table, unless it is a format. *)
Written(n) == /\ d_op.kind \in {"write", "create", "delete"} /\ d_op.name = n
              /\ d_op.slot < d_op.i + 1

(* The files change one by one with their entries. *)
LEMMA EntryWritten ==
  ASSUME DiskInv, DiskInv', SureInv, d_op # Disk!Idle, d_op.pc = "table", d_op.kind # "format",
         d_cache # Null, d_faults = {}, d_faults' = {},
         d_table' = [d_table EXCEPT ![d_op.i] = d_cache[d_op.i]], UNCHANGED <<d_data, d_super>>
  PROVE  /\ \A s \in Disk!Slots :
              \/ d_table'[s] = d_cache[s]
              \/ d_op.kind \in {"write", "create", "delete"} /\ d_op.slot = s /\ d_op.i < d_op.slot
         /\ \A n \in Names :
              Held(d_table', d_data', n) = IF Written(n) THEN d_op.new ELSE d_content[n]
         /\ \A s \in Disk!Slots : d_table'[s] # Free /\ d_table'[s].size > 0 =>
              /\ d_table'[s].size = 1 /\ d_table'[s].start \in Disk!Blocks
              /\ d_super # Garbage /\ d_table'[s].start < d_super.next
<1> USE DiskBasics
<1>1. /\ d_op \in DiskOps /\ Sure /\ d_mounted /\ DiskAgree
      /\ d_table \in DiskTables /\ d_cache \in DiskTables
      /\ d_op.i \in Disk!Slots /\ d_op.slot \in Disk!Slots
      /\ d_op.kind \in {"write", "create", "delete", "unmount"}
  BY DEF DiskInv, DiskTypes, DiskNames, DiskCall, DiskOps, Sure
<1>2. d_super # Garbage
  BY <1>1 DEF SureInv, SureSuper
<1>3. /\ d_table'[d_op.i] = d_cache[d_op.i]
      /\ \A s \in Disk!Slots : s # d_op.i => d_table'[s] = d_table[s]
  BY <1>1 DEF DiskTables
<1>4. \A s \in Disk!Slots : s < d_op.i => d_table[s] = d_cache[s]
  BY <1>1 DEF DiskAgree
<1>5. \A s \in Disk!Slots : d_table[s] = d_cache[s]
                            \/ (d_op.kind \in {"write", "create", "delete"} /\ d_op.slot = s)
  BY <1>1 DEF SureInv, SureTable
<1>6. d_op.i \in Nat /\ d_op.slot \in Nat
  BY <1>1
<1>7. \A s \in Disk!Slots :
        \/ d_table'[s] = d_cache[s]
        \/ d_op.kind \in {"write", "create", "delete"} /\ d_op.slot = s /\ d_op.i < d_op.slot
  <2> SUFFICES ASSUME NEW s \in Disk!Slots, d_table'[s] # d_cache[s]
               PROVE  /\ d_op.kind \in {"write", "create", "delete"} /\ d_op.slot = s
                      /\ d_op.i < d_op.slot
    OBVIOUS
  <2>1. s # d_op.i /\ d_table[s] # d_cache[s] /\ s \in Nat
    BY <1>3
  <2> QED BY <1>4, <1>5, <1>6, <2>1
<1>8. \A s \in Disk!Slots : d_table[s] # Free /\ d_table[s].size > 0 =>
        /\ d_table[s].size = 1 /\ d_table[s].start \in Disk!Blocks
        /\ d_super # Garbage /\ d_table[s].start < d_super.next
  BY <1>1 DEF SureInv, SureBlocks
<1>9. \A n \in Names : Held(d_table, d_data, n) = Expected(n)
  BY <1>1 DEF SureInv, SureHeld
<1>a. CASE d_op.kind # "unmount" /\ d_op.i = d_op.slot
  <2>1. \A r \in Disk!Slots : r # d_op.slot => d_table'[r] = d_table[r]
    BY <1>3, <1>a
  <2>2. d_table'[d_op.slot] = d_cache[d_op.slot] /\ d_data' = d_data
    BY <1>3, <1>a
  <2>k. d_op.kind \in {"write", "create", "delete"}
    BY <1>1, <1>a
  <2>3. /\ Held(d_table', d_data', d_op.name) = d_op.new
        /\ \A n \in Names : n # d_op.name => Held(d_table', d_data', n) = Held(d_table, d_data, n)
        /\ LET e == d_cache[d_op.slot] IN
           e # Free /\ e.size > 0 => e.size = 1 /\ e.start \in Disk!Blocks /\ e.start < d_super.next
    BY <1>1, <1>a, <2>1, <2>2, <2>k, NewHeld
  <2>4. ASSUME NEW n \in Names
        PROVE  Held(d_table', d_data', n) = IF Written(n) THEN d_op.new ELSE d_content[n]
    <3>1. CASE n = d_op.name
      <4>1. Written(n)
        BY <1>6, <1>a, <2>k, <3>1 DEF Written
      <4> QED BY <2>3, <3>1, <4>1
    <3>2. CASE n # d_op.name
      <4>1. ~Written(n)
        BY <3>2 DEF Written
      <4>2. Expected(n) = d_content[n]
        BY <3>2 DEF Expected
      <4>3. Held(d_table', d_data', n) = Held(d_table, d_data, n)
        BY <2>3, <3>2
      <4> QED BY <1>9, <4>1, <4>2, <4>3
    <3> QED BY <3>1, <3>2
  <2>5. ASSUME NEW s \in Disk!Slots, d_table'[s] # Free, d_table'[s].size > 0
        PROVE  /\ d_table'[s].size = 1 /\ d_table'[s].start \in Disk!Blocks
               /\ d_super # Garbage /\ d_table'[s].start < d_super.next
    <3>1. CASE s = d_op.slot
      BY <1>2, <2>2, <2>3, <2>5, <3>1
    <3>2. CASE s # d_op.slot
      BY <1>8, <2>1, <2>5, <3>2
    <3> QED BY <3>1, <3>2
  <2> QED BY <1>7, <2>4, <2>5
<1>b. CASE ~(d_op.kind # "unmount" /\ d_op.i = d_op.slot)
  <2>1. d_table[d_op.i] = d_cache[d_op.i]
    BY <1>1, <1>5, <1>b
  <2>2. d_table' = d_table
    BY <1>1, <2>1 DEF DiskTables
  <2>3. ASSUME NEW n \in Names
        PROVE  Held(d_table', d_data', n) = IF Written(n) THEN d_op.new ELSE d_content[n]
    <3>1. Written(n) <=> /\ d_op.kind \in {"write", "create", "delete"} /\ d_op.name = n
                         /\ d_op.slot < d_op.i
      BY <1>6, <1>b DEF Written
    <3>2. Expected(n) = IF Written(n) THEN d_op.new ELSE d_content[n]
      BY <3>1 DEF Expected
    <3> QED BY <1>9, <2>2, <3>2
  <2>4. ASSUME NEW s \in Disk!Slots, d_table'[s] # Free, d_table'[s].size > 0
        PROVE  /\ d_table'[s].size = 1 /\ d_table'[s].start \in Disk!Blocks
               /\ d_super # Garbage /\ d_table'[s].start < d_super.next
    BY <1>8, <2>2, <2>4
  <2> QED BY <1>7, <2>3, <2>4
<1> QED BY <1>a, <1>b

(* A format clears the table and leaves every name free. *)
LEMMA SureFormatTable ==
  ASSUME DiskInv, DiskInv', SureInv, Disk!WriteTable, d_op.kind = "format", d_faults' = {}
  PROVE  SureInv'
<1> USE DiskBasics
<1>0. /\ d_op.pc = "table" /\ d_op \in DiskOps /\ d_faults = {} /\ d_op.i \in Disk!Slots
      /\ d_table \in DiskTables
      /\ d_table' = [d_table EXCEPT ![d_op.i] = Free]
      /\ IF d_op.i < FilesOfDisk
         THEN d_op' = [d_op EXCEPT !.i = @ + 1] /\ UNCHANGED <<d_mounted, d_cache, d_content>>
         ELSE Disk!Finish
      /\ UNCHANGED <<d_super, d_data, d_sb, d_faults>>
  BY DEF Disk!WriteTable, DiskInv, DiskTypes, DiskCall
<1>1. d_cache = Null /\ ~d_mounted /\ \A s \in Disk!Slots : s < d_op.i => d_table[s] = Free
  BY <1>0 DEF SureInv, SureFormat
<1>2. \A s \in Disk!Slots : s < d_op.i + 1 => d_table'[s] = Free
  BY <1>0, <1>1 DEF DiskTables
<1>3. CASE d_op.i < FilesOfDisk
  <2>1. d_op'.i = d_op.i + 1 /\ d_op'.kind = "format" /\ UNCHANGED <<d_mounted, d_cache>>
    <3>1. d_op.pc \in DiskPlaces /\ d_op.i + 1 \in Nat /\ d_op.i + 1 # 0
      BY <1>0 DEF DiskOps
    <3>2. d_op' = Moved(d_op, d_op.pc, d_op.i + 1)
      BY <1>0, <1>3 DEF Moved, DiskOps
    <3> QED BY <1>0, <1>3, <3>1, <3>2, OpMoves
  <2>2. SureFormat'
    BY <1>1, <1>2, <2>1 DEF SureFormat
  <2> QED BY <2>1, <2>2 DEF SureInv, SureTable, SureSuper, SureBlocks, SureWrite, SureOther, SureHeld, Sure
<1>4. CASE ~(d_op.i < FilesOfDisk)
  <2>1. Disk!Finish /\ \A s \in Disk!Slots : s < d_op.i + 1
    BY <1>0, <1>4
  <2>2. /\ d_op'.kind = "none" /\ UNCHANGED <<d_mounted, d_cache>>
        /\ d_content' = Disk!Nothing
    BY <2>1 DEF Disk!Finish, Disk!Idle
  <2>3. \A s \in Disk!Slots : d_table'[s] = Free
    BY <1>2, <2>1
  <2>4. SureHeld'
    <3> SUFFICES ASSUME NEW n \in Names PROVE Held(d_table', d_data', n) = Expected(n)'
      BY DEF SureHeld
    <3>1. Expected(n)' = Closed
      BY <2>2 DEF Expected, Disk!Nothing
    <3>2. Held(d_table', d_data', n) = Closed
      BY <2>3, HeldNone
    <3> QED BY <3>1, <3>2
  <2>5. SureBlocks'
    BY <2>3 DEF SureBlocks
  <2> QED BY <1>1, <2>2, <2>4, <2>5
          DEF SureInv, SureFormat, SureTable, SureSuper, SureWrite, SureOther, Sure
<1> QED BY <1>3, <1>4

(* One entry of the table is written; the last one ends the call. *)
LEMMA SureWriteTable ==
  ASSUME DiskInv, DiskInv', SureInv, Disk!WriteTable
  PROVE  SureInv'
<1> USE DiskBasics
<1> SUFFICES ASSUME d_faults' = {} PROVE SureInv'
  BY SureFaults
<1>1. CASE d_op.kind = "format"
  BY <1>1, SureFormatTable
<1>2. CASE d_op.kind # "format"
  <2>0. /\ d_op # Disk!Idle /\ d_op.pc = "table" /\ d_op \in DiskOps /\ d_faults = {}
        /\ d_op.i \in Disk!Slots /\ d_op.slot \in Disk!Slots /\ d_cache # Null /\ d_mounted
        /\ d_table' = [d_table EXCEPT ![d_op.i] = d_cache[d_op.i]]
        /\ IF d_op.i < FilesOfDisk
           THEN d_op' = [d_op EXCEPT !.i = @ + 1] /\ UNCHANGED <<d_mounted, d_cache, d_content>>
           ELSE Disk!Finish
        /\ UNCHANGED <<d_super, d_data, d_sb, d_faults>>
    BY <1>2 DEF Disk!WriteTable, DiskInv, DiskTypes, DiskCall, DiskOps
  <2>1. Sure
    BY <1>2, <2>0 DEF Sure
  <2>2. /\ \A s \in Disk!Slots :
              \/ d_table'[s] = d_cache[s]
              \/ d_op.kind \in {"write", "create", "delete"} /\ d_op.slot = s /\ d_op.i < d_op.slot
        /\ \A n \in Names :
              Held(d_table', d_data', n) = IF Written(n) THEN d_op.new ELSE d_content[n]
        /\ \A s \in Disk!Slots : d_table'[s] # Free /\ d_table'[s].size > 0 =>
              /\ d_table'[s].size = 1 /\ d_table'[s].start \in Disk!Blocks
              /\ d_super # Garbage /\ d_table'[s].start < d_super.next
    BY <1>2, <2>0, EntryWritten
  <2>3. SureBlocks'
    BY <2>0, <2>2 DEF SureBlocks
  <2>4. d_super # Garbage /\ d_sb = d_super
    BY <2>0, <2>1 DEF SureInv, SureSuper
  <2>5. CASE d_op.i < FilesOfDisk
    <3>0. UNCHANGED <<d_mounted, d_cache, d_content>>
      BY <2>0, <2>5
    <3>1. /\ d_op'.i = d_op.i + 1 /\ d_op'.kind = d_op.kind /\ d_op'.name = d_op.name
          /\ d_op'.slot = d_op.slot /\ d_op'.new = d_op.new /\ d_op'.pc = "table"
      <4>1. d_op.pc \in DiskPlaces /\ d_op.i + 1 \in Nat /\ d_op.i + 1 # 0
        BY <2>0 DEF DiskOps
      <4>2. d_op' = Moved(d_op, d_op.pc, d_op.i + 1)
        BY <2>0, <2>5 DEF Moved, DiskOps
      <4> QED BY <2>0, <4>1, <4>2, OpMoves
    <3>2. SureTable'
      BY <2>2, <3>0, <3>1 DEF SureTable
    <3>3. SureSuper' /\ SureFormat'
      BY <1>2, <2>0, <2>4, <3>1 DEF SureSuper, SureFormat
    <3>4. SureWrite' /\ SureOther'
      BY <2>0, <2>1, <3>0, <3>1 DEF SureInv, SureWrite, SureOther
    <3>5. SureHeld'
      <4> SUFFICES ASSUME NEW n \in Names PROVE Held(d_table', d_data', n) = Expected(n)'
        BY DEF SureHeld
      <4>1. Expected(n)' = IF Written(n) THEN d_op.new ELSE d_content[n]
        BY <3>0, <3>1 DEF Expected, Written
      <4> QED BY <2>2, <4>1
    <3> QED BY <2>3, <3>2, <3>3, <3>4, <3>5 DEF SureInv
  <2>6. CASE ~(d_op.i < FilesOfDisk)
    <3>1. Disk!Finish /\ ~(d_op.i < d_op.slot) /\ d_op.slot < d_op.i + 1
      BY <2>0, <2>6
    <3>2. \A s \in Disk!Slots : d_table'[s] = d_cache[s]
      BY <2>2, <3>1
    <3>3. /\ d_op'.kind = "none"
          /\ d_cache' = Null \/ d_cache' = d_cache
          /\ d_content' = IF d_op.kind = "unmount" THEN d_content
                          ELSE [d_content EXCEPT ![d_op.name] = d_op.new]
      BY <1>2, <3>1 DEF Disk!Finish, Disk!Idle
    <3>4. SureTable' /\ SureSuper' /\ SureFormat' /\ SureWrite' /\ SureOther'
      BY <2>0, <2>4, <3>2, <3>3 DEF SureTable, SureSuper, SureFormat, SureWrite, SureOther
    <3>5. SureHeld'
      <4> SUFFICES ASSUME NEW n \in Names PROVE Held(d_table', d_data', n) = d_content'[n]
        BY <3>3 DEF SureHeld, Expected
      <4>1. d_op.kind \in {"write", "create", "delete", "unmount"} /\ DOMAIN d_content = Names
        BY <1>2, <2>0 DEF DiskOps, DiskInv, DiskTypes
      <4>2. CASE d_op.kind = "unmount"
        BY <2>2, <3>3, <4>2 DEF Written
      <4>3. CASE d_op.kind # "unmount"
        <5>1. Written(n) <=> d_op.name = n
          BY <3>1, <4>1, <4>3 DEF Written
        <5>2. d_content'[n] = IF d_op.name = n THEN d_op.new ELSE d_content[n]
          BY <3>3, <4>1, <4>3
        <5> QED BY <2>2, <5>1, <5>2
      <4> QED BY <4>2, <4>3
    <3> QED BY <2>3, <3>4, <3>5 DEF SureInv
  <2> QED BY <2>5, <2>6
<1> QED BY <1>1, <1>2

(* Unmounting without a cache changes no file. *)
LEMMA SureNoTable ==
  ASSUME DiskInv, SureInv, Disk!NoTable
  PROVE  SureInv'
<1> SUFFICES ASSUME d_faults' = {} PROVE SureInv'
  BY SureFaults
<1>1. /\ d_op.kind = "unmount" /\ d_faults = {}
      /\ d_op'.kind = "none" /\ d_cache' = Null /\ d_mounted' = FALSE /\ d_content' = d_content
      /\ UNCHANGED <<d_super, d_table, d_data, d_sb>>
  BY DEF Disk!NoTable, Disk!Finish, Disk!Idle, Disk!disk
<1>2. SureTable' /\ SureSuper' /\ SureBlocks' /\ SureFormat' /\ SureWrite' /\ SureOther'
  BY <1>1 DEF SureInv, SureTable, SureSuper, SureBlocks, SureFormat, SureWrite, SureOther, Sure
<1>3. SureHeld'
  BY <1>1 DEF SureInv, SureHeld, Expected, Sure
<1> QED BY <1>2, <1>3 DEF SureInv

(* One step of the disk keeps both halves of the invariant. *)
LEMMA CrashInductive == Disk!Spec => [](DiskInv /\ SureInv)
<1>1. Disk!Init => SureInv
  BY SureInitial
<1>2. DiskInv /\ DiskInv' /\ SureInv /\ [Disk!Next]_(Disk!vars) => SureInv'
  <2> SUFFICES ASSUME DiskInv, DiskInv', SureInv, [Disk!Next]_(Disk!vars) PROVE SureInv'
    OBVIOUS
  <2>1. CASE Disk!Next
    <3>1. CASE \E name \in Names, v \in Nodes, n \in 0 .. LongestFile : Disk!fs_write_file(name, v, n)
      BY <3>1, SureWriteFile
    <3>2. CASE \E name \in Names, kind \in {"file", "dir"} : Disk!fs_create_file(name, kind)
      BY <3>2, SureCreate
    <3>3. CASE \E name \in Names : Disk!fs_delete_file(name)
      BY <3>3, SureDelete
    <3> QED BY <2>1, <3>1, <3>2, <3>3, SureMount, SureWriteSuper, SureWriteData, SureSetSize,
               SureWriteTable, SureNoTable, SureCrash DEF Disk!Next
  <2>2. CASE UNCHANGED Disk!vars
    BY <2>2 DEF Disk!vars, Disk!disk, SureInv, SureTable, SureSuper, SureBlocks, SureFormat, SureWrite,
                SureOther, SureHeld, Expected, Sure
  <2> QED BY <2>1, <2>2
<1> QED BY <1>1, <1>2, DiskInductive, PTL DEF Disk!Spec

(* CrashAtomic: whenever the machine stops between two writes, a file holds what
   the last completed call left in it or all that the call in progress writes. *)
THEOREM CrashTheorem == MCSpec => []CrashAtomic
<1>1. DiskInv /\ SureInv => CrashAtomic
  <2> SUFFICES ASSUME DiskInv, SureInv, d_faults = {}, NEW n \in Names
               PROVE  \/ Disk!OnDisk(n) = d_content[n]
                      \/ /\ d_op # Disk!Idle
                         /\ d_op.kind = "format" \/ (d_op.name = n /\ Disk!OnDisk(n) = d_op.new)
    BY DEF CrashAtomic, Disk!CrashAtomic
  <2>1. CASE d_op.kind = "format"
    BY <2>1 DEF Disk!Idle
  <2>2. CASE d_op.kind # "format"
    <3>1. Disk!OnDisk(n) = Expected(n)
      BY <2>2, OnDiskHeld DEF SureInv, SureHeld, Sure
    <3>2. d_op.kind \in {"write", "create", "delete"} => d_op # Disk!Idle
      BY DEF Disk!Idle
    <3> QED BY <3>1, <3>2 DEF Expected
  <2> QED BY <2>1, <2>2
<1> QED BY <1>1, CrashInductive, DiskRuns, PTL
=============================================================================
