---------------------------- MODULE DotFileProofs ----------------------------
(***************************************************************************)
(* Names and colours of DOT files, for every number of processes, files,   *)
(* queues and colours.                                                     *)
(***************************************************************************)
EXTENDS DotFile, FiniteSetTheorems, TLAPS

\* Where the steps of a process are told apart.
LEMMA Steps ==
  /\ \A s : Idle # Stamped(s)
  /\ \A name : Idle # Named(name)
  /\ \A s, name : Stamped(s) # Named(name)
  /\ \A name, other : Named(name) = Named(other) => name = other
  /\ \A name : Crashed # Named(name)
<1>1. ASSUME NEW name, NEW other, Named(name) = Named(other) PROVE name = other
  <2>1. Named(name).name = Named(other).name
    BY <1>1
  <2> QED
    BY <2>1 DEF Named
<1>2. \A s : Idle.at # Stamped(s).at
  BY DEF Idle, Stamped
<1>3. \A name : Idle.at # Named(name).at
  BY DEF Idle, Named
<1>4. \A s, name : Stamped(s).at # Named(name).at
  BY DEF Stamped, Named
<1>5. \A name : Crashed.at # Named(name).at
  BY DEF Crashed, Named
<1> QED
  BY <1>1, <1>2, <1>3, <1>4, <1>5

\* Two queues of a file that took different places of the pool have the same
\* colour only if it is at both.
LEMMA SharedOnlyByPool == TypeOK /\ NamesInOrder /\ ColorsInOrder => OneColorEach
<1> SUFFICES ASSUME TypeOK, NamesInOrder, ColorsInOrder, NEW f \in Opened,
                    NEW x \in painted[f], NEW y \in painted[f],
                    x[1] # y[1], x[2] = y[2], ~(ColorIndex[owner[f]] > NumColors)
             PROVE  Repeated(x[2])
  BY DEF OneColorEach, ColorsInOrder
<1> USE BoundsAssumption
<1>1. /\ f \in File /\ owner[f] \in Process
      /\ taken[f] \subseteq VizQueue \X Index /\ ColorIndex[owner[f]] \in Nat
  BY DEF TypeOK, NamesInOrder, Opened, File
<1>2. PICK j \in taken[f] : j[1] = x[1] /\ (j[2] < NumColors => x[2] = Colors[j[2]])
  BY DEF ColorsInOrder
<1>3. PICK k \in taken[f] : k[1] = y[1] /\ (k[2] < NumColors => y[2] = Colors[k[2]])
  BY DEF ColorsInOrder
<1>4. j[2] \in 0 .. (NumColors - 1) /\ k[2] \in 0 .. (NumColors - 1)
  <2>1. j[2] < ColorIndex[owner[f]] /\ k[2] < ColorIndex[owner[f]]
    BY DEF ColorsInOrder
  <2> QED
    BY <1>1, <2>1 DEF Index
<1>5. j[2] # k[2]
  BY <1>2, <1>3 DEF ColorsInOrder
<1> QED
  BY <1>2, <1>3, <1>4, <1>5 DEF Repeated

-----------------------------------------------------------------------------
(***************************************************************************)
(* The steps of opening.                                                   *)
(***************************************************************************)

\* The colours depend on nothing a step on names changes.
LEMMA ColorsUnchanged ==
  ASSUME ColorsInOrder,
         UNCHANGED <<files, owner, ColorIndex, MQueueColors, taken, painted>>
  PROVE  ColorsInOrder'
<1>1. \A p \in Process : Coloured(p)' = Coloured(p)
  BY DEF Coloured
<1> QED
  BY <1>1 DEF ColorsInOrder, Opened

\* The process goes to a step that names no file of the layer's choice.
LEMMA ToUnnamed ==
  ASSUME FilesIInv, NEW p \in Process, NEW s,
         s \in {Stamped(x) : x \in Second} \cup {Named(UserPath), Crashed}, Goto(p, s),
         UNCHANGED <<UID, ColorIndex, fileVars, colorVars>>
  PROVE  FilesIInv'
<1>1. TypeOK'
  BY DEF FilesIInv, TypeOK, Goto, fileVars, colorVars, Path
<1>2. ASSUME NEW q \in Process, NEW name \in DotName, step'[q] = Named(name)
      PROVE  step[q] = Named(name)
  BY <1>2, Steps, PathAssumption DEF FilesIInv, TypeOK, Goto
<1>3. Opened' = Opened /\ Chosen' = Chosen
  BY DEF Opened, Chosen, fileVars
<1>4. NamesInOrder'
  BY <1>2, <1>3 DEF FilesIInv, NamesInOrder, fileVars
<1>5. OwnFilesKept'
  BY <1>3 DEF FilesIInv, OwnFilesKept, fileVars
<1>6. ColorsInOrder'
  BY ColorsUnchanged DEF FilesIInv, fileVars, colorVars
<1> QED
  BY <1>1, <1>4, <1>5, <1>6 DEF FilesIInv

\* A name is chosen: it is behind the counter, and no file of the process has it.
LEMMA Choosing ==
  ASSUME FilesIInv, NEW p \in Process, NEW s \in Second, GetDotFilename(p, s)
  PROVE  FilesIInv'
<1> DEFINE plain == [second |-> s, uid |-> 0]
           tail  == [second |-> s, uid |-> UID[p]]
<1>1. UNCHANGED <<ColorIndex, files, owner, MFileName, disk, MQueueColors, taken, painted>>
  BY DEF GetDotFilename, fileVars, colorVars
<1>2. PICK name \in DotName :
        /\ Goto(p, Named(name))
        /\ \/ name = plain /\ disk[plain] = NoFile /\ UNCHANGED UID
           \/ name = tail /\ UID[p] <= MaxUID /\ UID' = [UID EXCEPT ![p] = UID[p] + 1]
  <2>1. CASE disk[plain] = NoFile
    <3>1. plain \in DotName
      BY BoundsAssumption DEF DotName
    <3> QED
      BY <2>1, <3>1 DEF GetDotFilename
  <2>2. CASE disk[plain] # NoFile
    <3>1. tail \in DotName
      BY <2>2, BoundsAssumption DEF GetDotFilename, DotName, FilesIInv, TypeOK
    <3> QED
      BY <2>2, <3>1 DEF GetDotFilename, NextUID
  <2> QED
    BY <2>1, <2>2
<1> HIDE DEF plain, tail
<1>3. /\ UID \in [Process -> 1 .. (MaxUID + 1)] /\ UID' \in [Process -> 1 .. (MaxUID + 1)]
      /\ name.uid < UID'[p] /\ \A q \in Process : UID[q] <= UID'[q]
  BY <1>2, BoundsAssumption DEF FilesIInv, TypeOK, plain, tail
<1>4. TypeOK'
  BY <1>1, <1>2, <1>3 DEF FilesIInv, TypeOK, Goto, Path
<1>5. Opened' = Opened /\ Chosen' = Chosen
  BY <1>1 DEF Opened, Chosen
<1>6. \A f \in Chosen : owner[f] = p => MFileName[f] # name
  <2> SUFFICES ASSUME NEW f \in Chosen, owner[f] = p, MFileName[f] = name PROVE FALSE
    OBVIOUS
  <2>1. name.uid < UID[p] /\ disk[name] # NoFile
    BY DEF FilesIInv, NamesInOrder
  <2> QED
    BY <1>2, <1>3, <2>1 DEF tail
<1>7. ASSUME NEW q \in Process, NEW other \in DotName, step'[q] = Named(other)
      PROVE  other.uid < UID'[q] /\ \A f \in Chosen : owner[f] = q => MFileName[f] # other
  <2>1. CASE q = p
    <3>1. other = name
      BY <1>2, <1>7, <2>1, Steps DEF FilesIInv, TypeOK, Goto
    <3> QED
      BY <1>3, <1>6, <2>1, <3>1
  <2>2. CASE q # p
    <3>1. step[q] = Named(other)
      BY <1>2, <1>7, <2>2 DEF Goto, FilesIInv, TypeOK
    <3> QED
      BY <1>3, <3>1, BoundsAssumption DEF FilesIInv, NamesInOrder, DotName
  <2> QED
    BY <2>1, <2>2
<1>8. \A f \in Chosen : MFileName[f].uid < UID'[owner[f]]
  <2> TAKE f \in Chosen
  <2>1. /\ MFileName[f].uid < UID[owner[f]] /\ owner[f] \in Process
        /\ MFileName[f].uid \in Int
    BY BoundsAssumption DEF FilesIInv, NamesInOrder, Chosen, DotName
  <2> QED
    BY <1>3, <2>1
<1>9. NamesInOrder'
  BY <1>1, <1>5, <1>7, <1>8 DEF FilesIInv, NamesInOrder
<1>10. OwnFilesKept'
  BY <1>1, <1>5 DEF FilesIInv, OwnFilesKept
<1>11. ColorsInOrder'
  BY <1>1, ColorsUnchanged DEF FilesIInv
<1> QED
  BY <1>4, <1>9, <1>10, <1>11 DEF FilesIInv

\* A file is opened: it has a name no other file of its process has.
LEMMA Opening ==
  ASSUME FilesIInv, NEW p \in Process, NEW name \in Path, Open(p, name)
  PROVE  FilesIInv'
<1> DEFINE f == files + 1
<1>1. /\ step[p] = Named(name) /\ files \in Nat /\ files' = f /\ f \in File
      /\ Opened' = Opened \cup {f} /\ f \notin Opened /\ Opened \subseteq File
  BY BoundsAssumption DEF Open, FilesIInv, TypeOK, File, Opened
<1>2. /\ owner' = [owner EXCEPT ![f] = p]
      /\ MFileName' = [MFileName EXCEPT ![f] = name]
      /\ disk' = [disk EXCEPT ![name] = f]
      /\ step' = [step EXCEPT ![p] = Idle]
      /\ UNCHANGED <<UID, ColorIndex, MQueueColors, taken, painted>>
      /\ f # NoFile
  BY <1>1 DEF Open, Goto, NoFile, colorVars
<1> HIDE DEF f
<1>3. TypeOK'
  <2>1. files' \in 0 .. MaxFiles
    BY <1>1, BoundsAssumption DEF File
  <2>2. /\ owner' \in [File -> Process \cup {NoProcess}]
        /\ MFileName' \in [File -> Path]
        /\ disk' \in [Path -> File \cup {NoFile}]
    BY <1>1, <1>2 DEF FilesIInv, TypeOK
  <2>3. step' \in [Process -> {Idle, Crashed} \cup {Stamped(s) : s \in Second}
                                             \cup {Named(path) : path \in Path}]
    BY <1>2 DEF FilesIInv, TypeOK
  <2> QED
    BY <1>2, <2>1, <2>2, <2>3 DEF FilesIInv, TypeOK
<1>4. /\ owner'[f] = p /\ MFileName'[f] = name
      /\ \A g \in Opened : owner'[g] = owner[g] /\ MFileName'[g] = MFileName[g]
      /\ \A g \in Opened : owner[g] \in Process
  BY <1>1, <1>2 DEF FilesIInv, TypeOK, NamesInOrder
<1>5. /\ Chosen' = Chosen \cup (IF name \in DotName THEN {f} ELSE {})
      /\ Chosen \subseteq Opened
  BY <1>1, <1>4 DEF Chosen
<1>6. name \in DotName =>
        name.uid < UID[p] /\ \A g \in Chosen : owner[g] = p => MFileName[g] # name
  BY <1>1 DEF FilesIInv, NamesInOrder
<1>7. \A path \in Path : disk[path] # NoFile => disk'[path] # NoFile
  BY <1>2 DEF FilesIInv, TypeOK
<1>8. NamesInOrder'
  <2>1. ASSUME NEW q \in Process, NEW other \in DotName, step'[q] = Named(other),
               NEW g \in Chosen', owner'[g] = q
        PROVE  MFileName'[g] # other
    <3>1. q # p /\ step[q] = Named(other)
      BY <1>2, <2>1, Steps DEF FilesIInv, TypeOK
    <3>2. g \in Chosen /\ owner[g] = q /\ MFileName'[g] = MFileName[g]
      BY <1>4, <1>5, <2>1, <3>1
    <3> QED
      BY <3>1, <3>2 DEF FilesIInv, NamesInOrder
  <2>2. ASSUME NEW q \in Process, NEW other \in DotName, step'[q] = Named(other)
        PROVE  other.uid < UID'[q]
    <3>1. step[q] = Named(other)
      BY <1>2, <2>2, Steps DEF FilesIInv, TypeOK
    <3> QED
      BY <1>2, <3>1 DEF FilesIInv, NamesInOrder
  <2>3. ASSUME NEW g \in Chosen'
        PROVE  MFileName'[g].uid < UID'[owner'[g]] /\ disk'[MFileName'[g]] # NoFile
    <3>1. CASE g \in Chosen
      BY <1>2, <1>4, <1>5, <1>7, <3>1 DEF FilesIInv, NamesInOrder, Chosen, Path
    <3>2. CASE g = f /\ name \in DotName
      BY <1>2, <1>4, <1>6, <3>2 DEF FilesIInv, TypeOK
    <3> QED
      BY <1>5, <2>3, <3>1, <3>2
  <2>4. \A g \in Opened' : owner'[g] \in Process
    BY <1>1, <1>4
  <2> QED
    BY <2>1, <2>2, <2>3, <2>4 DEF NamesInOrder
<1>9. OwnFilesKept'
  <2> SUFFICES ASSUME NEW g \in Chosen', NEW h \in Chosen', owner'[g] = owner'[h], g # h
               PROVE  MFileName'[g] # MFileName'[h]
    BY DEF OwnFilesKept
  <2>1. CASE g \in Chosen /\ h \in Chosen
    BY <1>4, <1>5, <2>1 DEF FilesIInv, OwnFilesKept
  <2>2. CASE g = f \/ h = f
    BY <1>1, <1>4, <1>5, <1>6, <2>2
  <2> QED
    BY <1>5, <2>1, <2>2
<1>10. \A q \in Process : Coloured(q)' = Coloured(q)
  <2> TAKE q \in Process
  <2>1. \A g \in File : (\E x : x \in painted[g]) => owner'[g] = owner[g]
    BY <1>1, <1>4 DEF FilesIInv, ColorsInOrder
  <2>2. ASSUME NEW fq \in File \X VizQueue
        PROVE  (owner'[fq[1]] = q /\ \E x \in painted[fq[1]] : x[1] = fq[2])
                 <=> (owner[fq[1]] = q /\ \E x \in painted[fq[1]] : x[1] = fq[2])
    BY <2>1
  <2> QED
    BY <1>2, <2>2 DEF Coloured
<1>11. painted[f] = {} /\ taken[f] = {}
  BY <1>1 DEF FilesIInv, ColorsInOrder
<1>12. ColorsInOrder'
  BY <1>1, <1>2, <1>4, <1>10, <1>11 DEF FilesIInv, ColorsInOrder
<1> QED
  BY <1>3, <1>8, <1>9, <1>12 DEF FilesIInv

-----------------------------------------------------------------------------
(***************************************************************************)
(* Painting.                                                               *)
(***************************************************************************)

\* Nothing of the names changes.
LEMMA NamesUnchanged ==
  ASSUME NamesInOrder, OwnFilesKept, UNCHANGED <<UID, step, fileVars>>
  PROVE  NamesInOrder' /\ OwnFilesKept'
<1>1. Opened' = Opened /\ Chosen' = Chosen
  BY DEF Opened, Chosen, fileVars
<1>2. NamesInOrder'
  BY <1>1 DEF NamesInOrder, fileVars
<1>3. OwnFilesKept'
  BY <1>1 DEF OwnFilesKept, fileVars
<1> QED
  BY <1>2, <1>3

\* What colours are in order for, of one file: the parts of ColorsInOrder that
\* speak of one, for the colours P, the indices T and the next index n.
FileInOrder(P, T, n) ==
  /\ \A x, y \in P : x[1] = y[1] => x[2] = y[2]
  /\ \A x \in P : \E k \in T : k[1] = x[1] /\ (k[2] < NumColors => x[2] = Colors[k[2]])
  /\ \A k \in T : k[2] < n
  /\ \A j, k \in T : j[2] = k[2] => j[1] = k[1]

\* A queue that had no colour takes the next index.
LEMMA TakesNext ==
  ASSUME NEW P \in SUBSET (VizQueue \X ColorName), NEW T \in SUBSET (VizQueue \X Index),
         NEW n \in 0 .. NumColors, NEW vq \in VizQueue, NEW color \in ColorName,
         FileInOrder(P, T, n), \A x \in P : x[1] # vq,
         n < NumColors => color = Colors[n]
  PROVE  FileInOrder(P \cup {<<vq, color>>}, T \cup {<<vq, n>>}, n + 1)
<1> USE BoundsAssumption
<1> DEFINE P1 == P \cup {<<vq, color>>}
           T1 == T \cup {<<vq, n>>}
<1>1. \A x, y \in P1 : x[1] = y[1] => x[2] = y[2]
  BY DEF FileInOrder
<1>2. ASSUME NEW x \in P1
      PROVE  \E k \in T1 : k[1] = x[1] /\ (k[2] < NumColors => x[2] = Colors[k[2]])
  <2>1. CASE x \in P
    BY <2>1 DEF FileInOrder
  <2>2. CASE x = <<vq, color>>
    <3>1. x[1] = vq /\ x[2] = color
      BY <2>2
    <3> WITNESS <<vq, n>> \in T1
    <3> QED
      BY <3>1
  <2> QED
    BY <1>2, <2>1, <2>2
<1>3. \A k \in T : k[2] \in Int /\ k[2] < n
  BY DEF FileInOrder, Index
<1>4. \A k \in T1 : k[2] < n + 1
  BY <1>3
<1>5. \A j, k \in T1 : j[2] = k[2] => j[1] = k[1]
  BY <1>3 DEF FileInOrder
<1> QED
  BY <1>1, <1>2, <1>4, <1>5 DEF FileInOrder

\* A node is written: its queue has a colour, or takes the next of the pool.
LEMMA Painting ==
  ASSUME FilesIInv, NEW f \in File, NEW vq \in VizQueue, NEW color \in ColorName,
         WriteNode(f, vq, color)
  PROVE  FilesIInv'
<1> DEFINE p == owner[f]
           x == <<vq, color>>
<1>1. /\ f \in Opened /\ p \in Process /\ NumColors \in Nat
      /\ ColorIndex \in [Process -> 0 .. (NumColors + 1)]
      /\ painted \in [File -> SUBSET (VizQueue \X ColorName)]
      /\ taken \in [File -> SUBSET (VizQueue \X Index)]
      /\ painted' = [painted EXCEPT ![f] = @ \cup {x}]
      /\ painted[f] = MQueueColors[f]
      /\ UNCHANGED <<UID, step, fileVars>>
  BY BoundsAssumption DEF WriteNode, FilesIInv, TypeOK, NamesInOrder, ColorsInOrder
<1>2. Opened' = Opened /\ owner' = owner /\ Opened \subseteq File
  BY <1>1, BoundsAssumption DEF Opened, fileVars, File, FilesIInv, TypeOK
<1>3. NamesInOrder' /\ OwnFilesKept'
  BY <1>1, NamesUnchanged DEF FilesIInv
<1>4. CASE x \in MQueueColors[f] /\ UNCHANGED <<ColorIndex, MQueueColors, taken>>
  <2>1. painted' = painted
    BY <1>1, <1>4
  <2>2. TypeOK'
    BY <1>1, <1>4, <2>1 DEF FilesIInv, TypeOK, fileVars
  <2>3. ColorsInOrder'
    BY <1>1, <1>4, <2>1, ColorsUnchanged DEF FilesIInv, fileVars
  <2> QED
    BY <1>3, <2>2, <2>3 DEF FilesIInv
<1>5. CASE Uncolored(f, vq) /\ NewColor(f, vq, color)
  <2> DEFINE k == ColorIndex[p]
  <2>1. /\ k \in 0 .. NumColors /\ (k < NumColors => color = Colors[k])
        /\ ColorIndex' = [ColorIndex EXCEPT ![p] = k + 1]
        /\ MQueueColors' = [MQueueColors EXCEPT ![f] = MQueueColors[f] \cup {x}]
        /\ taken' = [taken EXCEPT ![f] = taken[f] \cup {<<vq, k>>}]
    BY <1>1, <1>5 DEF NewColor, QueueColorsAfter
  <2> HIDE DEF k
  <2>2. TypeOK'
    <3>1. <<vq, k>> \in VizQueue \X Index /\ x \in VizQueue \X ColorName
      BY <2>1 DEF Index
    <3>2. /\ taken' \in [File -> SUBSET (VizQueue \X Index)]
          /\ painted' \in [File -> SUBSET (VizQueue \X ColorName)]
          /\ MQueueColors' \in [File -> SUBSET (VizQueue \X ColorName)]
      BY <1>1, <2>1, <3>1 DEF FilesIInv, TypeOK
    <3>3. ColorIndex' \in [Process -> 0 .. (NumColors + 1)]
      BY <1>1, <2>1
    <3> QED
      BY <1>1, <3>2, <3>3 DEF FilesIInv, TypeOK, fileVars
  <2>3. \A g \in File : painted'[g] = MQueueColors'[g]
    BY <1>1, <2>1 DEF FilesIInv, TypeOK, ColorsInOrder
  <2>4. \A g \in File \ Opened' : painted'[g] = {} /\ taken'[g] = {}
    BY <1>1, <1>2, <2>1 DEF FilesIInv, ColorsInOrder
  <2>5. ASSUME NEW g \in Opened
        PROVE  FileInOrder(painted'[g], taken'[g], ColorIndex'[owner[g]])
    <3>1. FileInOrder(painted[g], taken[g], ColorIndex[owner[g]])
      BY DEF FilesIInv, ColorsInOrder, FileInOrder
    <3>2. CASE g = f
      <4>1. \A y \in painted[f] : y[1] # vq
        BY <1>1, <1>5 DEF Uncolored
      <4>2. k = ColorIndex[p]
        BY DEF k
      <4>3. FileInOrder(painted[f] \cup {x}, taken[f] \cup {<<vq, k>>}, k + 1)
        BY <1>1, <2>1, <3>1, <3>2, <4>1, <4>2, TakesNext
      <4> QED
        BY <1>1, <2>1, <3>2, <4>3
    <3>3. CASE g # f
      <4>1. painted'[g] = painted[g] /\ taken'[g] = taken[g]
        BY <1>1, <1>2, <2>1, <3>3
      <4>2. /\ owner[g] \in Process /\ k = ColorIndex[p]
            /\ ColorIndex[owner[g]] <= ColorIndex'[owner[g]]
            /\ ColorIndex[owner[g]] \in Int /\ ColorIndex'[owner[g]] \in Int
        BY <1>1, <2>1 DEF FilesIInv, NamesInOrder, k
      <4>3. \A j \in taken[g] : j[2] \in Int
        BY <1>1, <1>2 DEF Index
      <4> QED
        BY <3>1, <4>1, <4>2, <4>3 DEF FileInOrder
    <3> QED
      BY <3>2, <3>3
  <2>6. ASSUME NEW q \in Process
        PROVE  IsFiniteSet(Coloured(q)') /\ Cardinality(Coloured(q)') = ColorIndex'[q]
    <3>1. IsFiniteSet(Coloured(q)) /\ Cardinality(Coloured(q)) = ColorIndex[q]
      BY DEF FilesIInv, ColorsInOrder
    <3>2. CASE q = p
      <4>1. <<f, vq>> \notin Coloured(q)
        BY <1>1, <1>5 DEF Coloured, Uncolored
      <4>2. Coloured(q)' = Coloured(q) \cup {<<f, vq>>}
        <5>1. ASSUME NEW g \in File, NEW w \in VizQueue
              PROVE  (\E y \in painted'[g] : y[1] = w)
                       <=> ((\E y \in painted[g] : y[1] = w) \/ (g = f /\ w = vq))
          <6>1. painted'[g] = IF g = f THEN painted[f] \cup {x} ELSE painted[g]
            BY <1>1
          <6>2. x[1] = vq
            OBVIOUS
          <6> HIDE DEF x
          <6> QED
            BY <6>1, <6>2
        <5>2. Coloured(q)' = {fq \in File \X VizQueue : owner[fq[1]] = q /\
                ((\E y \in painted[fq[1]] : y[1] = fq[2]) \/ (fq[1] = f /\ fq[2] = vq))}
          BY <1>2, <5>1 DEF Coloured
        <5> QED
          BY <3>2, <5>2 DEF Coloured
      <4>3. /\ IsFiniteSet(Coloured(q)')
            /\ Cardinality(Coloured(q)') = Cardinality(Coloured(q)) + 1
        BY <3>1, <4>1, <4>2, FS_AddElement
      <4> QED
        BY <1>1, <2>1, <3>1, <3>2, <4>3 DEF k
    <3>3. CASE q # p
      <4>1. \A g \in File : owner[g] = q => painted'[g] = painted[g]
        BY <1>1, <3>3
      <4>2. Coloured(q)' = Coloured(q)
        BY <1>2, <4>1 DEF Coloured
      <4> QED
        BY <1>1, <2>1, <3>1, <3>3, <4>2
    <3> QED
      BY <3>2, <3>3
  <2>7. ColorsInOrder'
    BY <1>2, <2>3, <2>4, <2>5, <2>6 DEF ColorsInOrder, FileInOrder
  <2> QED
    BY <1>3, <2>2, <2>7 DEF FilesIInv
<1> QED
  BY <1>4, <1>5 DEF WriteNode

-----------------------------------------------------------------------------
(***************************************************************************)
(* The theorems.                                                           *)
(***************************************************************************)

\* Names and colours stay in order, whatever processes interleave.
THEOREM Invariance == Spec => []FilesIInv
<1>1. Init => FilesIInv
  <2> SUFFICES ASSUME Init PROVE FilesIInv
    OBVIOUS
  <2>1. Opened = {} /\ Chosen = {}
    BY DEF Init, Opened, Chosen
  <2>2. TypeOK
    BY BoundsAssumption DEF Init, TypeOK, Path
  <2>3. NamesInOrder /\ OwnFilesKept
    BY <2>1, Steps DEF Init, NamesInOrder, OwnFilesKept
  <2>4. \A p \in Process : Coloured(p) = {}
    BY DEF Init, Coloured
  <2>5. ColorsInOrder
    BY <2>1, <2>4, FS_EmptySet DEF Init, ColorsInOrder
  <2> QED
    BY <2>2, <2>3, <2>5 DEF FilesIInv
<1>2. FilesIInv /\ [Next]_vars => FilesIInv'
  <2> SUFFICES ASSUME FilesIInv, [Next]_vars PROVE FilesIInv'
    OBVIOUS
  <2>1. ASSUME NEW p \in Process, PathGiven(p) PROVE FilesIInv'
    BY <2>1, ToUnnamed DEF PathGiven
  <2>2. ASSUME NEW p \in Process, NEW s \in Second, GetTimestamp(p, s) PROVE FilesIInv'
    BY <2>2, ToUnnamed DEF GetTimestamp
  <2>3. ASSUME NEW p \in Process, NEW s \in Second, GetDotFilename(p, s) PROVE FilesIInv'
    BY <2>3, Choosing
  <2>4. ASSUME NEW p \in Process, NEW name \in Path, Open(p, name) PROVE FilesIInv'
    BY <2>4, Opening
  <2>5. ASSUME NEW f \in File, NEW vq \in VizQueue, NEW color \in ColorName,
               WriteNode(f, vq, color)
        PROVE  FilesIInv'
    BY <2>5, Painting
  <2>6. ASSUME NEW f \in File, NEW vq \in VizQueue, WriteNodeCrashes(f, vq)
        PROVE  FilesIInv'
    <3>1. owner[f] \in Process
      BY <2>6 DEF WriteNodeCrashes, FilesIInv, NamesInOrder
    <3> QED
      BY <2>6, <3>1, ToUnnamed DEF WriteNodeCrashes
  <2>7. CASE UNCHANGED vars
    <3>1. UNCHANGED <<UID, step, fileVars, files, owner, ColorIndex, MQueueColors, taken,
                      painted>>
      BY <2>7 DEF vars, fileVars, colorVars
    <3>2. TypeOK'
      BY <3>1 DEF FilesIInv, TypeOK, fileVars
    <3> QED
      BY <3>1, <3>2, NamesUnchanged, ColorsUnchanged DEF FilesIInv
  <2> QED
    BY <2>1, <2>2, <2>3, <2>4, <2>5, <2>6, <2>7 DEF Next
<1> QED
  BY <1>1, <1>2, PTL DEF Spec

\* No graph of a process overwrites an earlier one whose name the layer chose
\* as well (getDotFilename, the constructor of VizDotFile).
THEOREM OwnNamesDiffer == Spec => []OwnFilesKept
<1>1. FilesIInv => OwnFilesKept
  BY DEF FilesIInv
<1> QED
  BY <1>1, Invariance, PTL

\* In each file a queue has one colour, and two queues share one only if the
\* pool has it at two places or is used up (newColor, writeNode).
THEOREM ColorsMatchQueues == Spec => []OneColorEach
<1>1. FilesIInv => OneColorEach
  BY SharedOnlyByPool DEF FilesIInv
<1> QED
  BY <1>1, Invariance, PTL

\* The pool of a process is used up by as many coloured queues as it has
\* colours, and no earlier (ColorIndex of newColor).
THEOREM PoolIsUsedFully == Spec => []PoolLasts
<1>1. FilesIInv => PoolLasts
  BY DEF FilesIInv, ColorsInOrder, PoolLasts
<1> QED
  BY <1>1, Invariance, PTL
=============================================================================
