------------------------------ MODULE DotFile ------------------------------
(***************************************************************************)
(* What the DOT files of all processes on a machine share: the names the   *)
(* layer gives them, and the pool of colours (VizDotFile in source/io.cpp).*)
(*                                                                         *)
(* A process opens one file at a time (createVizInstance and               *)
(* flushCommandBuffer hold MMutex), in three steps between which other     *)
(* processes take theirs: the clock is read, the directory looked at, the  *)
(* file opened.  Processes that follow each other are processes too: UID   *)
(* and ColorIndex are static, so that each starts afresh.  All run in one  *)
(* directory and remove no files.  The clock may be set back, so that it   *)
(* may read anything.                                                      *)
(*                                                                         *)
(* The pool of colours is a constant: it may have a name at two places, as *)
(* the code's has cyan and greenyellow.  What is read past its end is any  *)
(* text, or the end of the process.  A file without colours is one that    *)
(* WriteNode is never taken for, and so is a closed one.                   *)
(*                                                                         *)
(* An operator named X_Slip is X with a slip of the pen, used by no action:*)
(* with it in the place of X some property must fail.                      *)
(***************************************************************************)
EXTENDS Integers, FiniteSets

CONSTANTS
  Process,
  VizQueue,   \* VizQueue pointers, with null for the nodes of command-buffers
  UserPath,   \* what VIZ_DOT_FILE or the caller names
  ColorName,  \* colours, and what else may be printed as one
  NumColors,  \* size of the pool
  Colors,     \* the pool
  MaxFiles,   \* bound on the files opened
  MaxSecond,  \* bound on what the clock reads
  MaxUID      \* bound on the suffixes

ASSUME BoundsAssumption ==
  NumColors \in Nat /\ MaxFiles \in Nat /\ MaxSecond \in Nat /\ MaxUID \in Nat

ASSUME ColorsAssumption == Colors \in [0 .. (NumColors - 1) -> ColorName]

Second == 0 .. MaxSecond
File   == 1 .. MaxFiles
NoFile == 0

\* clviz_<second>.dot, and with suffix _<uid> unless that is zero.
DotName == [second : Second, uid : 0 .. MaxUID]
Path    == DotName \cup {UserPath}

ASSUME PathAssumption == UserPath \notin DotName

NoProcess == "none"

VARIABLES
  UID,          \* per process: the next suffix
  ColorIndex,   \* per process: the next colour
  step,         \* per process: how far it is with the file it opens
  files,        \* number of files opened
  owner,        \* per file: its process
  MFileName,    \* per file: its path
  MQueueColors, \* per file: the colours of its queues, as pairs
  disk,         \* per path: the file whose text is there
  taken,        \* history, per file: the index each queue had its colour from
  painted       \* history, per file: queue and colour of the nodes written

fileVars == <<files, owner, MFileName, disk>>
colorVars == <<MQueueColors, taken, painted>>
vars == <<UID, ColorIndex, step, fileVars, colorVars>>

Idle          == [at |-> "idle"]
Stamped(s)    == [at |-> "stamped", second |-> s]
Named(name)   == [at |-> "named", name |-> name]
Crashed       == [at |-> "crashed"]

Opened == 1 .. files
Index  == 0 .. NumColors    \* the last is past the end of the pool

TypeOK ==
  /\ UID \in [Process -> 1 .. (MaxUID + 1)]
  /\ ColorIndex \in [Process -> 0 .. (NumColors + 1)]
  /\ step \in [Process -> {Idle, Crashed} \cup {Stamped(s) : s \in Second}
                                          \cup {Named(name) : name \in Path}]
  /\ files \in 0 .. MaxFiles
  /\ owner \in [File -> Process \cup {NoProcess}]
  /\ MFileName \in [File -> Path]
  /\ MQueueColors \in [File -> SUBSET (VizQueue \X ColorName)]
  /\ disk \in [Path -> File \cup {NoFile}]
  /\ taken \in [File -> SUBSET (VizQueue \X Index)]
  /\ painted \in [File -> SUBSET (VizQueue \X ColorName)]

Init ==
  /\ UID = [p \in Process |-> 1]
  /\ ColorIndex = [p \in Process |-> 0]
  /\ step = [p \in Process |-> Idle]
  /\ files = 0
  /\ owner = [f \in File |-> NoProcess]
  /\ MFileName = [f \in File |-> UserPath]
  /\ MQueueColors = [f \in File |-> {}]
  /\ disk = [path \in Path |-> NoFile]
  /\ taken = [f \in File |-> {}]
  /\ painted = [f \in File |-> {}]

Goto(p, s) == step' = [step EXCEPT ![p] = s]

-----------------------------------------------------------------------------
(***************************************************************************)
(* Opening.                                                                *)
(***************************************************************************)

\* VIZ_DOT_FILE or the caller gives the path: nothing is looked at.
PathGiven(p) ==
  /\ step[p] = Idle
  /\ Goto(p, Named(UserPath))
  /\ UNCHANGED <<UID, ColorIndex, fileVars, colorVars>>

\* getTimestamp.
GetTimestamp(p, s) ==
  /\ step[p] = Idle
  /\ Goto(p, Stamped(s))
  /\ UNCHANGED <<UID, ColorIndex, fileVars, colorVars>>

\* The suffix is used but not counted up.
NextUID_CountSlip(p) == UID[p]

NextUID(p) == UID[p] + 1

\* The rest of getDotFilename: a suffix if the file exists.  Whether the name
\* with the suffix exists is not asked.
GetDotFilename(p, s) ==
  /\ step[p] = Stamped(s)
  /\ IF disk[[second |-> s, uid |-> 0]] = NoFile
     THEN /\ Goto(p, Named([second |-> s, uid |-> 0]))
          /\ UNCHANGED UID
     ELSE /\ UID[p] <= MaxUID
          /\ Goto(p, Named([second |-> s, uid |-> UID[p]]))
          /\ UID' = [UID EXCEPT ![p] = NextUID(p)]
  /\ UNCHANGED <<ColorIndex, fileVars, colorVars>>

\* The constructor of VizDotFile opens the file, and empties it if it is there.
Open(p, name) ==
  /\ step[p] = Named(name)
  /\ files < MaxFiles
  /\ files' = files + 1
  /\ owner' = [owner EXCEPT ![files + 1] = p]
  /\ MFileName' = [MFileName EXCEPT ![files + 1] = name]
  /\ disk' = [disk EXCEPT ![name] = files + 1]
  /\ Goto(p, Idle)
  /\ UNCHANGED <<UID, ColorIndex, colorVars>>

-----------------------------------------------------------------------------
(***************************************************************************)
(* Colours.                                                                *)
(***************************************************************************)

\* The colour is not entered in the map.
QueueColorsAfter_InsertSlip(f, vq, color) == MQueueColors[f]

QueueColorsAfter(f, vq, color) == MQueueColors[f] \cup {<<vq, color>>}

\* The queue has no colour in this file yet.
Uncolored(f, vq) == \A x \in MQueueColors[f] : x[1] # vq

\* newColor: the pool is read before the index is compared with its size, so
\* that past its end any text is the colour.  A bound of the model: one index
\* past the end.
NewColor(f, vq, color) ==
  LET p == owner[f]
      k == ColorIndex[p]
  IN
  /\ k <= NumColors
  /\ k < NumColors => color = Colors[k]
  /\ ColorIndex' = [ColorIndex EXCEPT ![p] = k + 1]
  /\ MQueueColors' = [MQueueColors EXCEPT ![f] = QueueColorsAfter(f, vq, color)]
  /\ taken' = [taken EXCEPT ![f] = @ \cup {<<vq, k>>}]

\* writeNode, for a node of queue vq in a file with colours, by a process
\* whose lock is free.
WriteNode(f, vq, color) ==
  /\ f \in Opened
  /\ step[owner[f]] = Idle
  /\ \/ <<vq, color>> \in MQueueColors[f] /\ UNCHANGED <<ColorIndex, MQueueColors, taken>>
     \/ Uncolored(f, vq) /\ NewColor(f, vq, color)
  /\ painted' = [painted EXCEPT ![f] = @ \cup {<<vq, color>>}]
  /\ UNCHANGED <<UID, step, fileVars>>

\* What was read past the end of the pool is no text.
WriteNodeCrashes(f, vq) ==
  /\ f \in Opened
  /\ step[owner[f]] = Idle
  /\ Uncolored(f, vq)
  /\ ColorIndex[owner[f]] >= NumColors
  /\ Goto(owner[f], Crashed)
  /\ UNCHANGED <<UID, ColorIndex, fileVars, colorVars>>

-----------------------------------------------------------------------------
Next ==
  \/ \E p \in Process :
       \/ PathGiven(p)
       \/ \E s \in Second : GetTimestamp(p, s) \/ GetDotFilename(p, s)
       \/ \E name \in Path : Open(p, name)
  \/ \E f \in File, vq \in VizQueue :
       \/ \E color \in ColorName : WriteNode(f, vq, color)
       \/ WriteNodeCrashes(f, vq)

Spec == Init /\ [][Next]_vars

-----------------------------------------------------------------------------
(***************************************************************************)
(* Safety.                                                                 *)
(***************************************************************************)

\* The files whose name the layer chose.
Chosen == {f \in Opened : MFileName[f] \in DotName}

\* No graph of a process overwrites an earlier graph of the same process,
\* though other processes come between any two steps and time goes back.
OwnFilesKept ==
  \A f, g \in Chosen : owner[f] = owner[g] /\ f # g => MFileName[f] # MFileName[g]

\* A name is in the pool at two places.
Repeated(color) ==
  \E j, k \in 0 .. (NumColors - 1) : j # k /\ Colors[j] = color /\ Colors[k] = color

\* In one file a queue has one colour; two queues have the same only if the
\* pool has it twice or the process went past the end of the pool, although
\* the index into it is shared by all files of the process.
OneColorEach ==
  \A f \in Opened : \A x, y \in painted[f] :
    /\ x[1] = y[1] => x[2] = y[2]
    /\ x[1] # y[1] /\ x[2] = y[2] => Repeated(x[2]) \/ ColorIndex[owner[f]] > NumColors

\* The queues of p that have a colour, counted once for each file.
Coloured(p) ==
  {fq \in File \X VizQueue :
     owner[fq[1]] = p /\ \E x \in painted[fq[1]] : x[1] = fq[2]}

\* The colours of a process run out only if it coloured more queues than there
\* are colours, a queue counted once for each file.
PoolLasts ==
  \A p \in Process : ColorIndex[p] > NumColors => Cardinality(Coloured(p)) > NumColors

-----------------------------------------------------------------------------
(***************************************************************************)
(* Why it is so: the inductive invariant.                                  *)
(***************************************************************************)

\* A suffix that was given is behind the counter of its process, and a name
\* with no suffix is on disk once a file was opened under it.
NamesInOrder ==
  /\ \A p \in Process : \A name \in DotName :
       step[p] = Named(name) => name.uid < UID[p] /\
         \A f \in Chosen : owner[f] = p => MFileName[f] # name
  /\ \A f \in Chosen : /\ MFileName[f].uid < UID[owner[f]]
                       /\ disk[MFileName[f]] # NoFile
  /\ \A f \in Opened : owner[f] \in Process

\* The map of a file is what was painted; each colour is the one the pool has
\* at the index its queue took, no two queues of a file took the same, and the
\* index counts the coloured queues.
ColorsInOrder ==
  /\ \A f \in File : painted[f] = MQueueColors[f]
  /\ \A f \in File \ Opened : painted[f] = {} /\ taken[f] = {}
  /\ \A f \in Opened :
       /\ \A x, y \in painted[f] : x[1] = y[1] => x[2] = y[2]
       /\ \A x \in painted[f] : \E k \in taken[f] :
            k[1] = x[1] /\ (k[2] < NumColors => x[2] = Colors[k[2]])
       /\ \A k \in taken[f] : k[2] < ColorIndex[owner[f]]
       /\ \A j, k \in taken[f] : j[2] = k[2] => j[1] = k[1]
  /\ \A p \in Process : IsFiniteSet(Coloured(p)) /\ Cardinality(Coloured(p)) = ColorIndex[p]

FilesIInv ==
  /\ TypeOK
  /\ NamesInOrder
  /\ OwnFilesKept
  /\ ColorsInOrder
=============================================================================
