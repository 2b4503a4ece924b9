----------------------------- MODULE Extensions -----------------------------
(***************************************************************************)
(* What the layer tells of extensions (the end of main.cpp): the lists     *)
(* clGetPlatformInfo and clGetDeviceInfo return, to which it adds its own, *)
(* and the functions clGetExtensionFunctionAddressForPlatform returns, for *)
(* which it saves those of the driver in the context.  A device and its    *)
(* platform announce the same.                                             *)
(*                                                                         *)
(* The saving takes no lock: the test for null and the assignment are two  *)
(* steps.  A context saves one pointer per function, for all platforms.    *)
(*                                                                         *)
(* Of the functions there is one of each kind: of Intel's USM, of command- *)
(* buffers with and without VIZ_EXT, of the layer's own, and one it does   *)
(* not know.                                                               *)
(*                                                                         *)
(* An operator named X_Slip is X with a slip of the pen, used by no action:*)
(* with it in the place of X some property must fail.                      *)
(***************************************************************************)
EXTENDS Integers, Sequences, SequencesExt

CONSTANTS
  Platform,
  Thread,
  Lists      \* the lists of extensions a driver may announce

VARIABLES
  MExt,      \* VIZ_EXT is set
  announced, \* per platform: the driver's extensions, in order
  MFnPtr,    \* per function: the platform whose function was saved
  call,      \* per thread: how far its query for an address is
  shims      \* history: the shims that were given for which platform

vars == <<MExt, announced, MFnPtr, call, shims>>

USM     == "cl_intel_unified_shared_memory"
CB      == "cl_khr_command_buffer"
CBMulti == "cl_khr_command_buffer_multi_device"
CBPrint == "cl_ext_command_buffer_dot_print"
Graph   == "cl_ext_dot_graph"

Function == {"clEnqueueMemcpyINTEL", "clGetCommandBufferInfoKHR",
             "clEnqueueCommandBufferKHR", "clReleaseCommandBufferKHR",
             "clCreateDotGraphEXT", "clEnqueueUnknown"}
InfoFn == "clGetCommandBufferInfoKHR"
NoPlatform == "null"

ASSUME PlatformAssumption == NoPlatform \notin Platform

Blank == " "                 \* what stands between the names of a string

\* A driver names what it has once, and not what is the layer's own.
ASSUME ListsAssumption ==
  \A list \in Lists : /\ list \in Seq(ToSet(list))
                      /\ IsInjective(list)
                      /\ ToSet(list) \cap {Blank, CBPrint, Graph} = {}

Idle == [at |-> "idle"]
Asking(at, p, fn) == [at |-> at, platform |-> p, function |-> fn]
Queries ==
  {Idle} \cup [at : {"testInfo", "saveInfo", "test", "save"},
               platform : Platform, function : Function]

TypeOK ==
  /\ MExt \in BOOLEAN
  /\ announced \in [Platform -> Lists]
  /\ MFnPtr \in [Function -> Platform \cup {NoPlatform}]
  /\ call \in [Thread -> Queries]
  /\ shims \subseteq [platform : Platform, function : Function]

Init ==
  /\ MExt \in BOOLEAN
  /\ announced \in [Platform -> Lists]
  /\ MFnPtr = [fn \in Function |-> NoPlatform]
  /\ call = [t \in Thread |-> Idle]
  /\ shims = {}

Announces(p, ext) == ext \in ToSet(announced[p])

-----------------------------------------------------------------------------
(***************************************************************************)
(* The lists of extensions.                                                *)
(***************************************************************************)

\* The driver's string: a blank between two names, and maybe one trailing.
DriverString(p, trailing) ==
  LET names  == Len(announced[p])
      string == [i \in 1 .. (IF names = 0 THEN 0 ELSE 2 * names - 1) |->
                   IF i % 2 = 1 THEN announced[p][(i + 1) \div 2] ELSE Blank]
  IN string \o (IF trailing THEN <<Blank>> ELSE << >>)

\* No blank is put before the name.
Appended_BlankSlip(string, ext) == {string \o <<ext>>}

\* The strings `string += (string.back() == ' ') ? "ext " : " ext"' may give:
\* back() of an empty string is undefined.
Appended(string, ext) ==
  LET after == string \o <<ext, Blank>>
      apart == string \o <<Blank, ext>>
  IN IF string = << >> THEN {after, apart}
     ELSE IF Last(string) = Blank THEN {after} ELSE {apart}

\* find and strncmp with the name of cl_khr_command_buffer match longer names.
HasCommandBuffers(p) == Announces(p, CB) \/ Announces(p, CBMulti)

\* CL_PLATFORM_EXTENSIONS, CL_DEVICE_EXTENSIONS.
ExtensionStrings(p, trailing) ==
  LET string    == DriverString(p, trailing)
      withPrint == IF HasCommandBuffers(p) THEN Appended(string, CBPrint) ELSE {string}
  IN IF MExt THEN UNION {Appended(before, Graph) : before \in withPrint} ELSE {string}

\* CL_PLATFORM_EXTENSIONS_WITH_VERSION, CL_DEVICE_EXTENSIONS_WITH_VERSION.
ExtensionList(p) ==
  announced[p] \o (IF MExt /\ HasCommandBuffers(p) THEN <<CBPrint>> ELSE << >>)
               \o (IF MExt THEN <<Graph>> ELSE << >>)

-----------------------------------------------------------------------------
(***************************************************************************)
(* The functions of extensions.                                            *)
(***************************************************************************)

\* The driver of p has the function.
Supports(p, fn) ==
  CASE fn = "clEnqueueMemcpyINTEL" -> Announces(p, USM)
    [] fn = "clCreateDotGraphEXT"  -> FALSE
    [] fn = "clEnqueueUnknown"     -> TRUE
    [] OTHER                       -> Announces(p, CB)

\* What the driver returns.
RetPtr(p, fn) == IF Supports(p, fn) THEN p ELSE NoPlatform

\* The functions the layer has a shim for.
Shimmed == {"clEnqueueMemcpyINTEL", "clEnqueueCommandBufferKHR"} \cup
           (IF MExt THEN {"clReleaseCommandBufferKHR"} ELSE {})

Goto(t, c) == call' = [call EXCEPT ![t] = c]

\* The query, up to the first access to a saved pointer.
GetExtensionFunctionAddress(t, p, fn) ==
  /\ call[t] = Idle
  /\ ~(MExt /\ fn = "clCreateDotGraphEXT")    \* the layer's own is returned
  /\ Goto(t, Asking(IF fn = "clEnqueueMemcpyINTEL" THEN "test" ELSE "testInfo", p, fn))
  /\ UNCHANGED <<MExt, announced, MFnPtr, shims>>

\* clGetCommandBufferInfoKHR, which two shims use, is asked for as well.
TestInfo(t, p, fn) ==
  /\ call[t] = Asking("testInfo", p, fn)
  /\ Goto(t, Asking(IF MFnPtr[InfoFn] = NoPlatform THEN "saveInfo" ELSE "test", p, fn))
  /\ UNCHANGED <<MExt, announced, MFnPtr, shims>>

SaveInfo(t, p, fn) ==
  /\ call[t] = Asking("saveInfo", p, fn)
  /\ MFnPtr' = [MFnPtr EXCEPT ![InfoFn] = RetPtr(p, InfoFn)]
  /\ Goto(t, Asking("test", p, fn))
  /\ UNCHANGED <<MExt, announced, shims>>

\* The test for null is forgotten: the last platform asked for is saved.
Unsaved_NullSlip(fn) == fn \in Shimmed

Unsaved(fn) == fn \in Shimmed /\ MFnPtr[fn] = NoPlatform

\* The shim is returned.
GiveShim(t, p, fn) ==
  /\ shims' = shims \cup {[platform |-> p, function |-> fn]}
  /\ Goto(t, Idle)

\* GET_SHIM; without a shim the driver's pointer is returned.
Test(t, p, fn) ==
  /\ call[t] = Asking("test", p, fn)
  /\ \/ Unsaved(fn) /\ Goto(t, Asking("save", p, fn)) /\ UNCHANGED shims
     \/ fn \in Shimmed /\ ~Unsaved(fn) /\ GiveShim(t, p, fn)
     \/ fn \notin Shimmed /\ Goto(t, Idle) /\ UNCHANGED shims
  /\ UNCHANGED <<MExt, announced, MFnPtr>>

Save(t, p, fn) ==
  /\ call[t] = Asking("save", p, fn)
  /\ MFnPtr' = [MFnPtr EXCEPT ![fn] = RetPtr(p, fn)]
  /\ GiveShim(t, p, fn)
  /\ UNCHANGED <<MExt, announced>>

Next ==
  \E t \in Thread, p \in Platform, fn \in Function :
    \/ GetExtensionFunctionAddress(t, p, fn)
    \/ TestInfo(t, p, fn) \/ SaveInfo(t, p, fn)
    \/ Test(t, p, fn) \/ Save(t, p, fn)

Spec == Init /\ [][Next]_vars

-----------------------------------------------------------------------------
(***************************************************************************)
(* Safety.                                                                 *)
(***************************************************************************)

\* A string in which names stand apart, none of them twice.
Readable(string) ==
  /\ \A i \in 1 .. (Len(string) - 1) : Blank \in {string[i], string[i + 1]}
  /\ \A i, j \in 1 .. Len(string) : string[i] = string[j] => i = j \/ string[i] = Blank

\* Both forms of the list name the same extensions: all of the driver's, and
\* the layer's own, each once and legibly, whatever the driver's string is like.
ListsAgree ==
  \A p \in Platform, trailing \in BOOLEAN : \A string \in ExtensionStrings(p, trailing) :
    /\ Readable(string)
    /\ ToSet(string) \ {Blank} = ToSet(ExtensionList(p))
    /\ IsInjective(ExtensionList(p))

\* The shims that were given for functions their platform has.
Given == {g \in shims : Supports(g.platform, g.function)}

\* The functions of drivers a shim calls.
Calls(fn) == {fn} \cup (IF fn = "clEnqueueMemcpyINTEL" THEN {} ELSE {InfoFn})

\* A driver that has the function was asked for it.
Saved(fn) == \E p \in Platform : MFnPtr[fn] = p /\ Supports(p, fn)

\* Every function a given shim calls was saved, from a driver that has it: in
\* whatever order platforms with and without it are asked.  It takes a single
\* thread: of two, one may save the null of its platform over the other's.
ShimsHaveDriver == \A g \in Given : \A fn \in Calls(g.function) : Saved(fn)

\* "Function pointers ... returned by the underlying driver ... so that we can
\* call them from our equivalent shim entry-points": a shim calls the driver
\* of the platform it was given for.
CallsUnderlyingDriver == \A g \in Given : MFnPtr[g.function] = g.platform

-----------------------------------------------------------------------------
(***************************************************************************)
(* Why it is so: the inductive invariant.                                  *)
(***************************************************************************)

\* Past the test for it, a query for a function of command-buffers finds the
\* query for information saved, if its platform has it.
InfoSaved ==
  \A t \in Thread : \A p \in Platform, fn \in Function \ {"clEnqueueMemcpyINTEL"} :
    call[t] \in {Asking("test", p, fn), Asking("save", p, fn)} /\ Supports(p, InfoFn)
      => Saved(InfoFn)

\* What is about to be saved has not been saved.
NoSaveLost ==
  \A t \in Thread : \A p \in Platform, fn \in Function :
    /\ call[t] = Asking("saveInfo", p, fn) => ~Saved(InfoFn)
    /\ call[t] = Asking("save", p, fn) => fn \in Shimmed /\ ~Saved(fn)

ExtIInv ==
  /\ TypeOK
  /\ \A fn \in Function : MFnPtr[fn] # NoPlatform => Saved(fn)
  /\ InfoSaved
  /\ NoSaveLost
  /\ \A g \in shims : g.function \in Shimmed
  /\ ShimsHaveDriver
=============================================================================
