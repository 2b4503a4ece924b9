-------------------------- MODULE ExtensionsProofs --------------------------
(***************************************************************************)
(* The functions saved for shims, with a single thread, and the two forms  *)
(* of a list of extensions, with any number of threads; both for every     *)
(* number of platforms and every list of extensions they may announce.     *)
(***************************************************************************)
EXTENDS Extensions, TLAPS

\* No query comes between another's test for null and its assignment.
Alone == \A t, u \in Thread : t = u

Places == {"testInfo", "saveInfo", "test", "save"}

\* Where the steps of a query are told apart.
LEMMA IdleIsQuery == Idle \in Queries
BY DEF Idle, Queries

LEMMA AskingIsQuery ==
  ASSUME NEW at \in Places, NEW p \in Platform, NEW fn \in Function
  PROVE  Asking(at, p, fn) \in Queries
BY DEF Asking, Places, Queries

LEMMA IdleDiffers == ASSUME NEW at, NEW p, NEW fn PROVE Idle # Asking(at, p, fn)
BY DEF Idle, Asking

LEMMA AskingDiffers ==
  ASSUME NEW at, NEW p, NEW fn, NEW other, NEW q, NEW f,
         Asking(at, p, fn) = Asking(other, q, f)
  PROVE  at = other /\ p = q /\ fn = f
<1>1. /\ Asking(at, p, fn).at = Asking(other, q, f).at
      /\ Asking(at, p, fn).platform = Asking(other, q, f).platform
      /\ Asking(at, p, fn).function = Asking(other, q, f).function
  OBVIOUS
<1> QED
  BY <1>1 DEF Asking

\* What a step made of a query tells where the query is.
LEMMA OneQuery ==
  ASSUME NEW at \in Places \cup {"idle"}, NEW p, NEW fn, NEW other, NEW q, NEW f,
         (IF at = "idle" THEN Idle ELSE Asking(at, p, fn)) = Asking(other, q, f)
  PROVE  at = other /\ p = q /\ fn = f
<1>1. CASE at = "idle"
  <2>1. Idle = Asking(other, q, f)
    BY <1>1
  <2> QED
    BY <2>1, IdleDiffers
<1>2. CASE at # "idle"
  <2>1. Asking(at, p, fn) = Asking(other, q, f)
    BY <1>2
  <2> QED
    BY <2>1, AskingDiffers
<1> QED
  BY <1>1, <1>2

\* Nothing changes what the drivers have and the layer has shims for.
LEMMA Fixed ==
  ASSUME UNCHANGED <<MExt, announced>>
  PROVE  /\ Shimmed' = Shimmed
         /\ \A p, fn : Supports(p, fn)' = Supports(p, fn)
         /\ \A fn : Saved(fn)' = \E p \in Platform : MFnPtr'[fn] = p /\ Supports(p, fn)
<1>1. Shimmed' = Shimmed /\ \A p, fn : Supports(p, fn)' = Supports(p, fn)
  BY DEF Shimmed, Supports, Announces
<1> QED
  BY <1>1 DEF Saved

\* Two sorts of functions have shims; those of command-buffers come with the
\* query for information.
LEMMA ShimFacts ==
  /\ Shimmed \subseteq Function /\ InfoFn \in Function /\ InfoFn \notin Shimmed
  /\ "clEnqueueMemcpyINTEL" \in Function
  /\ \A p, fn : fn \in Shimmed /\ fn # "clEnqueueMemcpyINTEL" /\ Supports(p, fn)
                 => Supports(p, InfoFn)
BY DEF Shimmed, Function, InfoFn, Supports

-----------------------------------------------------------------------------
(***************************************************************************)
(* The steps of a query.                                                   *)
(***************************************************************************)

\* A step that neither saves a function nor gives a shim: the query goes to
\* another place, or ends.
LEMMA LookKeeps ==
  ASSUME Alone, ExtIInv, NEW t \in Thread, NEW p \in Platform, NEW fn \in Function,
         NEW at \in Places \cup {"idle"},
         Goto(t, IF at = "idle" THEN Idle ELSE Asking(at, p, fn)),
         UNCHANGED <<MExt, announced, MFnPtr, shims>>,
         /\ at \in {"test", "save"} /\ fn # "clEnqueueMemcpyINTEL" /\ Supports(p, InfoFn)
         => Saved(InfoFn),
         at = "saveInfo" => ~Saved(InfoFn),
         at = "save" => fn \in Shimmed /\ ~Saved(fn)
  PROVE  ExtIInv'
<1> DEFINE c == IF at = "idle" THEN Idle ELSE Asking(at, p, fn)
<1>1. c \in Queries
  BY IdleIsQuery, AskingIsQuery
<1>9. ASSUME NEW other, NEW q, NEW f, c = Asking(other, q, f)
      PROVE  at = other /\ p = q /\ fn = f
  BY <1>9, OneQuery
<1> HIDE DEF c
<1>2. call' \in [Thread -> Queries] /\ \A u \in Thread : call'[u] = c
  BY <1>1 DEF Alone, ExtIInv, TypeOK, Goto, c
<1>3. Shimmed' = Shimmed /\ \A f : Saved(f)' = Saved(f)
  BY Fixed DEF Saved
<1>4. \A q, f : Supports(q, f)' = Supports(q, f)
  BY Fixed
<1>5. TypeOK'
  BY <1>2 DEF ExtIInv, TypeOK
<1>6. InfoSaved'
  <2> SUFFICES ASSUME NEW q \in Platform, NEW f \in Function \ {"clEnqueueMemcpyINTEL"},
                      NEW other \in {"test", "save"}, c = Asking(other, q, f),
                      Supports(q, InfoFn)
               PROVE  Saved(InfoFn)
    BY <1>2, <1>3, <1>4 DEF InfoSaved
  <2>1. at = other /\ p = q /\ fn = f
    BY <1>9
  <2> QED
    BY <2>1
<1>7. NoSaveLost'
  <2>1. ASSUME NEW q \in Platform, NEW f \in Function, NEW other \in {"saveInfo"},
               c = Asking(other, q, f)
        PROVE  ~Saved(InfoFn)
    <3>1. at = other
      BY <1>9, <2>1
    <3> QED
      BY <3>1
  <2>2. ASSUME NEW q \in Platform, NEW f \in Function, NEW other \in {"save"},
               c = Asking(other, q, f)
        PROVE  f \in Shimmed /\ ~Saved(f)
    <3>1. at = other /\ fn = f
      BY <1>9, <2>2
    <3> QED
      BY <3>1
  <2> QED
    BY <1>2, <1>3, <2>1, <2>2 DEF NoSaveLost
<1>8. ShimsHaveDriver'
  BY <1>3, <1>4 DEF ExtIInv, ShimsHaveDriver, Given
<1> QED
  BY <1>3, <1>5, <1>6, <1>7, <1>8 DEF ExtIInv

\* The query for information is saved, where it was not.
LEMMA SaveInfoKeeps ==
  ASSUME Alone, ExtIInv, NEW t \in Thread, NEW p \in Platform, NEW fn \in Function,
         SaveInfo(t, p, fn)
  PROVE  ExtIInv'
<1>1. /\ call[t] = Asking("saveInfo", p, fn) /\ Goto(t, Asking("test", p, fn))
      /\ MFnPtr' = [MFnPtr EXCEPT ![InfoFn] = RetPtr(p, InfoFn)]
      /\ UNCHANGED <<MExt, announced, shims>>
  BY DEF SaveInfo
<1>2. \A u \in Thread : call'[u] = Asking("test", p, fn)
  BY <1>1 DEF Alone, ExtIInv, TypeOK, Goto
<1>3. ~Saved(InfoFn)
  BY <1>1 DEF ExtIInv, NoSaveLost
<1>4. /\ Shimmed' = Shimmed /\ \A q, f : Supports(q, f)' = Supports(q, f)
      /\ \A f \in Function \ {InfoFn} : MFnPtr'[f] = MFnPtr[f] /\ Saved(f)' = Saved(f)
      /\ MFnPtr'[InfoFn] = RetPtr(p, InfoFn)
      /\ Saved(InfoFn)' <=> Supports(p, InfoFn)
  <2>1. /\ Shimmed' = Shimmed /\ \A q, f : Supports(q, f)' = Supports(q, f)
        /\ \A f : Saved(f)' = \E q \in Platform : MFnPtr'[f] = q /\ Supports(q, f)
    BY <1>1, Fixed
  <2>2. /\ \A f \in Function \ {InfoFn} : MFnPtr'[f] = MFnPtr[f]
        /\ MFnPtr'[InfoFn] = RetPtr(p, InfoFn)
    BY <1>1, ShimFacts DEF ExtIInv, TypeOK
  <2> QED
    BY <2>1, <2>2, PlatformAssumption DEF Saved, RetPtr
<1>5. TypeOK'
  <2>1. MFnPtr' \in [Function -> Platform \cup {NoPlatform}]
    BY <1>1, ShimFacts DEF ExtIInv, TypeOK, RetPtr
  <2>2. Asking("test", p, fn) \in Queries
    BY AskingIsQuery DEF Places
  <2>3. call' \in [Thread -> Queries]
    BY <1>1, <2>2 DEF ExtIInv, TypeOK, Goto
  <2> QED
    BY <1>1, <2>1, <2>3 DEF ExtIInv, TypeOK
<1>6. \A f \in Function : MFnPtr'[f] # NoPlatform => Saved(f)'
  BY <1>4 DEF ExtIInv, RetPtr
<1>7. InfoSaved'
  BY <1>2, <1>4, IdleDiffers, AskingDiffers DEF InfoSaved
<1>8. NoSaveLost'
  <2>1. ASSUME NEW other, NEW q, NEW f, Asking("test", p, fn) = Asking(other, q, f)
        PROVE  other = "test"
    BY <2>1, AskingDiffers
  <2> QED
    BY <1>2, <2>1 DEF NoSaveLost
<1>9. ShimsHaveDriver'
  <2> SUFFICES ASSUME NEW g \in shims, Supports(g.platform, g.function),
                      NEW f \in Calls(g.function)
               PROVE  Saved(f)'
    BY <1>1, <1>4 DEF ShimsHaveDriver, Given
  <2>1. g.function \in Function /\ f \in Function
    BY ShimFacts DEF ExtIInv, TypeOK, Calls
  <2>2. Saved(f)
    BY DEF ExtIInv, ShimsHaveDriver, Given
  <2> QED
    BY <1>3, <1>4, <2>1, <2>2
<1> QED
  BY <1>1, <1>4, <1>5, <1>6, <1>7, <1>8, <1>9 DEF ExtIInv

\* A shim is given, and its function is saved, where it was not.
LEMMA GiveKeeps ==
  ASSUME Alone, ExtIInv, NEW t \in Thread, NEW p \in Platform, NEW fn \in Shimmed,
         call[t] \in {Asking("test", p, fn), Asking("save", p, fn)},
         GiveShim(t, p, fn), UNCHANGED <<MExt, announced>>,
         \/ MFnPtr' = MFnPtr /\ MFnPtr[fn] # NoPlatform
         \/ MFnPtr' = [MFnPtr EXCEPT ![fn] = RetPtr(p, fn)] /\ ~Saved(fn)
  PROVE  ExtIInv'
<1>1. \A u \in Thread : call'[u] = Idle
  BY DEF Alone, ExtIInv, TypeOK, GiveShim, Goto
<1>2. shims' = shims \cup {[platform |-> p, function |-> fn]} /\ fn \in Function
  BY ShimFacts DEF GiveShim
<1>3. /\ Shimmed' = Shimmed /\ \A q, f : Supports(q, f)' = Supports(q, f)
      /\ \A f : Saved(f)' = \E q \in Platform : MFnPtr'[f] = q /\ Supports(q, f)
  BY Fixed
<1>4. /\ \A f \in Function : Saved(f) => Saved(f)'
      /\ Supports(p, fn) => Saved(fn)'
      /\ \A f \in Function : MFnPtr'[f] # NoPlatform => Saved(f)'
      /\ MFnPtr' \in [Function -> Platform \cup {NoPlatform}]
  <2>1. CASE MFnPtr' = MFnPtr /\ MFnPtr[fn] # NoPlatform
    BY <1>2, <1>3, <2>1 DEF ExtIInv, TypeOK, Saved
  <2>2. CASE MFnPtr' = [MFnPtr EXCEPT ![fn] = RetPtr(p, fn)] /\ ~Saved(fn)
    <3>1. /\ MFnPtr'[fn] = RetPtr(p, fn) /\ \A f \in Function \ {fn} : MFnPtr'[f] = MFnPtr[f]
          /\ MFnPtr' \in [Function -> Platform \cup {NoPlatform}]
      BY <1>2, <2>2 DEF ExtIInv, TypeOK, RetPtr
    <3> QED
      BY <1>2, <1>3, <2>2, <3>1 DEF ExtIInv, Saved, RetPtr
  <2> QED
    BY <2>1, <2>2
<1>5. TypeOK'
  <2>1. call' \in [Thread -> Queries]
    BY IdleIsQuery DEF ExtIInv, TypeOK, GiveShim, Goto
  <2>2. shims' \subseteq [platform : Platform, function : Function]
    BY <1>2 DEF ExtIInv, TypeOK
  <2> QED
    BY <1>4, <2>1, <2>2 DEF ExtIInv, TypeOK
<1>6. InfoSaved' /\ NoSaveLost'
  BY <1>1, IdleDiffers, AskingDiffers DEF InfoSaved, NoSaveLost
<1>7. \A g \in shims' : g.function \in Shimmed'
  BY <1>2, <1>3 DEF ExtIInv
<1>8. ShimsHaveDriver'
  <2> SUFFICES ASSUME NEW g \in shims', Supports(g.platform, g.function),
                      NEW f \in Calls(g.function)
               PROVE  Saved(f)'
    BY <1>3 DEF ShimsHaveDriver, Given
  <2>1. CASE g \in shims
    <3>1. g.function \in Function
      BY <2>1 DEF ExtIInv, TypeOK
    <3>3. f \in Function
      BY <3>1, ShimFacts DEF Calls
    <3>2. Saved(f)
      BY <2>1 DEF ExtIInv, ShimsHaveDriver, Given
    <3> QED
      BY <1>4, <3>2, <3>3
  <2>2. CASE g = [platform |-> p, function |-> fn]
    <3>1. CASE f = fn
      BY <1>4, <2>2, <3>1
    <3>2. CASE f # fn
      <4>1. f = InfoFn /\ fn # "clEnqueueMemcpyINTEL"
        BY <2>2, <3>2 DEF Calls
      <4>2. Supports(p, InfoFn)
        BY <2>2, <4>1, ShimFacts
      <4>3. Saved(InfoFn)
        BY <1>2, <4>1, <4>2 DEF ExtIInv, InfoSaved
      <4> QED
        BY <1>4, <4>1, <4>3, ShimFacts
    <3> QED
      BY <3>1, <3>2
  <2> QED
    BY <1>2, <2>1, <2>2
<1> QED
  BY <1>4, <1>5, <1>6, <1>7, <1>8 DEF ExtIInv

-----------------------------------------------------------------------------
(***************************************************************************)
(* The theorems.                                                           *)
(***************************************************************************)

\* What is saved and what was given fit together.
THEOREM Invariance == ASSUME Alone PROVE Spec => []ExtIInv
<1>1. Init => ExtIInv
  <2> SUFFICES ASSUME Init PROVE ExtIInv
    OBVIOUS
  <2>1. TypeOK
    BY IdleIsQuery DEF Init, TypeOK
  <2>2. InfoSaved /\ NoSaveLost
    BY IdleDiffers, AskingDiffers DEF Init, InfoSaved, NoSaveLost
  <2>3. ShimsHaveDriver
    BY DEF Init, ShimsHaveDriver, Given
  <2> QED
    BY <2>1, <2>2, <2>3 DEF Init, ExtIInv
<1>2. ExtIInv /\ [Next]_vars => ExtIInv'
  <2> SUFFICES ASSUME ExtIInv, [Next]_vars PROVE ExtIInv'
    OBVIOUS
  <2>1. ASSUME NEW t \in Thread, NEW p \in Platform, NEW fn \in Function,
               GetExtensionFunctionAddress(t, p, fn)
        PROVE  ExtIInv'
    <3> DEFINE at == IF fn = "clEnqueueMemcpyINTEL" THEN "test" ELSE "testInfo"
    <3>1. Goto(t, Asking(at, p, fn)) /\ UNCHANGED <<MExt, announced, MFnPtr, shims>>
      BY <2>1 DEF GetExtensionFunctionAddress
    <3>2. /\ at \in Places /\ at # "saveInfo" /\ at # "save" /\ at # "idle"
          /\ fn # "clEnqueueMemcpyINTEL" => at # "test"
      BY DEF Places
    <3> HIDE DEF at
    <3> QED
      BY <3>1, <3>2, LookKeeps
  <2>2. ASSUME NEW t \in Thread, NEW p \in Platform, NEW fn \in Function, TestInfo(t, p, fn)
        PROVE  ExtIInv'
    <3> DEFINE at == IF MFnPtr[InfoFn] = NoPlatform THEN "saveInfo" ELSE "test"
    <3>1. Goto(t, Asking(at, p, fn)) /\ UNCHANGED <<MExt, announced, MFnPtr, shims>>
      BY <2>2 DEF TestInfo
    <3>2. /\ at \in Places /\ at # "save" /\ at # "idle"
          /\ at = "saveInfo" => ~Saved(InfoFn)
          /\ at = "test" => Saved(InfoFn)
      BY PlatformAssumption, ShimFacts DEF Places, ExtIInv, Saved
    <3> HIDE DEF at
    <3> QED
      BY <3>1, <3>2, LookKeeps
  <2>3. ASSUME NEW t \in Thread, NEW p \in Platform, NEW fn \in Function, SaveInfo(t, p, fn)
        PROVE  ExtIInv'
    BY <2>3, SaveInfoKeeps
  <2>4. ASSUME NEW t \in Thread, NEW p \in Platform, NEW fn \in Function, Test(t, p, fn)
        PROVE  ExtIInv'
    <3>1. call[t] = Asking("test", p, fn) /\ UNCHANGED <<MExt, announced, MFnPtr>>
      BY <2>4 DEF Test
    <3>2. CASE Unsaved(fn) /\ Goto(t, Asking("save", p, fn)) /\ UNCHANGED shims
      <4>1. fn \in Shimmed /\ ~Saved(fn)
        BY <3>2, PlatformAssumption DEF Unsaved, Saved
      <4>2. fn # "clEnqueueMemcpyINTEL" /\ Supports(p, InfoFn) => Saved(InfoFn)
        BY <3>1 DEF ExtIInv, InfoSaved
      <4> DEFINE at == "save"
      <4>3. at \in Places /\ at = "save" /\ at # "idle"
        BY DEF Places
      <4>4. Goto(t, Asking(at, p, fn)) /\ UNCHANGED <<MExt, announced, MFnPtr, shims>>
        BY <3>1, <3>2
      <4> HIDE DEF at
      <4> QED
        BY <4>1, <4>2, <4>3, <4>4, LookKeeps
    <3>3. CASE fn \in Shimmed /\ ~Unsaved(fn) /\ GiveShim(t, p, fn)
      BY <3>1, <3>3, GiveKeeps DEF Unsaved
    <3>4. CASE fn \notin Shimmed /\ Goto(t, Idle) /\ UNCHANGED shims
      <4> DEFINE at == "idle"
      <4>1. at \in Places \cup {"idle"} /\ at \notin {"test", "save", "saveInfo"}
        OBVIOUS
      <4>2. Goto(t, IF at = "idle" THEN Idle ELSE Asking(at, p, fn))
            /\ UNCHANGED <<MExt, announced, MFnPtr, shims>>
        BY <3>1, <3>4
      <4> HIDE DEF at
      <4> QED
        BY <4>1, <4>2, LookKeeps
    <3> QED
      BY <2>4, <3>2, <3>3, <3>4 DEF Test
  <2>5. ASSUME NEW t \in Thread, NEW p \in Platform, NEW fn \in Function, Save(t, p, fn)
        PROVE  ExtIInv'
    <3>1. fn \in Shimmed /\ ~Saved(fn)
      BY <2>5 DEF Save, ExtIInv, NoSaveLost
    <3> QED
      BY <2>5, <3>1, GiveKeeps DEF Save
  <2>6. CASE UNCHANGED vars
    <3>1. UNCHANGED <<MExt, announced, MFnPtr, call, shims>>
      BY <2>6 DEF vars
    <3>2. /\ Shimmed' = Shimmed /\ \A p, fn : Supports(p, fn)' = Supports(p, fn)
          /\ \A fn : Saved(fn)' = Saved(fn)
      BY <3>1, Fixed DEF Saved
    <3> QED
      BY <3>1, <3>2 DEF ExtIInv, TypeOK, InfoSaved, NoSaveLost, ShimsHaveDriver, Given
  <2> QED
    BY <2>1, <2>2, <2>3, <2>4, <2>5, <2>6 DEF Next
<1> QED
  BY <1>1, <1>2, PTL DEF Spec

\* A single thread that asks for shims, of any platforms in any order, can
\* call them where the platform has the function: GET_SHIM saved a driver's.
THEOREM ShimsCanCall == ASSUME Alone PROVE Spec => []ShimsHaveDriver
<1>1. ExtIInv => ShimsHaveDriver
  BY DEF ExtIInv
<1> QED
  BY <1>1, Invariance, PTL

-----------------------------------------------------------------------------
(***************************************************************************)
(* The lists, for any number of threads and every list a driver may have.  *)
(***************************************************************************)

\* A string of elements of V that reads as the names in the set.
Reads(string, V, names) ==
  string \in Seq(V) /\ Readable(string) /\ ToSet(string) \ {Blank} = names

\* The result is the string of n elements, then a and b.
EndsIn(result, string, n, a, b) ==
  /\ Len(result) = n + 2
  /\ \A i \in 1 .. n : result[i] = string[i]
  /\ result[n + 1] = a /\ result[n + 2] = b
  /\ ToSet(result) = ToSet(string) \cup {a, b}

\* Two elements are appended to a string.
LEMMA TwoMore ==
  ASSUME NEW V, NEW string \in Seq(V), NEW a \in V, NEW b \in V,
         NEW n \in Nat, Len(string) = n
  PROVE  string \o <<a, b>> \in Seq(V) /\ EndsIn(string \o <<a, b>>, string, n, a, b)
<1> DEFINE result == string \o <<a, b>>
<1>1. result \in Seq(V) /\ Len(result) = n + 2
  OBVIOUS
<1>2. \A i \in 1 .. n : result[i] = string[i]
  OBVIOUS
<1>3. result[n + 1] = a /\ result[n + 2] = b
  OBVIOUS
<1>4. DOMAIN string = 1 .. n /\ DOMAIN result = 1 .. (n + 2)
  BY <1>1
<1>5. ToSet(result) = ToSet(string) \cup {a, b}
  <2>1. \A x \in ToSet(result) : x \in ToSet(string) \cup {a, b}
    BY <1>2, <1>3, <1>4 DEF ToSet
  <2>2. \A x \in ToSet(string) : x \in ToSet(result)
    BY <1>2, <1>4 DEF ToSet
  <2>3. a \in ToSet(result) /\ b \in ToSet(result)
    <3>1. n + 1 \in 1 .. (n + 2) /\ n + 2 \in 1 .. (n + 2)
      OBVIOUS
    <3> QED
      BY <1>3, <1>4, <3>1 DEF ToSet
  <2> QED
    BY <2>1, <2>2, <2>3
<1> QED
  BY <1>1, <1>2, <1>3, <1>5 DEF EndsIn

\* A new name that is appended stands apart from the others, whatever the
\* string ends in, and even if it is empty.
LEMMA AppendedReads ==
  ASSUME NEW V, Blank \in V, NEW string \in Seq(V), Readable(string), NEW ext \in V,
         ext # Blank, ext \notin ToSet(string), NEW result \in Appended(string, ext)
  PROVE  Reads(result, V, (ToSet(string) \ {Blank}) \cup {ext})
<1>1. Blank \in V /\ ext # Blank
  OBVIOUS
<1>2. PICK n \in Nat : n = Len(string)
  OBVIOUS
<1>3. PICK a \in {ext, Blank}, b \in {ext, Blank} :
        /\ result = string \o <<a, b>> /\ {a, b} = {ext, Blank}
        /\ n # 0 => Blank \in {string[n], a}
  <2>1. n = 0 <=> string = << >>
    BY <1>2
  <2>2. Last(string) = string[n]
    BY <1>2 DEF Last
  <2> QED
    BY <2>1, <2>2 DEF Appended
<1>4. /\ result \in Seq(V) /\ Len(result) = n + 2
      /\ \A i \in 1 .. n : result[i] = string[i]
      /\ result[n + 1] = a /\ result[n + 2] = b
      /\ ToSet(result) = ToSet(string) \cup {a, b}
  <2>1. a \in V /\ b \in V /\ result = string \o <<a, b>>
    BY <1>1, <1>3
  <2>2. result \in Seq(V) /\ EndsIn(result, string, n, a, b)
    BY <1>2, <2>1, TwoMore
  <2> QED
    BY <2>2 DEF EndsIn
<1>5. \A i \in 1 .. n : string[i] # ext
  BY <1>2 DEF ToSet
<1>6. ASSUME NEW i \in 1 .. (n + 1)
      PROVE  Blank \in {result[i], result[i + 1]}
  <2>1. CASE i < n
    <3>1. Blank \in {string[i], string[i + 1]}
      BY <1>2, <2>1 DEF Readable
    <3> QED
      BY <1>4, <2>1, <3>1
  <2>2. CASE i = n
    BY <1>3, <1>4, <2>2
  <2>3. CASE i = n + 1
    <3>1. result[i] = a /\ result[i + 1] = b
      BY <1>4, <2>3
    <3> QED
      BY <1>3, <3>1
  <2> QED
    BY <2>1, <2>2, <2>3
<1>7. ASSUME NEW i \in 1 .. (n + 2), NEW j \in 1 .. (n + 2),
             result[i] = result[j], result[i] # Blank
      PROVE  i = j
  <2>1. \A m \in 1 .. (n + 2) : m \in 1 .. n \/ m = n + 1 \/ m = n + 2
    OBVIOUS
  \* Of the two elements that are new, one is blank and one the new name.
  <2>2. ASSUME NEW m \in 1 .. (n + 2), result[m] # Blank
        PROVE  IF m \in 1 .. n THEN result[m] = string[m] ELSE result[m] = ext
    BY <1>3, <1>4, <2>1, <2>2
  <2>3. a # b
    BY <1>1, <1>3
  <2>4. CASE i \in 1 .. n /\ j \in 1 .. n
    <3>1. string[i] = string[j] /\ string[i] # Blank
      BY <1>4, <1>7, <2>4
    <3> QED
      BY <1>2, <2>4, <3>1 DEF Readable
  <2>5. CASE i \in 1 .. n <=> j \notin 1 .. n
    BY <1>5, <1>7, <2>2, <2>5
  <2>6. CASE i \notin 1 .. n /\ j \notin 1 .. n
    BY <1>4, <1>7, <2>1, <2>3, <2>6
  <2> QED
    BY <2>4, <2>5, <2>6
<1>8. Readable(result)
  BY <1>4, <1>6, <1>7 DEF Readable
<1>9. ToSet(result) \ {Blank} = (ToSet(string) \ {Blank}) \cup {ext}
  BY <1>3, <1>4
<1> QED
  BY <1>4, <1>8, <1>9 DEF Reads

\* The driver's string is readable, with the blank at its end and without.
LEMMA DriverStringReads ==
  ASSUME NEW p \in Platform, announced[p] \in Lists, NEW trailing \in BOOLEAN,
         NEW V, ToSet(announced[p]) \cup {Blank} \subseteq V
  PROVE  Reads(DriverString(p, trailing), V, ToSet(announced[p]))
<1> DEFINE list == announced[p]
<1>1. /\ list \in Seq(ToSet(list)) /\ Blank \notin ToSet(list)
      /\ \A i, j \in DOMAIN list : list[i] = list[j] => i = j
  BY ListsAssumption DEF IsInjective
<1>2. PICK k \in Nat : k = Len(list)
  BY <1>1
<1>3. DOMAIN list = 1 .. k
  BY <1>1, <1>2
<1> DEFINE n == IF k = 0 THEN 0 ELSE 2 * k - 1
           string == [i \in 1 .. n |-> IF i % 2 = 1 THEN list[(i + 1) \div 2] ELSE Blank]
           result == DriverString(p, trailing)
<1>4. result = string \o (IF trailing THEN <<Blank>> ELSE << >>)
  BY <1>2 DEF DriverString
<1>5. n \in Nat /\ Blank \in V
  OBVIOUS
\* A name is at an odd place, and its own.
<1>6. \A i \in 1 .. n : i % 2 = 1 => (i + 1) \div 2 \in 1 .. k
  OBVIOUS
<1>7. \A i, j \in 1 .. n :
        i % 2 = 1 /\ j % 2 = 1 /\ (i + 1) \div 2 = (j + 1) \div 2 => i = j
  OBVIOUS
<1>8. \A m \in 1 .. k : \E i \in 1 .. n : i % 2 = 1 /\ (i + 1) \div 2 = m
  <2>1. TAKE m \in 1 .. k
  <2>2. 2 * m - 1 \in 1 .. n /\ (2 * m - 1) % 2 = 1 /\ ((2 * m - 1) + 1) \div 2 = m
    OBVIOUS
  <2> QED
    BY <2>2
<1>9. \A i \in 1 .. n : i % 2 = 1 \/ (i + 1) % 2 = 1
  OBVIOUS
<1> HIDE DEF n
<1>10. \A m \in 1 .. k : list[m] # Blank /\ list[m] \in V
  BY <1>1, <1>3 DEF ToSet
<1>11. \A i \in 1 .. n : string[i] # Blank => i % 2 = 1 /\ string[i] = list[(i + 1) \div 2]
  OBVIOUS
<1>12. string \in Seq(V) /\ Len(string) = n /\ DOMAIN string = 1 .. n
  <2>1. \A i \in 1 .. n : string[i] \in V
    BY <1>5, <1>6, <1>10
  <2> QED
    BY <1>5, <2>1
<1>13. \A i \in 1 .. n : i + 1 <= n => Blank \in {string[i], string[i + 1]}
  <2>1. \A i \in 1 .. n : i % 2 = 1 => (i + 1) % 2 # 1
    BY <1>5
  <2>2. TAKE i \in 1 .. n
  <2>3. HAVE i + 1 <= n
  <2>4. i + 1 \in 1 .. n
    BY <1>5, <2>3
  <2> QED
    BY <2>1, <2>4
<1>14. \A i, j \in 1 .. n : string[i] = string[j] => i = j \/ string[i] = Blank
  BY <1>1, <1>3, <1>6, <1>7, <1>11
<1>15. ToSet(string) \ {Blank} = ToSet(list)
  <2>1. ASSUME NEW x \in ToSet(string), x # Blank PROVE x \in ToSet(list)
    BY <1>3, <1>6, <1>11, <1>12, <2>1 DEF ToSet
  <2>2. ASSUME NEW x \in ToSet(list) PROVE x \in ToSet(string) /\ x # Blank
    <3>1. PICK m \in 1 .. k : x = list[m]
      BY <1>3, <2>2 DEF ToSet
    <3>2. PICK i \in 1 .. n : i % 2 = 1 /\ (i + 1) \div 2 = m
      BY <1>8
    <3>3. string[i] = x
      BY <3>1, <3>2
    <3> QED
      BY <1>10, <1>12, <3>1, <3>3 DEF ToSet
  <2> QED
    BY <2>1, <2>2
<1> HIDE DEF string, result
<1>16. CASE ~ trailing
  <2>1. result = string
    BY <1>4, <1>12, <1>16
  <2>2. Readable(string)
    BY <1>5, <1>12, <1>13, <1>14 DEF Readable
  <2> QED
    BY <1>12, <1>15, <2>1, <2>2 DEF Reads, result
<1>17. CASE trailing
  <2>1. /\ result \in Seq(V) /\ Len(result) = n + 1
        /\ \A i \in 1 .. n : result[i] = string[i]
        /\ result[n + 1] = Blank /\ DOMAIN result = 1 .. (n + 1)
    BY <1>4, <1>5, <1>12, <1>17
  <2>2. Readable(result)
    <3>1. ASSUME NEW i \in 1 .. n PROVE Blank \in {result[i], result[i + 1]}
      <4>1. CASE i = n
        BY <2>1, <4>1
      <4>2. CASE i # n
        BY <1>5, <1>13, <2>1, <4>2
      <4> QED
        BY <4>1, <4>2
    <3>2. ASSUME NEW i \in 1 .. (n + 1), NEW j \in 1 .. (n + 1), result[i] = result[j]
          PROVE  i = j \/ result[i] = Blank
      <4>1. CASE i = n + 1 \/ j = n + 1
        BY <2>1, <3>2, <4>1
      <4>2. CASE i # n + 1 /\ j # n + 1
        <5>1. i \in 1 .. n /\ j \in 1 .. n
          BY <1>5, <4>2
        <5> QED
          BY <1>14, <2>1, <3>2, <5>1
      <4> QED
        BY <4>1, <4>2
    <3> QED
      BY <1>5, <2>1, <3>1, <3>2 DEF Readable
  <2>3. ToSet(result) \ {Blank} = ToSet(list)
    <3>1. \A x \in ToSet(result) : x = Blank \/ x \in ToSet(string)
      BY <1>5, <1>12, <2>1 DEF ToSet
    <3>2. \A x \in ToSet(string) : x \in ToSet(result)
      BY <1>5, <1>12, <2>1 DEF ToSet
    <3> QED
      BY <1>15, <3>1, <3>2
  <2> QED
    BY <2>1, <2>2, <2>3 DEF Reads, result
<1> QED
  BY <1>16, <1>17

\* What is announced does not change.
LEMMA AnnouncedStays == Spec => [](announced \in [Platform -> Lists] /\ MExt \in BOOLEAN)
<1>1. Init => announced \in [Platform -> Lists] /\ MExt \in BOOLEAN
  BY DEF Init
<1>2. announced \in [Platform -> Lists] /\ MExt \in BOOLEAN /\ [Next]_vars
        => (announced \in [Platform -> Lists] /\ MExt \in BOOLEAN)'
  BY DEF Next, GetExtensionFunctionAddress, TestInfo, SaveInfo, Test, Save, vars
<1> QED
  BY <1>1, <1>2, PTL DEF Spec

\* The list with versions names each extension once: the driver's, those of
\* the layer, and nothing else.
LEMMA ListNames ==
  ASSUME NEW p \in Platform, announced[p] \in Lists
  PROVE  /\ IsInjective(ExtensionList(p))
         /\ ToSet(ExtensionList(p)) =
              ToSet(announced[p]) \cup {e \in {CBPrint} : MExt /\ HasCommandBuffers(p)}
                                  \cup {e \in {Graph} : MExt}
<1> DEFINE list == announced[p]
<1>1. /\ list \in Seq(ToSet(list)) /\ CBPrint \notin ToSet(list) /\ Graph \notin ToSet(list)
      /\ \A i, j \in DOMAIN list : list[i] = list[j] => i = j
  BY ListsAssumption DEF IsInjective
<1>2. PICK k \in Nat : k = Len(list)
  BY <1>1
<1>3. DOMAIN list = 1 .. k /\ \A i \in 1 .. k : list[i] # CBPrint /\ list[i] # Graph
  BY <1>1, <1>2 DEF ToSet
<1>4. CBPrint # Graph
  BY DEF CBPrint, Graph
<1> HIDE DEF list
<1>5. CASE ~ MExt
  <2>1. ExtensionList(p) = list
    BY <1>1, <1>5 DEF ExtensionList, list
  <2> QED
    BY <1>1, <1>5, <2>1 DEF IsInjective, list
<1>6. CASE MExt /\ ~ HasCommandBuffers(p)
  <2> DEFINE result == ExtensionList(p)
  <2>1. result = (list \o << >>) \o <<Graph>>
    BY <1>6 DEF ExtensionList, list
  <2>2. /\ DOMAIN result = 1 .. (k + 1) /\ result[k + 1] = Graph
        /\ \A i \in 1 .. k : result[i] = list[i]
    BY <1>1, <1>2, <1>4, <2>1
  <2> HIDE DEF result
  <2>3. IsInjective(result)
    BY <1>1, <1>3, <2>2 DEF IsInjective
  <2>4. ToSet(result) = ToSet(list) \cup {Graph}
    <3>1. \A x \in ToSet(result) : x \in ToSet(list) \cup {Graph}
      BY <1>3, <2>2 DEF ToSet
    <3>2. \A x \in ToSet(list) : x \in ToSet(result)
      BY <1>3, <2>2 DEF ToSet
    <3>3. Graph \in ToSet(result)
      BY <2>2 DEF ToSet
    <3> QED
      BY <3>1, <3>2, <3>3
  <2> QED
    BY <1>6, <2>3, <2>4 DEF result, list
<1>7. CASE MExt /\ HasCommandBuffers(p)
  <2> DEFINE result == ExtensionList(p)
  <2>1. result = (list \o <<CBPrint>>) \o <<Graph>>
    BY <1>7 DEF ExtensionList, list
  <2>2. /\ DOMAIN result = 1 .. (k + 2) /\ result[k + 1] = CBPrint /\ result[k + 2] = Graph
        /\ \A i \in 1 .. k : result[i] = list[i]
    BY <1>1, <1>2, <1>4, <2>1
  <2> HIDE DEF result
  <2>3. IsInjective(result)
    BY <1>1, <1>3, <1>4, <2>2 DEF IsInjective
  <2>4. ToSet(result) = ToSet(list) \cup {CBPrint, Graph}
    <3>1. \A x \in ToSet(result) : x \in ToSet(list) \cup {CBPrint, Graph}
      BY <1>3, <2>2 DEF ToSet
    <3>2. \A x \in ToSet(list) : x \in ToSet(result)
      BY <1>3, <2>2 DEF ToSet
    <3>3. CBPrint \in ToSet(result) /\ Graph \in ToSet(result)
      BY <2>2 DEF ToSet
    <3> QED
      BY <3>1, <3>2, <3>3
  <2> QED
    BY <1>7, <2>3, <2>4 DEF result, list
<1> QED
  BY <1>5, <1>6, <1>7

\* Both forms of the list name the same extensions, each once and legibly.
THEOREM ListsAreTheSame == Spec => []ListsAgree
<1> DEFINE V(p) == ToSet(announced[p]) \cup {Blank, CBPrint, Graph}
<1>1. announced \in [Platform -> Lists] /\ MExt \in BOOLEAN => ListsAgree
  <2> SUFFICES ASSUME announced \in [Platform -> Lists], MExt \in BOOLEAN,
                      NEW p \in Platform, NEW trailing \in BOOLEAN,
                      NEW string \in ExtensionStrings(p, trailing)
               PROVE  Reads(string, V(p), ToSet(ExtensionList(p))) /\ IsInjective(ExtensionList(p))
    BY DEF ListsAgree, Reads
  <2> DEFINE names == ToSet(announced[p])
             before == DriverString(p, trailing)
             withPrint == IF HasCommandBuffers(p) THEN Appended(before, CBPrint) ELSE {before}
             printed == names \cup {e \in {CBPrint} : HasCommandBuffers(p)}
  <2>1. announced[p] \in Lists
    OBVIOUS
  <2>2. /\ CBPrint \notin names /\ Graph \notin names /\ CBPrint # Graph
        /\ CBPrint # Blank /\ Graph # Blank
    BY <2>1, ListsAssumption DEF CBPrint, Graph, Blank
  <2>3. Reads(before, V(p), names)
    BY <2>1, DriverStringReads
  <2>4. IsInjective(ExtensionList(p))
    BY <2>1, ListNames
  <2>5. ToSet(ExtensionList(p)) = IF MExt THEN printed \cup {Graph} ELSE names
    BY <2>1, ListNames
  <2>6. string \in IF MExt THEN UNION {Appended(x, Graph) : x \in withPrint} ELSE {before}
    BY DEF ExtensionStrings
  <2> HIDE DEF before, names
  <2>7. ASSUME NEW x \in withPrint PROVE Reads(x, V(p), printed)
    <3>1. CASE HasCommandBuffers(p)
      <4>1. x \in Appended(before, CBPrint) /\ printed = names \cup {CBPrint}
        BY <2>7, <3>1
      <4>2. /\ before \in Seq(V(p)) /\ Readable(before) /\ CBPrint \notin ToSet(before)
            /\ ToSet(before) \ {Blank} = names
        BY <2>2, <2>3 DEF Reads
      <4> QED
        BY <2>2, <4>1, <4>2, AppendedReads
    <3>2. CASE ~ HasCommandBuffers(p)
      BY <2>3, <2>7, <3>2
    <3> QED
      BY <3>1, <3>2
  <2>8. CASE MExt
    <3>1. PICK x \in withPrint : string \in Appended(x, Graph)
      BY <2>6, <2>8
    <3>2. /\ x \in Seq(V(p)) /\ Readable(x) /\ ToSet(x) \ {Blank} = printed
          /\ Graph \notin ToSet(x)
      BY <2>2, <2>7 DEF Reads
    <3> HIDE DEF printed, withPrint
    <3>3. Reads(string, V(p), printed \cup {Graph})
      BY <2>2, <3>1, <3>2, AppendedReads
    <3> QED
      BY <2>4, <2>5, <2>8, <3>3
  <2>9. CASE ~ MExt
    BY <2>3, <2>4, <2>5, <2>6, <2>9
  <2> QED
    BY <2>8, <2>9
<1> QED
  BY <1>1, AnnouncedStays, PTL
=============================================================================
