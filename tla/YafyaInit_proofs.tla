--------------------------- MODULE YafyaInit_proofs ---------------------------
(***************************************************************************)
(* Proofs about finding the linker's functions and about visiblyInit: for  *)
(* any number of threads, any order of the libraries and any memory of the *)
(* runtime.                                                                *)
(***************************************************************************)
EXTENDS YafyaInit, WellFoundedInduction, TLAPS

-----------------------------------------------------------------------------
\* What the search relies on in the process.
DeviceOK ==
  /\ Null \notin DOMAIN device.memory
  /\ device.runtime \in DOMAIN device.memory \cup {Null}
  /\ \A a \in DOMAIN device.memory : DOMAIN device.memory[a] \subseteq Nat
  /\ device.libs \in Seq([name : {"linker", "nativeloader", "other"},
                          exports : SUBSET LoaderNames])

-----------------------------------------------------------------------------
\* The libraries.

\* The linker's functions in the libraries that have been reported.
Reported ==
  \A i \in DOMAIN device.libs : i < k =>
    /\ device.libs[i].name = "linker" => device.libs[i].exports \subseteq loader
    /\ device.libs[i].name = "nativeloader" => "libnativeloader" \in loader

LibsInv ==
  /\ DeviceOK
  /\ k \in Nat \ {0} /\ loader \subseteq LoaderNames
  /\ phase \in {"start", "libs"} => Reported
  /\ AllFound

LEMMA InitDevice == Init => DeviceOK
BY YafyaInitAssumption DEF Init, DeviceOK, P, PointerSize

LEMMA ElementOfSeq ==
  ASSUME NEW S, NEW s \in Seq(S), NEW i \in DOMAIN s
  PROVE  s[i] \in S
OBVIOUS

LEMMA Libs ==
  ASSUME DeviceOK, NEW i \in DOMAIN device.libs
  PROVE  /\ i \in 1 .. Len(device.libs)
         /\ device.libs[i].name \in {"linker", "nativeloader", "other"}
         /\ device.libs[i].exports \subseteq LoaderNames
<1>1. device.libs[i] \in [name : {"linker", "nativeloader", "other"},
                          exports : SUBSET LoaderNames]
  BY ElementOfSeq DEF DeviceOK
<1>2. QED
  BY <1>1 DEF DeviceOK

LEMMA CallbackInv ==
  ASSUME LibsInv, Callback
  PROVE  LibsInv'
<1> USE DEF Callback, input
<1> DEFINE lib == device.libs[k]
<1>1. k \in DOMAIN device.libs /\ device' = device /\ DeviceOK
      /\ phase = "libs" /\ k' = k + 1 /\ k' \in Nat \ {0}
  BY DEF LibsInv, DeviceOK
<1>2. lib.name \in {"linker", "nativeloader", "other"}
      /\ lib.exports \subseteq LoaderNames
  BY <1>1, Libs
<1>3. /\ loader \subseteq loader' /\ loader' \subseteq LoaderNames
      /\ lib.name = "linker" => lib.exports \subseteq loader'
      /\ lib.name = "nativeloader" => "libnativeloader" \in loader'
  BY <1>2 DEF LibsInv, LoaderNames
<1>4. Reported'
  <2> SUFFICES ASSUME NEW i \in DOMAIN device.libs, i < k + 1
               PROVE  /\ device.libs[i].name = "linker" =>
                           device.libs[i].exports \subseteq loader'
                      /\ device.libs[i].name = "nativeloader" =>
                           "libnativeloader" \in loader'
    BY <1>1 DEF Reported
  <2>1. CASE i = k
    BY <2>1, <1>3
  <2>2. CASE i < k
    BY <2>2, <1>1, <1>3 DEF LibsInv, Reported
  <2>3. QED
    BY <2>1, <2>2, <1>1, Libs
<1>5. AllFound'
  <2> SUFFICES ASSUME phase' = "ready", NEW i \in DOMAIN device.libs
               PROVE  /\ device.libs[i].name = "linker" =>
                           device.libs[i].exports \subseteq loader'
                      /\ device.libs[i].name = "nativeloader" =>
                           "libnativeloader" \in loader'
    BY <1>1 DEF AllFound
  <2>1. loader' = LoaderNames
    BY <1>1 DEF Stops
  <2>2. QED
    BY <2>1, <1>1, Libs DEF LoaderNames
<1>6. QED
  BY <1>1, <1>3, <1>4, <1>5 DEF LibsInv, DeviceOK

LEMMA EndOfLibsInv ==
  ASSUME LibsInv, EndOfLibs
  PROVE  LibsInv'
<1> USE DEF EndOfLibs, input
<1>1. \A i \in DOMAIN device.libs : i < k
  BY Libs DEF LibsInv, DeviceOK
<1>2. Reported
  BY DEF LibsInv
<1>3. AllFound'
  BY <1>1, <1>2 DEF AllFound, Reported
<1>4. QED
  BY <1>3 DEF LibsInv, DeviceOK

LEMMA LibsStep ==
  ASSUME LibsInv, [Next]_vars
  PROVE  LibsInv'
<1>1. CASE SetOffsets
  BY <1>1 DEF SetOffsets, input, LibsInv, DeviceOK, Reported, AllFound
<1>2. CASE UNCHANGED <<device, loader, phase, k>>
  BY <1>2 DEF LibsInv, DeviceOK, Reported, AllFound
<1>3. QED
  BY <1>1, <1>2, CallbackInv, EndOfLibsInv
     DEF Next, Setup, Step, visiblyInit, Check, Find, SetLinker, SetMake,
         Invoke, Fail, input, setup, vars

(***************************************************************************)
(* callback (fake_dlopen.c:16-75) never stops the iteration too early: for *)
(* any order of the libraries the runtime reports.                         *)
(***************************************************************************)
THEOREM LoaderComplete == Spec => []AllFound
<1>1. Init => LibsInv
  <2> SUFFICES ASSUME Init PROVE LibsInv
    OBVIOUS
  <2>1. DeviceOK
    BY InitDevice
  <2>2. QED
    BY <2>1, Libs DEF Init, LibsInv, Reported, AllFound
<1>2. LibsInv /\ [Next]_vars => LibsInv'
  BY LibsStep
<1>3. LibsInv => AllFound
  BY DEF LibsInv
<1>4. QED
  BY <1>1, <1>2, <1>3, PTL DEF Spec

-----------------------------------------------------------------------------
\* visiblyInit.

(***************************************************************************)
(* Min and Max are elements where there is a least and a greatest one.     *)
(***************************************************************************)
LEMMA Least ==
  ASSUME NEW T \in SUBSET Nat, T # {}
  PROVE  \E x \in T : \A y \in T : x <= y
<1> DEFINE R == OpToRel(<, Nat)
<1>1. IsWellFoundedOn(R, Nat)
  BY NatLessThanWellFounded
<1>2. PICK x \in T : \A y \in T : <<y, x>> \notin R
  <2> HIDE DEF R
  <2> QED
    BY <1>1, WFMin
<1>3. \A y \in T : ~(y < x)
  BY <1>2 DEF OpToRel
<1>4. QED
  BY <1>3

LEMMA MinIsIn ==
  ASSUME NEW T \in SUBSET Nat, T # {}
  PROVE  Min(T) \in T
BY Least DEF Min

LEMMA MaxIsIn ==
  ASSUME NEW n \in Nat, NEW T \in SUBSET (0 .. n), T # {}
  PROVE  Max(T) \in T
<1> DEFINE U == {n - i : i \in T}
<1>1. U \subseteq Nat /\ U # {}
  OBVIOUS
<1>2. PICK x \in U : \A y \in U : x <= y
  <2> HIDE DEF U
  <2> QED
    BY <1>1, Least
<1>3. PICK i \in T : x = n - i
  OBVIOUS
<1>4. \A j \in T : i >= j
  <2> SUFFICES ASSUME NEW j \in T PROVE i >= j
    OBVIOUS
  <2>1. n - j \in U
    OBVIOUS
  <2>2. n - i <= n - j
    BY <1>2, <1>3, <2>1
  <2>3. QED
    BY <2>2
<1>5. \E a \in T : \A b \in T : a >= b
  BY <1>4
<1>6. QED
  BY <1>5 DEF Max

LEMMA JvmOffsetType ==
  ASSUME DeviceOK, device.runtime # Null
  PROVE  JvmOffset \in Nat \cup {-1}
<1> DEFINE at == {i \in DOMAIN device.memory[device.runtime] :
                    /\ i \in 200 .. 2000 /\ (i - 200) % 4 = 0
                    /\ WordAt(device.runtime, i) = device.vm}
<1>1. JvmOffset = IF at = {} THEN -1 ELSE Min(at)
  BY DEF JvmOffset, commonFindOffset
<1>2. at \subseteq Nat
  BY DEF DeviceOK
<1>3. at # {} => Min(at) \in Nat
  <2> HIDE DEF at
  <2> QED
    BY <1>2, MinIsIn
<1>4. QED
  BY <1>1, <1>3

(***************************************************************************)
(* An offset that searchClassLinkerOffset returns is one that passed.      *)
(***************************************************************************)
LEMMA SearchPasses ==
  ASSUME DeviceOK, device.runtime # Null, NEW valid,
         searchClassLinkerOffset(valid) >= 0
  PROVE  LooksLikeLinker(valid, searchClassLinkerOffset(valid))
<1> DEFINE at == {i \in DOMAIN device.memory[device.runtime] :
                    /\ i > 0 /\ i <= JvmOffset - 4 /\ (JvmOffset - i) % 4 = 0
                    /\ LooksLikeLinker(valid, i)}
<1>1. ~(JvmOffset < 0) /\ at # {} /\ searchClassLinkerOffset(valid) = Max(at)
  BY DEF searchClassLinkerOffset
<1>2. Max(at) \in at
  <2>1. JvmOffset \in Nat
    BY <1>1, JvmOffsetType
  <2>2. at \subseteq Nat
    BY DEF DeviceOK
  <2>3. at \in SUBSET (0 .. JvmOffset)
    BY <2>1, <2>2
  <2> HIDE DEF at
  <2>4. QED
    BY <1>1, <2>1, <2>3, MaxIsIn
<1>3. QED
  BY <1>1, <1>2

-----------------------------------------------------------------------------
(***************************************************************************)
(* The test of searchClassLinkerOffset tells the class linker from the     *)
(* other objects in the runtime: what CallsLinker needs to know of the     *)
(* process.                                                                *)
(***************************************************************************)
TestIsRight ==
  device.runtime # Null =>
    \A i \in DOMAIN device.memory[device.runtime] :
      LooksLikeLinker(DOMAIN device.memory, i) =>
        WordAt(device.runtime, i) = device.linker

\* A word of the runtime that is an address, and the right one when the test is.
Fine(address) ==
  /\ address # Null
  /\ TestIsRight => address = device.linker

\* The statics are set in the order of the code and never lost again.
Statics ==
  /\ classLinker # Null => Fine(classLinker)
  /\ makeVisible # Null => makeVisible = "make" /\ "make" \in device.exports
  /\ called # {} => classLinker # Null /\ makeVisible # Null
  /\ TestIsRight => CallsLinker

\* What a thread knows at each place of visiblyInit.
Knows(t) ==
  /\ pc[t] = "setLinker" => Fine(WordAt(device.runtime, offset[t]))
  /\ pc[t] = "setMake" => classLinker # Null
  /\ pc[t] = "invoke" => classLinker # Null /\ makeVisible # Null
  /\ sure[t] => called # {} /\ pc[t] \in {"idle", "check", "invoke"}

TInv ==
  /\ DeviceOK
  /\ pc \in [Threads -> {"idle", "check", "find", "setLinker", "setMake",
                         "invoke", "fail"}]
  /\ DOMAIN offset = Threads /\ DOMAIN sure = Threads
  /\ Statics
  /\ \A t \in Threads : Knows(t)

-----------------------------------------------------------------------------
(***************************************************************************)
(* isValidAddress only ever rejects more.                                  *)
(***************************************************************************)
LEMMA FindsLinker ==
  ASSUME DeviceOK, device.runtime # Null, NEW valid \in Answers,
         searchClassLinkerOffset(valid) >= 0
  PROVE  Fine(WordAt(device.runtime, searchClassLinkerOffset(valid)))
<1> DEFINE off == searchClassLinkerOffset(valid)
<1>1. LooksLikeLinker(valid, off)
  BY SearchPasses
<1>2. valid \subseteq DOMAIN device.memory
  BY DEF Answers
<1>3. WordAt(device.runtime, off) \in DOMAIN device.memory
  BY <1>1, <1>2 DEF LooksLikeLinker
<1>4. WordAt(device.runtime, off) # Null
  BY <1>3 DEF DeviceOK
<1>5. off \in DOMAIN device.memory[device.runtime]
  BY <1>4 DEF WordAt
<1>6. LooksLikeLinker(DOMAIN device.memory, off)
  BY <1>1, <1>2 DEF LooksLikeLinker
<1>7. QED
  BY <1>4, <1>5, <1>6 DEF Fine, TestIsRight

LEMMA InitTInv == Init => TInv
<1> SUFFICES ASSUME Init PROVE TInv
  OBVIOUS
<1>1. DeviceOK
  BY InitDevice
<1>2. Statics
  BY DEF Init, Statics, CallsLinker
<1>3. \A t \in Threads : Knows(t)
  BY DEF Init, Knows
<1>4. QED
  BY <1>1, <1>2, <1>3 DEF Init, TInv

(***************************************************************************)
(* The process does not change, so neither do the facts about it.          *)
(***************************************************************************)
LEMMA SameProcess ==
  ASSUME UNCHANGED input
  PROVE  /\ DeviceOK => DeviceOK'
         /\ TestIsRight' <=> TestIsRight
         /\ \A a : Fine(a)' <=> Fine(a)
         /\ \A a, i : WordAt(a, i)' = WordAt(a, i)
<1> USE DEF input
<1>1. \A a, i : WordAt(a, i)' = WordAt(a, i)
  BY DEF WordAt
<1>2. P' = P /\ VTable' = VTable
  BY DEF P, VTable
<1>3. ASSUME NEW valid, NEW i
      PROVE  LooksLikeLinker(valid, i)' <=> LooksLikeLinker(valid, i)
  BY <1>2 DEF LooksLikeLinker, WordAt
<1>4. TestIsRight' <=> TestIsRight
  BY <1>3 DEF TestIsRight, WordAt
<1>5. \A a : Fine(a)' <=> Fine(a)
  BY <1>4 DEF Fine
<1>6. QED
  BY <1>1, <1>4, <1>5 DEF DeviceOK

-----------------------------------------------------------------------------
(***************************************************************************)
(* The other threads do not lose what they know when what has been found   *)
(* and called stays.                                                       *)
(***************************************************************************)
LEMMA OthersKnow ==
  ASSUME UNCHANGED input, NEW u, Knows(u),
         pc'[u] = pc[u], offset'[u] = offset[u], sure'[u] = sure[u],
         classLinker # Null => classLinker' # Null,
         makeVisible # Null => makeVisible' # Null,
         called # {} => called' # {}
  PROVE  Knows(u)'
<1>1. device' = device
  BY DEF input
<1>2. WordAt(device.runtime, offset[u])' = WordAt(device.runtime, offset[u])
  BY <1>1 DEF WordAt
<1>3. pc[u] = "setLinker" => Fine(WordAt(device.runtime, offset[u]))'
  BY <1>2, SameProcess DEF Knows
<1>4. QED
  BY <1>3 DEF Knows

LEMMA SetupTInv ==
  ASSUME TInv, UNCHANGED <<input, statics, pc, offset, sure, called>>
  PROVE  TInv'
<1>1. Statics'
  BY SameProcess DEF TInv, Statics, CallsLinker, input, statics
<1>2. \A t \in Threads : Knows(t)'
  BY OthersKnow DEF TInv, statics
<1>3. QED
  BY <1>1, <1>2, SameProcess DEF TInv

LEMMA CallTInv ==
  ASSUME TInv, NEW t \in Threads, visiblyInit(t)
  PROVE  TInv'
<1> USE DEF visiblyInit, Goto
<1>1. /\ UNCHANGED <<input, statics, offset, called>>
      /\ pc' = [pc EXCEPT ![t] = IF shouldVisiblyInit THEN "check" ELSE "idle"]
      /\ sure' = [sure EXCEPT ![t] = called # {}]
  OBVIOUS
<1>2. Statics'
  BY <1>1, SameProcess DEF TInv, Statics, CallsLinker, input, statics
<1>3. Knows(t)'
  BY <1>1 DEF TInv, Knows
<1>4. \A u \in Threads \ {t} : Knows(u)'
  BY <1>1, OthersKnow DEF TInv, statics
<1>5. QED
  BY <1>1, <1>2, <1>3, <1>4, SameProcess DEF TInv

LEMMA CheckTInv ==
  ASSUME TInv, NEW t \in Threads, Check(t)
  PROVE  TInv'
<1> USE DEF Check, Goto
<1>1. /\ UNCHANGED <<input, statics, offset, called, sure>>
      /\ pc' = [pc EXCEPT ![t] = IF Known THEN "invoke" ELSE "find"]
  OBVIOUS
<1>2. Statics'
  BY <1>1, SameProcess DEF TInv, Statics, CallsLinker, input, statics
<1>3. Knows(t)'
  BY <1>1 DEF TInv, Knows, Known, Statics, statics
<1>4. \A u \in Threads \ {t} : Knows(u)'
  BY <1>1, OthersKnow DEF TInv, statics
<1>5. QED
  BY <1>1, <1>2, <1>3, <1>4, SameProcess DEF TInv

LEMMA FindTInv ==
  ASSUME TInv, NEW t \in Threads, Find(t)
  PROVE  TInv'
<1> USE DEF Find, Goto
<1>1. /\ UNCHANGED <<input, statics, called, sure>> /\ pc[t] = "find"
      /\ \A u \in Threads \ {t} : pc'[u] = pc[u] /\ offset'[u] = offset[u]
      /\ pc'[t] \in {"setLinker", "fail"}
      /\ DOMAIN offset' = Threads
      /\ pc' \in [Threads -> {"idle", "check", "find", "setLinker", "setMake",
                              "invoke", "fail"}]
  BY DEF TInv
<1>2. Statics'
  BY <1>1, SameProcess DEF TInv, Statics, CallsLinker, input, statics
<1>3. pc'[t] = "setLinker" => Fine(WordAt(device.runtime, offset'[t]))
  <2> SUFFICES ASSUME pc'[t] = "setLinker"
               PROVE  Fine(WordAt(device.runtime, offset'[t]))
    OBVIOUS
  <2>1. CanFind
    BY DEF TInv
  <2>2. PICK valid \in Answers :
          /\ pc' = [pc EXCEPT ![t] = IF Found(searchClassLinkerOffset(valid))
                                     THEN "setLinker" ELSE "fail"]
          /\ offset' = [offset EXCEPT ![t] =
                          IF Found(searchClassLinkerOffset(valid))
                          THEN searchClassLinkerOffset(valid) ELSE @]
    BY <2>1
  <2>3. Found(searchClassLinkerOffset(valid))
    BY <2>2 DEF TInv
  <2>4. offset'[t] = searchClassLinkerOffset(valid)
    BY <2>2, <2>3 DEF TInv
  <2>5. QED
    BY <2>1, <2>3, <2>4, FindsLinker DEF CanFind, Found, TInv
<1>4. Knows(t)'
  <2>1. pc'[t] = "setLinker" => Fine(WordAt(device.runtime, offset[t]))'
    BY <1>1, <1>3, SameProcess DEF input, WordAt
  <2>2. ~sure[t]
    BY <1>1 DEF TInv, Knows
  <2>3. QED
    BY <1>1, <2>1, <2>2 DEF Knows
<1>5. \A u \in Threads \ {t} : Knows(u)'
  BY <1>1, OthersKnow DEF TInv, statics
<1>6. QED
  BY <1>1, <1>2, <1>4, <1>5, SameProcess DEF TInv

LEMMA SetLinkerTInv ==
  ASSUME TInv, NEW t \in Threads, SetLinker(t)
  PROVE  TInv'
<1> USE DEF SetLinker, Goto
<1>1. /\ UNCHANGED <<input, makeVisible, offset, called, sure>>
      /\ pc[t] = "setLinker" /\ pc' = [pc EXCEPT ![t] = "setMake"]
      /\ classLinker' = WordAt(device.runtime, offset[t])
  OBVIOUS
<1>2. Fine(classLinker')
  BY <1>1 DEF TInv, Knows
<1>3. classLinker' # Null
  BY <1>2 DEF Fine
<1>4. Fine(classLinker)'
  BY <1>2, <1>1, SameProcess DEF Fine, input
<1>5. Statics'
  BY <1>1, <1>3, <1>4, SameProcess DEF TInv, Statics, CallsLinker, input
<1>6. Knows(t)'
  BY <1>1, <1>3 DEF TInv, Knows
<1>7. \A u \in Threads \ {t} : Knows(u)'
  BY <1>1, <1>3, OthersKnow DEF TInv
<1>8. QED
  BY <1>1, <1>5, <1>6, <1>7, SameProcess DEF TInv

LEMMA SetMakeTInv ==
  ASSUME TInv, NEW t \in Threads, SetMake(t)
  PROVE  TInv'
<1> USE DEF SetMake, Goto
<1>1. /\ UNCHANGED <<input, classLinker, offset, called, sure>>
      /\ pc[t] = "setMake"
      /\ pc' = [pc EXCEPT ![t] = IF makeVisible' = Null THEN "fail" ELSE "invoke"]
      /\ makeVisible' = IF "make" \in device.exports THEN "make" ELSE Null
  OBVIOUS
<1>2. makeVisible # Null => makeVisible' # Null
  BY <1>1, YafyaInitAssumption DEF TInv, Statics
<1>3. makeVisible' # Null => makeVisible' = "make" /\ "make" \in device.exports
  BY <1>1
<1>4. Statics'
  BY <1>1, <1>2, <1>3, SameProcess DEF TInv, Statics, CallsLinker, input
<1>5. Knows(t)'
  BY <1>1 DEF TInv, Knows
<1>6. \A u \in Threads \ {t} : Knows(u)'
  BY <1>1, <1>2, OthersKnow DEF TInv
<1>7. QED
  BY <1>1, <1>4, <1>5, <1>6, SameProcess DEF TInv

LEMMA InvokeTInv ==
  ASSUME TInv, NEW t \in Threads, Invoke(t)
  PROVE  TInv'
<1> USE DEF Invoke, Goto
<1>1. /\ UNCHANGED <<input, statics, offset, sure>>
      /\ pc[t] = "invoke" /\ pc' = [pc EXCEPT ![t] = "idle"]
      /\ called' = called \cup {<<makeVisible, classLinker>>}
  OBVIOUS
<1>2. classLinker # Null /\ makeVisible # Null
  BY <1>1 DEF TInv, Knows
<1>3. Statics'
  <2>1. TestIsRight => called' \subseteq {<<"make", device.linker>>}
    BY <1>1, <1>2 DEF TInv, Statics, CallsLinker, Fine
  <2>2. QED
    BY <1>1, <1>2, <2>1, SameProcess
       DEF TInv, Statics, CallsLinker, input, statics
<1>4. Knows(t)'
  BY <1>1 DEF TInv, Knows
<1>5. \A u \in Threads \ {t} : Knows(u)'
  BY <1>1, OthersKnow DEF TInv, statics
<1>6. QED
  BY <1>1, <1>3, <1>4, <1>5, SameProcess DEF TInv

LEMMA FailTInv ==
  ASSUME TInv, NEW t \in Threads, Fail(t)
  PROVE  TInv'
<1> USE DEF Fail, Goto
<1>1. /\ UNCHANGED <<input, statics, offset, called, sure>>
      /\ pc[t] = "fail" /\ pc' = [pc EXCEPT ![t] = "idle"]
  OBVIOUS
<1>2. Statics'
  BY <1>1, SameProcess DEF TInv, Statics, CallsLinker, input, statics
<1>3. Knows(t)'
  BY <1>1 DEF TInv, Knows
<1>4. \A u \in Threads \ {t} : Knows(u)'
  BY <1>1, OthersKnow DEF TInv, statics
<1>5. QED
  BY <1>1, <1>2, <1>3, <1>4, SameProcess DEF TInv

LEMMA StepTInv ==
  ASSUME TInv, [Next]_vars
  PROVE  TInv'
<1>1. ASSUME NEW t \in Threads, Step(t)
      PROVE  TInv'
  BY <1>1, CallTInv, CheckTInv, FindTInv, SetLinkerTInv, SetMakeTInv,
     InvokeTInv, FailTInv DEF Step
<1>2. CASE Setup
  BY <1>2, SetupTInv DEF Setup, SetOffsets, Callback, EndOfLibs, input, statics
<1>3. CASE UNCHANGED vars
  BY <1>3, SetupTInv DEF vars, input, statics
<1>4. QED
  BY <1>1, <1>2, <1>3 DEF Next

(***************************************************************************)
(* Once visiblyInit has succeeded it goes on to succeed, for any number of *)
(* threads and whatever they are doing: no thread takes back what another  *)
(* one found (utils.c:151-179 and 224).                                    *)
(***************************************************************************)
THEOREM NoSuccessLost == Spec => []SuccessLasts
<1>1. Init => TInv
  BY InitTInv
<1>2. TInv /\ [Next]_vars => TInv'
  BY StepTInv
<1>3. TInv => SuccessLasts
  BY DEF TInv, Knows, SuccessLasts
<1>4. QED
  BY <1>1, <1>2, <1>3, PTL DEF Spec

(***************************************************************************)
(* Provided that the test tells the class linker from other objects, no    *)
(* call is made with anything else, on any number of threads and however   *)
(* often isValidAddress is wrong.                                          *)
(***************************************************************************)
THEOREM LinkerCalled == Spec => [](TestIsRight => CallsLinker)
<1>1. Init => TInv
  BY InitTInv
<1>2. TInv /\ [Next]_vars => TInv'
  BY StepTInv
<1>3. TInv => (TestIsRight => CallsLinker)
  BY DEF TInv, Statics
<1>4. QED
  BY <1>1, <1>2, <1>3, PTL DEF Spec

-----------------------------------------------------------------------------
(***************************************************************************)
(* The search of the runtime finds something whenever something passes its *)
(* test: what FailsForReason needs to know of the process.                 *)
(***************************************************************************)
LinkerThere ==
  device.runtime # Null =>
    \E i \in DOMAIN device.memory[device.runtime] :
      /\ i > 0 /\ i <= JvmOffset - 4 /\ (JvmOffset - i) % 4 = 0
      /\ LooksLikeLinker(DOMAIN device.memory, i)

\* Something that visiblyInit looks for is missing, or an answer was wrong.
Reason ==
  \/ loader # LoaderNames
  \/ ~({"instance", "make"} \subseteq device.exports)
  \/ device.runtime = Null \/ missed

Places == {"idle", "check", "find", "setLinker", "setMake", "invoke", "fail"}

\* Threads only start when the libraries have been searched.
Begun(t) == pc[t] # "idle" => phase = "ready"

\* The offset that a thread has found is one of a word that is an address.
HasOffset(t) ==
  pc[t] = "setLinker" => WordAt(device.runtime, offset[t]) \in DOMAIN device.memory

FInv ==
  /\ DeviceOK
  /\ pc \in [Threads -> Places] /\ DOMAIN offset = Threads
  /\ LinkerThere => FailsForReason
  /\ \A t \in Threads : Begun(t) /\ HasOffset(t)

-----------------------------------------------------------------------------
LEMMA SearchFinds ==
  ASSUME DeviceOK, device.runtime # Null, LinkerThere
  PROVE  searchClassLinkerOffset(DOMAIN device.memory) >= 0
<1> DEFINE at == {i \in DOMAIN device.memory[device.runtime] :
                    /\ i > 0 /\ i <= JvmOffset - 4 /\ (JvmOffset - i) % 4 = 0
                    /\ LooksLikeLinker(DOMAIN device.memory, i)}
<1>1. at # {}
  BY DEF LinkerThere
<1>2. at \subseteq Nat /\ \A i \in at : i > 0 /\ i <= JvmOffset - 4
  BY DEF DeviceOK
<1>3. JvmOffset \in Nat
  <2>1. JvmOffset \in Nat \/ JvmOffset = -1
    BY JvmOffsetType
  <2>2. PICK i \in at : TRUE
    BY <1>1
  <2>3. i \in Nat /\ i > 0 /\ i <= JvmOffset - 4
    BY <1>2, <2>2
  <2>4. QED
    BY <2>1, <2>3
<1>4. Max(at) \in at
  <2>1. at \in SUBSET (0 .. JvmOffset)
    BY <1>2, <1>3
  <2> HIDE DEF at
  <2>2. QED
    BY <1>1, <1>3, <2>1, MaxIsIn
<1>5. searchClassLinkerOffset(DOMAIN device.memory) = Max(at)
  BY <1>1, <1>3 DEF searchClassLinkerOffset
<1>6. QED
  BY <1>2, <1>4, <1>5

(***************************************************************************)
(* An offset is a number, and the word there is an address.                *)
(***************************************************************************)
LEMMA FoundFacts ==
  ASSUME DeviceOK, device.runtime # Null, NEW valid \in Answers,
         Found(searchClassLinkerOffset(valid))
  PROVE  /\ searchClassLinkerOffset(valid) \in Nat
         /\ WordAt(device.runtime, searchClassLinkerOffset(valid))
              \in DOMAIN device.memory
<1> DEFINE off == searchClassLinkerOffset(valid)
<1>1. LooksLikeLinker(valid, off)
  BY SearchPasses DEF Found
<1>2. WordAt(device.runtime, off) \in DOMAIN device.memory
  BY <1>1 DEF LooksLikeLinker, Answers
<1>3. off \in DOMAIN device.memory[device.runtime]
  BY <1>2 DEF WordAt, DeviceOK
<1>4. QED
  BY <1>2, <1>3 DEF DeviceOK

LEMMA SameSearch ==
  ASSUME UNCHANGED input
  PROVE  /\ DeviceOK => DeviceOK'
         /\ LinkerThere' <=> LinkerThere
<1>1. P' = P /\ VTable' = VTable /\ JvmOffset' = JvmOffset
  BY DEF P, VTable, JvmOffset, commonFindOffset, WordAt, input
<1>2. ASSUME NEW valid, NEW i
      PROVE  LooksLikeLinker(valid, i)' <=> LooksLikeLinker(valid, i)
  BY <1>1 DEF LooksLikeLinker, WordAt, input
<1>3. QED
  BY <1>1, <1>2 DEF LinkerThere, DeviceOK, input

(***************************************************************************)
(* A thread that fails has a reason when it begins to.                     *)
(***************************************************************************)
LEMMA FindReason ==
  ASSUME FInv, LinkerThere, NEW t \in Threads, Find(t), pc'[t] = "fail"
  PROVE  Reason'
<1>1. UNCHANGED <<input, loader>> /\ pc' = [pc EXCEPT ![t] = pc'[t]]
  BY DEF Find, setup, Goto, FInv
<1>2. CASE ~CanFind
  BY <1>1, <1>2 DEF CanFind, Reason, input
<1>3. CASE CanFind
  <2>1. PICK valid \in Answers :
          /\ pc' = [pc EXCEPT ![t] = IF Found(searchClassLinkerOffset(valid))
                                     THEN "setLinker" ELSE "fail"]
          /\ missed' = (missed \/ valid # DOMAIN device.memory)
    BY <1>3 DEF Find, Goto
  <2>2. ~Found(searchClassLinkerOffset(valid))
    BY <2>1 DEF FInv
  <2>3. valid # DOMAIN device.memory
    BY <1>3, <2>2, SearchFinds DEF FInv, Found, CanFind
  <2>4. QED
    BY <2>1, <2>3 DEF Reason
<1>4. QED
  BY <1>2, <1>3

LEMMA SetMakeReason ==
  ASSUME FInv, NEW t \in Threads, SetMake(t), pc'[t] = "fail"
  PROVE  Reason'
<1>1. makeVisible' = Null /\ UNCHANGED input
  BY DEF SetMake, Goto, FInv
<1>2. "make" \notin device.exports
  BY <1>1, YafyaInitAssumption DEF SetMake, YafyaInitAssumption
<1>3. QED
  BY <1>1, <1>2 DEF Reason, input

(***************************************************************************)
(* The offset that a thread goes on with.                                  *)
(***************************************************************************)
LEMMA FindOffset ==
  ASSUME DeviceOK, pc \in [Threads -> Places], NEW t \in Threads, Find(t),
         t \in DOMAIN offset, pc'[t] = "setLinker"
  PROVE  /\ offset'[t] \in Nat
         /\ WordAt(device.runtime, offset'[t]) \in DOMAIN device.memory
<1>1. CanFind
  BY DEF Find, Goto
<1>2. PICK valid \in Answers :
        /\ pc' = [pc EXCEPT ![t] = IF Found(searchClassLinkerOffset(valid))
                                   THEN "setLinker" ELSE "fail"]
        /\ offset' = [offset EXCEPT ![t] =
                        IF Found(searchClassLinkerOffset(valid))
                        THEN searchClassLinkerOffset(valid) ELSE @]
  BY <1>1 DEF Find, Goto
<1>3. Found(searchClassLinkerOffset(valid))
  BY <1>2
<1>4. offset'[t] = searchClassLinkerOffset(valid)
  BY <1>2, <1>3
<1>5. QED
  BY <1>1, <1>3, <1>4, FoundFacts DEF CanFind

(***************************************************************************)
(* What a thread has found and why it fails stays so when another thread   *)
(* moves.                                                                  *)
(***************************************************************************)
LEMMA ReasonStays ==
  ASSUME UNCHANGED <<input, loader>>, missed => missed'
  PROVE  Reason => Reason'
BY DEF Reason, input

LEMMA FailsMeansReason == FailsForReason <=> \A t \in Threads : pc[t] = "fail" => Reason
BY DEF FailsForReason, Reason

LEMMA ThreadStep ==
  ASSUME FInv, NEW t \in Threads,
         UNCHANGED <<input, loader, phase>>, missed => missed',
         phase = "ready",
         pc' \in [Threads -> Places], DOMAIN offset' = Threads,
         \A u \in Threads \ {t} : pc'[u] = pc[u] /\ offset'[u] = offset[u],
         pc'[t] = "fail" /\ LinkerThere => Reason',
         pc'[t] = "setLinker" =>
           WordAt(device.runtime, offset'[t]) \in DOMAIN device.memory
  PROVE  FInv'
<1>1. DeviceOK' /\ (LinkerThere' <=> LinkerThere)
  BY SameSearch DEF FInv
<1>2. LinkerThere => FailsForReason'
  <2>1. SUFFICES ASSUME LinkerThere, NEW u \in Threads, pc'[u] = "fail"
                 PROVE  Reason'
    BY DEF FailsForReason, Reason
  <2>2. CASE u = t
    BY <2>1, <2>2
  <2>3. CASE u # t
    BY <2>1, <2>3, ReasonStays, FailsMeansReason DEF FInv
  <2>4. QED
    BY <2>2, <2>3
<1>3. \A u \in Threads : Begun(u)'
  BY DEF Begun
<1>4. ASSUME NEW u \in Threads
      PROVE  HasOffset(u)'
  <2>1. WordAt(device.runtime, offset[u])' = WordAt(device.runtime, offset'[u])
    BY DEF WordAt, input
  <2>2. CASE u = t
    BY <2>1, <2>2 DEF HasOffset, input
  <2>3. CASE u # t
    BY <2>1, <2>3 DEF HasOffset, FInv, input
  <2>4. QED
    BY <2>2, <2>3
<1>5. QED
  BY <1>1, <1>2, <1>3, <1>4 DEF FInv

LEMMA StepReason ==
  ASSUME FInv, NEW t \in Threads, Step(t)
  PROVE  FInv'
<1>1. CASE visiblyInit(t)
  <2>1. /\ UNCHANGED <<input, loader, phase, missed, offset>> /\ phase = "ready"
        /\ pc' = [pc EXCEPT ![t] = IF shouldVisiblyInit THEN "check" ELSE "idle"]
    BY <1>1 DEF visiblyInit, Goto, setup
  <2>2. QED
    BY <2>1, ThreadStep DEF FInv, Places
<1>2. CASE Check(t)
  <2>1. /\ UNCHANGED <<input, loader, phase, missed, offset>> /\ pc[t] = "check"
        /\ pc' = [pc EXCEPT ![t] = IF Known THEN "invoke" ELSE "find"]
    BY <1>2 DEF Check, Goto, setup
  <2>2. QED
    BY <2>1, ThreadStep DEF FInv, Begun, Places
<1>3. CASE Find(t)
  <2>1. /\ UNCHANGED <<input, loader, phase>> /\ pc[t] = "find"
        /\ \E place \in {"setLinker", "fail"} : pc' = [pc EXCEPT ![t] = place]
        /\ DOMAIN offset' = Threads /\ \A u \in Threads \ {t} : offset'[u] = offset[u]
    <3>1. UNCHANGED <<input, loader, phase>> /\ pc[t] = "find"
      BY <1>3 DEF Find, setup
    <3>2. \E place \in {"setLinker", "fail"} : pc' = [pc EXCEPT ![t] = place]
      BY <1>3 DEF Find, Goto
    <3>3. DOMAIN offset' = Threads /\ \A u \in Threads \ {t} : offset'[u] = offset[u]
      BY <1>3 DEF Find, FInv
    <3>4. QED
      BY <3>1, <3>2, <3>3
  <2>5. missed => missed'
    BY <1>3 DEF Find
  <2>6. /\ pc' \in [Threads -> Places]
        /\ \A u \in Threads \ {t} : pc'[u] = pc[u]
    BY <2>1 DEF FInv, Places
  <2>2. pc'[t] = "fail" /\ LinkerThere => Reason'
    BY <1>3, FindReason
  <2>3. ASSUME pc'[t] = "setLinker"
        PROVE  WordAt(device.runtime, offset'[t]) \in DOMAIN device.memory
    BY <1>3, <2>3, FindOffset DEF FInv
  <2>4. QED
    BY <2>1, <2>2, <2>3, <2>5, <2>6, ThreadStep DEF FInv, Begun
<1>4. CASE SetLinker(t)
  <2>1. /\ UNCHANGED <<input, loader, phase, missed, offset>>
        /\ pc[t] = "setLinker" /\ pc' = [pc EXCEPT ![t] = "setMake"]
    BY <1>4 DEF SetLinker, Goto, setup
  <2>2. QED
    BY <2>1, ThreadStep DEF FInv, Begun, Places
<1>5. CASE SetMake(t)
  <2>1. /\ UNCHANGED <<input, loader, phase, missed, offset>> /\ pc[t] = "setMake"
        /\ pc' = [pc EXCEPT ![t] = IF makeVisible' = Null THEN "fail" ELSE "invoke"]
    BY <1>5 DEF SetMake, Goto, setup
  <2>2. pc'[t] = "fail" => Reason'
    BY <1>5, SetMakeReason
  <2>3. QED
    BY <2>1, <2>2, ThreadStep DEF FInv, Begun, Places
<1>6. CASE Invoke(t) \/ Fail(t)
  <2>1. /\ UNCHANGED <<input, loader, phase, missed, offset>> /\ pc[t] # "idle"
        /\ pc' = [pc EXCEPT ![t] = "idle"]
    BY <1>6 DEF Invoke, Fail, Goto, setup
  <2>2. QED
    BY <2>1, ThreadStep DEF FInv, Begun, Places
<1>7. QED
  BY <1>1, <1>2, <1>3, <1>4, <1>5, <1>6 DEF Step

LEMMA SetupReason ==
  ASSUME FInv, Setup
  PROVE  FInv'
<1>1. UNCHANGED <<input, pc, offset, missed>> /\ phase # "ready"
  BY DEF Setup, SetOffsets, Callback, EndOfLibs
<1>2. DeviceOK'
  BY <1>1, SameSearch DEF FInv
<1>3. \A t \in Threads : pc[t] = "idle"
  BY <1>1 DEF FInv, Begun
<1>4. FailsForReason' /\ \A t \in Threads : Begun(t)' /\ HasOffset(t)'
  BY <1>1, <1>3 DEF FailsForReason, Begun, HasOffset
<1>5. QED
  BY <1>1, <1>2, <1>4 DEF FInv

LEMMA StepFInv ==
  ASSUME FInv, [Next]_vars
  PROVE  FInv'
<1>1. CASE UNCHANGED vars
  <2>1. UNCHANGED <<input, pc, offset, missed, loader, phase>>
    BY <1>1 DEF vars, input
  <2>2. FailsForReason <=> FailsForReason'
    BY <2>1 DEF FailsForReason, input
  <2>3. \A t \in Threads : Begun(t)' /\ HasOffset(t)'
    BY <2>1 DEF FInv, Begun, HasOffset, WordAt, input
  <2>4. QED
    BY <2>1, <2>2, <2>3, SameSearch DEF FInv
<1>2. QED
  BY <1>1, StepReason, SetupReason DEF Next

LEMMA InitFInv == Init => FInv
<1> SUFFICES ASSUME Init PROVE FInv
  OBVIOUS
<1>1. DeviceOK
  BY InitDevice
<1>2. QED
  BY <1>1 DEF Init, FInv, FailsForReason, Begun, HasOffset, Places

(***************************************************************************)
(* Provided that the memory of the runtime has something that passes the   *)
(* test where the search looks, visiblyInit only fails for want of a       *)
(* function of the linker or the runtime, or because a valid address was   *)
(* taken for an invalid one: for any number of threads (utils.c:66-126).   *)
(***************************************************************************)
THEOREM FailsOnlyForReason == Spec => [](LinkerThere => FailsForReason)
<1>1. Init => FInv
  BY InitFInv
<1>2. FInv /\ [Next]_vars => FInv'
  BY StepFInv
<1>3. FInv => (LinkerThere => FailsForReason)
  BY DEF FInv
<1>4. QED
  BY <1>1, <1>2, <1>3, PTL DEF Spec

-----------------------------------------------------------------------------
(***************************************************************************)
(* The offsets and the template are bytes and numbers.                     *)
(***************************************************************************)
LEMMA RoundUpNat ==
  ASSUME NEW p \in {4, 8}, NEW v \in Nat
  PROVE  RoundUp(p, v) \in Nat
<1>1. CASE p = 4
  BY <1>1 DEF RoundUp
<1>2. CASE p = 8
  BY <1>2 DEF RoundUp
<1>3. QED
  BY <1>1, <1>2

Offsets == [{"flags", "interp", "quick"} -> Nat]

LEMMA UnsetType == Unset \in Offsets /\ Unset.quick = 0
BY DEF Unset, Offsets

LEMMA SetTypes ==
  ASSUME NEW f \in Offsets, NEW name \in {"flags", "interp", "quick"},
         NEW n \in Nat
  PROVE  [f EXCEPT ![name] = n] \in Offsets
BY DEF Offsets

LEMMA LayoutType ==
  ASSUME NEW s \in Nat, NEW p \in {4, 8}
  PROVE  Layout(s, p) \in Offsets
<1>1. /\ RoundUp(p, 16) \in Nat /\ RoundUp(p, 20) \in Nat
      /\ RoundUp(p, 28) \in Nat /\ RoundUp(p, 36) \in Nat
  BY RoundUpNat
<1>2. \A n \in Nat : n + p \in Nat /\ n + 2 * p \in Nat /\ n + 3 * p \in Nat
  OBVIOUS
<1>3. ASSUME NEW n \in Nat
      PROVE  [Unset EXCEPT !.flags = 4, !.quick = n] \in Offsets
  BY UnsetType, SetTypes
<1>4. ASSUME NEW m \in Nat, NEW n \in Nat
      PROVE  [Unset EXCEPT !.interp = m, !.quick = n] \in Offsets
  BY UnsetType, SetTypes
<1>5. CASE s \in 31 .. 33
  <2>1. Layout(s, p) = [Unset EXCEPT !.flags = 4, !.quick = RoundUp(p, 16) + p]
    BY <1>5 DEF Layout
  <2>2. QED
    BY <1>1, <1>2, <1>3, <2>1
<1>6. CASE s \in 28 .. 30
  <2>1. Layout(s, p) = [Unset EXCEPT !.flags = 4, !.quick = RoundUp(p, 20) + p]
    BY <1>6 DEF Layout
  <2>2. QED
    BY <1>1, <1>2, <1>3, <2>1
<1>7. CASE s \in 26 .. 27
  <2>1. Layout(s, p) = [Unset EXCEPT !.flags = 4, !.quick = RoundUp(p, 20) + 2 * p]
    BY <1>7 DEF Layout
  <2>2. QED
    BY <1>1, <1>2, <1>3, <2>1
<1>8. CASE s \in 24 .. 25
  <2>1. Layout(s, p) = [Unset EXCEPT !.flags = 4, !.quick = RoundUp(p, 20) + 3 * p]
    BY <1>8 DEF Layout
  <2>2. QED
    BY <1>1, <1>2, <1>3, <2>1
<1>9. CASE s = 23
  <2>1. Layout(s, p) = [Unset EXCEPT !.interp = RoundUp(p, 28), !.quick = RoundUp(p, 28) + 2 * p]
    BY <1>9 DEF Layout
  <2>2. QED
    BY <1>1, <1>2, <1>4, <2>1
<1>10. CASE s = 22
  <2>1. Layout(s, p) = [Unset EXCEPT !.interp = RoundUp(p, 36), !.quick = RoundUp(p, 36) + 2 * p]
    BY <1>10 DEF Layout
  <2>2. QED
    BY <1>1, <1>2, <1>4, <2>1
<1>11. CASE s = 21
  <2>1. Layout(s, p) = [Unset EXCEPT !.interp = 24, !.quick = 40]
    BY <1>11 DEF Layout
  <2>2. 24 \in Nat /\ 40 \in Nat
    OBVIOUS
  <2>3. [Unset EXCEPT !.interp = 24, !.quick = 40] \in Offsets
    BY <1>4, <2>2
  <2>4. QED
    BY <2>1, <2>3
<1>12. CASE s \notin 21 .. 33
  BY <1>12, UnsetType DEF Layout
<1>13. QED
  BY <1>5, <1>6, <1>7, <1>8, <1>9, <1>10, <1>11, <1>12

LEMMA PatchedType ==
  ASSUME NEW a \in Abis, NEW n \in Nat
  PROVE  Patched(a, n) \in Seq(0 .. 255)
<1> DEFINE byte == n % 256
<1>1. byte \in 0 .. 255
  OBVIOUS
<1>2. (byte % 16) * 16 \in 0 .. 255 /\ 64 + (byte \div 16) \in 0 .. 255
  BY <1>1
<1>3. <<byte>> \in Seq(0 .. 255)
  BY <1>1
<1> HIDE DEF byte
<1>4. <<(byte % 16) * 16, 64 + (byte \div 16)>> \in Seq(0 .. 255)
  BY <1>2
<1>5. QED
  BY <1>3, <1>4 DEF Patched, byte

-----------------------------------------------------------------------------
\* The class linker is an address, and the layout is set before hooks are made.
SInv ==
  /\ TypeOK
  /\ DeviceOK
  /\ \A t \in Threads : HasOffset(t)

\* The part of the shape that a thread does not change, and the part it does.
Fixed ==
  /\ sdk \in Sdks /\ abi \in Abis /\ device \in Devices[P]
  /\ layout \in [{"flags", "interp", "quick"} -> Nat]
  /\ template \in Seq(0 .. 255)
  /\ loader \subseteq LoaderNames
  /\ phase \in {"start", "libs", "ready", "crashed"}
  /\ k \in 1 .. Len(device.libs) + 1

Moving ==
  /\ classLinker \in DOMAIN device.memory \cup {Null}
  /\ makeVisible \in {"make", Null}
  /\ pc \in [Threads -> Places]
  /\ offset \in [Threads -> Nat]
  /\ calls \in [Threads -> 0 .. MaxCalls]
  /\ sure \in [Threads -> BOOLEAN]
  /\ missed \in BOOLEAN

LEMMA Parts == TypeOK <=> Fixed /\ Moving
BY DEF TypeOK, Fixed, Moving, Places

LEMMA PointerSizes == ASSUME NEW a PROVE PointerSize(a) \in {4, 8}
BY DEF PointerSize

LEMMA InitSInv == Init => SInv
<1> SUFFICES ASSUME Init PROVE SInv
  OBVIOUS
<1>1. DeviceOK
  BY InitDevice
<1>2. layout \in [{"flags", "interp", "quick"} -> Nat]
  BY UnsetType DEF Init, Offsets
<1>3. template \in Seq(0 .. 255)
  BY PatchedType DEF Init
<1>4. k \in 1 .. Len(device.libs) + 1
  BY <1>1 DEF Init, DeviceOK
<1>5. MaxCalls \in Nat
  BY YafyaInitAssumption DEF YafyaInitAssumption
<1>6. Fixed /\ Moving
  <2>1. Fixed
    BY <1>2, <1>3, <1>4 DEF Init, Fixed
  <2>2. 0 \in 0 .. MaxCalls
    BY <1>5
  <2>3. Moving
    BY <2>2 DEF Init, Moving, Places
  <2>4. QED
    BY <2>1, <2>3
<1>7. \A t \in Threads : HasOffset(t)
  BY DEF Init, HasOffset
<1>8. QED
  BY <1>1, <1>6, <1>7, Parts DEF SInv

LEMMA HasOffsetStays ==
  ASSUME UNCHANGED input, NEW t, HasOffset(t),
         pc'[t] = pc[t] \/ pc'[t] # "setLinker", offset'[t] = offset[t]
  PROVE  HasOffset(t)'
BY DEF HasOffset, WordAt, input

(***************************************************************************)
(* YafyaMain.init.                                                         *)
(***************************************************************************)
LEMMA SetupSInv ==
  ASSUME SInv, Setup
  PROVE  SInv'
<1>1. UNCHANGED <<input, statics, pc, offset, calls, sure, missed>>
  BY DEF Setup, SetOffsets, Callback, EndOfLibs
<1>2. DeviceOK' /\ Moving' /\ \A t \in Threads : HasOffset(t)'
  BY <1>1, SameSearch, Parts, HasOffsetStays DEF SInv, Moving, input, statics
<1>3. CASE SetOffsets
  <2>1. sdk \in Nat /\ P \in {4, 8}
    BY YafyaInitAssumption, PointerSizes
    DEF SInv, TypeOK, YafyaInitAssumption, P
  <2>2. layout' \in Offsets
    BY <1>3, <2>1, LayoutType DEF SetOffsets
  <2>3. layout'.quick \in Nat
    BY <2>2 DEF Offsets
  <2>4. template' \in Seq(0 .. 255)
    BY <1>3, <2>3, PatchedType DEF SetOffsets, SInv, TypeOK
  <2>5. Fixed'
    BY <1>3, <2>2, <2>4 DEF SetOffsets, SInv, TypeOK, Fixed, Offsets, input, P
  <2>6. QED
    BY <1>2, <2>5, Parts DEF SInv, TypeOK, Fixed, Moving, Places
<1>4. CASE Callback
  <2>1. /\ UNCHANGED <<layout, template>> /\ k' = k + 1 /\ k <= Len(device.libs)
    BY <1>4 DEF Callback
  <2>2. k' \in 1 .. Len(device.libs) + 1 /\ k \in DOMAIN device.libs
    BY <2>1 DEF SInv, TypeOK, DeviceOK
  <2>3. device.libs[k].exports \subseteq LoaderNames
    BY <2>2, Libs DEF SInv
  <2>4. /\ loader' \subseteq LoaderNames
        /\ phase' \in {"start", "libs", "ready", "crashed"}
    BY <1>4, <2>3 DEF Callback, SInv, TypeOK, LoaderNames
  <2>5. Fixed'
    BY <1>1, <2>1, <2>2, <2>4 DEF SInv, TypeOK, Fixed, input, P
  <2>6. QED
    BY <1>2, <2>5 DEF SInv, TypeOK, Fixed, Moving, Places
<1>5. CASE EndOfLibs
  <2>1. Fixed'
    BY <1>5 DEF EndOfLibs, SInv, TypeOK, Fixed, input, P
  <2>2. QED
    BY <1>2, <2>1 DEF SInv, TypeOK, Fixed, Moving, Places
<1>6. QED
  BY <1>3, <1>4, <1>5 DEF Setup

(***************************************************************************)
(* visiblyInit: readAddr only follows an offset that was found.            *)
(***************************************************************************)
LEMMA ThreadSInv ==
  ASSUME SInv, UNCHANGED <<input, setup>>, Moving',
         \A t \in Threads : HasOffset(t)'
  PROVE  SInv'
<1>1. Fixed'
  BY Parts DEF SInv, Fixed, input, setup, P
<1>2. QED
  BY <1>1, SameSearch DEF SInv, TypeOK, Fixed, Moving, Places

LEMMA StepSInv ==
  ASSUME SInv, NEW t \in Threads, Step(t)
  PROVE  SInv'
<1>1. Moving /\ DeviceOK /\ \A u \in Threads : HasOffset(u)
  BY Parts DEF SInv
<1>2. MaxCalls \in Nat
  BY YafyaInitAssumption DEF YafyaInitAssumption
<1>3. CASE visiblyInit(t)
  <2>1. Moving'
    BY <1>1, <1>2, <1>3 DEF visiblyInit, Goto, Moving, Places, input, statics
  <2>2. \A u \in Threads : HasOffset(u)'
    BY <1>1, <1>3, HasOffsetStays DEF visiblyInit, Goto, Moving
  <2>3. QED
    BY <1>3, <2>1, <2>2, ThreadSInv DEF visiblyInit
<1>4. CASE Check(t)
  <2>1. Moving'
    BY <1>1, <1>4 DEF Check, Goto, Moving, Places, input, statics
  <2>2. \A u \in Threads : HasOffset(u)'
    BY <1>1, <1>4, HasOffsetStays DEF Check, Goto, Moving
  <2>3. QED
    BY <1>4, <2>1, <2>2, ThreadSInv DEF Check
<1>5. CASE Find(t)
  <2>1. /\ pc' \in [Threads -> Places] /\ t \in DOMAIN offset
        /\ DOMAIN offset' = Threads
        /\ \A u \in Threads \ {t} : pc'[u] = pc[u] /\ offset'[u] = offset[u]
    BY <1>1, <1>5 DEF Find, Goto, Moving, Places
  <2>2. pc'[t] = "setLinker" =>
          /\ offset'[t] \in Nat
          /\ WordAt(device.runtime, offset'[t]) \in DOMAIN device.memory
    BY <1>1, <1>5, <2>1, FindOffset DEF Moving
  <2>3. pc'[t] # "setLinker" => offset'[t] = offset[t]
    BY <1>1, <1>5 DEF Find, Goto, Moving
  <2>4. offset' \in [Threads -> Nat]
    <3>1. \A u \in Threads : offset'[u] \in Nat
      BY <1>1, <2>1, <2>2, <2>3 DEF Moving
    <3>2. \E off : offset' = [u \in Threads |-> off[u]]
      BY <1>1, <1>5 DEF Find, Moving
    <3>3. QED
      BY <3>1, <3>2
  <2>5. missed' \in BOOLEAN
    BY <1>1, <1>5 DEF Find, Moving
  <2>6. UNCHANGED <<input, setup, statics, calls, sure>>
    BY <1>5 DEF Find
  <2>7. Moving'
    BY <1>1, <2>1, <2>4, <2>5, <2>6 DEF Moving, input, statics
  <2>8. ASSUME NEW u \in Threads
        PROVE  HasOffset(u)'
    <3>1. CASE u = t
      BY <2>2, <2>6, <3>1 DEF HasOffset, WordAt, input
    <3>2. CASE u # t
      BY <1>1, <2>1, <2>6, <3>2, HasOffsetStays
    <3>3. QED
      BY <3>1, <3>2
  <2>9. QED
    BY <2>6, <2>7, <2>8, ThreadSInv
<1>6. CASE SetLinker(t)
  <2>1. classLinker' \in DOMAIN device.memory
    BY <1>1, <1>6 DEF SetLinker, HasOffset
  <2>2. Moving'
    BY <1>1, <1>6, <2>1 DEF SetLinker, Goto, Moving, Places, input
  <2>3. \A u \in Threads : HasOffset(u)'
    BY <1>1, <1>6, HasOffsetStays DEF SetLinker, Goto, Moving
  <2>4. QED
    BY <1>6, <2>2, <2>3, ThreadSInv DEF SetLinker
<1>7. CASE SetMake(t)
  <2>1. Moving'
    BY <1>1, <1>7 DEF SetMake, Goto, Moving, Places, input
  <2>2. \A u \in Threads : HasOffset(u)'
    BY <1>1, <1>7, HasOffsetStays DEF SetMake, Goto, Moving
  <2>3. QED
    BY <1>7, <2>1, <2>2, ThreadSInv DEF SetMake
<1>8. CASE Invoke(t) \/ Fail(t)
  <2>1. Moving'
    BY <1>1, <1>8 DEF Invoke, Fail, Goto, Moving, Places, input, statics
  <2>2. \A u \in Threads : HasOffset(u)'
    BY <1>1, <1>8, HasOffsetStays DEF Invoke, Fail, Goto, Moving
  <2>3. QED
    BY <1>8, <2>1, <2>2, ThreadSInv DEF Invoke, Fail
<1>9. QED
  BY <1>3, <1>4, <1>5, <1>6, <1>7, <1>8 DEF Step

(***************************************************************************)
(* Offsets and the template are numbers and bytes on every API level and   *)
(* ABI, and readAddr follows only an offset that was found, to an object   *)
(* of the process: for any number of threads (utils.c:161).                *)
(***************************************************************************)
THEOREM TypeCorrect == Spec => []TypeOK
<1>1. Init => SInv
  BY InitSInv
<1>2. SInv /\ [Next]_vars => SInv'
  <2>1. SUFFICES ASSUME SInv, [Next]_vars PROVE SInv'
    OBVIOUS
  <2>2. CASE UNCHANGED vars
    <3>1. UNCHANGED <<input, setup, statics, pc, offset, calls, sure, missed>>
      BY <2>2 DEF vars, input, setup, statics
    <3>2. Moving' /\ \A t \in Threads : HasOffset(t)'
      BY <2>1, <3>1, Parts, HasOffsetStays DEF SInv, Moving, input, statics
    <3>3. QED
      BY <2>1, <3>1, <3>2, ThreadSInv
  <2>3. QED
    BY <2>1, <2>2, SetupSInv, StepSInv DEF Next
<1>3. SInv => TypeOK
  BY DEF SInv
<1>4. QED
  BY <1>1, <1>2, <1>3, PTL DEF Spec

-----------------------------------------------------------------------------
(***************************************************************************)
(* The offset of a field is what FieldOffset computes from the sizes of    *)
(* the fields before it: what the recursive function in its definition     *)
(* satisfies, and that there is one.                                       *)
(***************************************************************************)
\* The next multiple of a size.
Align(n, size) == n + ((size - (n % size)) % size)

\* f gives the offsets of the first last fields.
Starts(f, fields, last) ==
  f = [j \in 1 .. last |->
         IF j = 1 THEN 0
         ELSE Align(f[j - 1] + fields[j - 1][2], fields[j][2])]

LEMMA StartsExist ==
  ASSUME NEW fields, NEW last \in Nat
  PROVE  \E f : Starts(f, fields, last)
<1> DEFINE T == {n \in Nat : ~\E f : Starts(f, fields, n)}
<1>1. SUFFICES ASSUME T # {} PROVE FALSE
  OBVIOUS
<1>2. PICK n \in T : \A m \in T : n <= m
  <2> HIDE DEF T
  <2>1. T \in SUBSET Nat
    BY DEF T
  <2>2. QED
    BY <1>1, <2>1, Least
<1>3. Starts([j \in 1 .. 0 |-> 0], fields, 0)
  BY DEF Starts
<1>4. n \in Nat /\ n # 0 /\ n - 1 \in Nat /\ n - 1 \notin T
  BY <1>2, <1>3
<1>5. PICK g : Starts(g, fields, n - 1)
  BY <1>4
<1> DEFINE f == [j \in 1 .. n |->
                   IF j = 1 THEN 0
                   ELSE Align(g[j - 1] + fields[j - 1][2], fields[j][2])]
<1>6. \A j \in 1 .. n - 1 : f[j] = g[j]
  <2>1. TAKE j \in 1 .. n - 1
  <2>2. j \in 1 .. n
    BY <1>4
  <2>3. g[j] = IF j = 1 THEN 0
               ELSE Align(g[j - 1] + fields[j - 1][2], fields[j][2])
    BY <1>5 DEF Starts
  <2>4. QED
    BY <2>2, <2>3
<1>7. \A j \in 1 .. n : j # 1 => f[j - 1] = g[j - 1]
  <2>1. \A j \in 1 .. n : j # 1 => j - 1 \in 1 .. n - 1
    BY <1>4
  <2> HIDE DEF f
  <2>2. QED
    BY <1>6, <2>1
<1>8. f = [j \in 1 .. n |->
             IF j = 1 THEN 0
             ELSE Align(f[j - 1] + fields[j - 1][2], fields[j][2])]
  BY <1>7
<1>9. Starts(f, fields, n)
  BY <1>8 DEF Starts
<1>10. QED
  BY <1>2, <1>9

LEMMA FieldOffsetStarts ==
  ASSUME NEW fields, NEW last \in Nat
  PROVE  \E f : Starts(f, fields, last) /\ FieldOffset(fields, last) = f[last]
<1> DEFINE f == CHOOSE g : Starts(g, fields, last)
<1>1. Starts(f, fields, last)
  BY StartsExist
<1>2. FieldOffset(fields, last) = f[last]
  BY DEF FieldOffset, Starts, Align
<1>3. QED
  BY <1>1, <1>2

LEMMA StartsNext ==
  ASSUME NEW f, NEW fields, NEW last \in Nat, Starts(f, fields, last)
  PROVE  /\ last >= 1 => f[1] = 0
         /\ \A j \in 1 .. last - 1 :
              f[j + 1] = Align(f[j] + fields[j][2], fields[j + 1][2])
<1>1. \A i \in 1 .. last :
        f[i] = IF i = 1 THEN 0
               ELSE Align(f[i - 1] + fields[i - 1][2], fields[i][2])
  BY DEF Starts
<1>2. ASSUME NEW j \in 1 .. last - 1
      PROVE  f[j + 1] = Align(f[j] + fields[j][2], fields[j + 1][2])
  <2>1. j + 1 \in 1 .. last /\ j + 1 # 1 /\ (j + 1) - 1 = j
    OBVIOUS
  <2>2. QED
    BY <1>1, <2>1
<1>3. last >= 1 => 1 \in 1 .. last
  OBVIOUS
<1>4. QED
  BY <1>1, <1>2, <1>3

LEMMA Aligned ==
  ASSUME NEW n \in Nat, NEW size \in {2, 4, 8}
  PROVE  /\ n % size = 0 => Align(n, size) = n
         /\ size = 8 /\ n % 8 = 4 => Align(n, size) = n + 4
<1>1. CASE size = 2
  BY <1>1 DEF Align
<1>2. CASE size = 4
  BY <1>2 DEF Align
<1>3. CASE size = 8
  BY <1>3 DEF Align
<1>4. QED
  BY <1>1, <1>2, <1>3

LEMMA OffsetIs ==
  ASSUME NEW s, NEW p, NEW name, NEW last \in Nat, last \in DOMAIN Fields(s, p),
         \A j \in DOMAIN Fields(s, p) : Fields(s, p)[j][1] = name <=> j = last
  PROVE  \E f : Starts(f, Fields(s, p), last) /\ OffsetOf(name, s, p) = f[last]
<1> DEFINE fields == Fields(s, p)
<1>1. {j \in DOMAIN fields : fields[j][1] = name} = {last}
  OBVIOUS
<1>2. OffsetOf(name, s, p) = FieldOffset(fields, last)
  BY <1>1 DEF OffsetOf
<1>3. QED
  BY <1>2, FieldOffsetStarts

\* Fields of one size follow each other without a gap.
OfSize(fields, size, i, n) == \A j \in i .. n : fields[j][2] = size

LEMMA Run ==
  ASSUME NEW f, NEW fields, NEW last \in Nat, Starts(f, fields, last),
         NEW size \in {4, 8}, NEW i \in 1 .. last, NEW n \in i .. last,
         f[i] \in Nat, f[i] % size = 0, OfSize(fields, size, i, n)
  PROVE  f[n] = f[i] + (n - i) * size
<1> SUFFICES \A j \in i .. n : f[j] = f[i] + (j - i) * size
  OBVIOUS
<1> DEFINE T == {j \in i .. n : f[j] # f[i] + (j - i) * size}
<1>1. SUFFICES ASSUME T # {} PROVE FALSE
  OBVIOUS
<1>2. PICK j \in T : \A m \in T : j <= m
  <2>1. T \in SUBSET Nat
    OBVIOUS
  <2> HIDE DEF T
  <2>2. QED
    BY <1>1, <2>1, Least
<1>3. j \in i .. n /\ f[j] # f[i] + (j - i) * size /\ j # i
  OBVIOUS
<1>4. PICK m \in i .. n - 1 : j = m + 1
  BY <1>3
<1>5. m \notin T
  <2> HIDE DEF T
  <2>1. QED
    BY <1>2, <1>4
<1>6. f[m] = f[i] + (m - i) * size /\ m \in 1 .. last - 1
  BY <1>4, <1>5
<1>7. f[j] = Align(f[m] + size, size)
  BY <1>4, <1>6, StartsNext DEF OfSize
<1>8. CASE size = 4
  <2>1. f[m] + 4 \in Nat /\ (f[m] + 4) % 4 = 0
    BY <1>4, <1>6, <1>8
  <2>2. f[j] = f[m] + 4
    BY <1>7, <1>8, <2>1, Aligned
  <2>3. QED
    BY <1>3, <1>4, <1>6, <1>8, <2>2
<1>9. CASE size = 8
  <2>1. f[m] + 8 \in Nat /\ (f[m] + 8) % 8 = 0
    BY <1>4, <1>6, <1>9
  <2>2. f[j] = f[m] + 8
    BY <1>7, <1>9, <2>1, Aligned
  <2>3. QED
    BY <1>3, <1>4, <1>6, <1>9, <2>2
<1>10. QED
  BY <1>8, <1>9

LEMMA AlignRounds ==
  ASSUME NEW n \in Nat, n % 4 = 0, NEW p \in {4, 8}
  PROVE  /\ Align(n, p) = RoundUp(p, n)
         /\ Align(n, p) \in Nat /\ Align(n, p) % p = 0
<1>1. CASE p = 4
  BY <1>1 DEF Align, RoundUp
<1>2. CASE p = 8
  BY <1>2 DEF Align, RoundUp
<1>3. QED
  BY <1>1, <1>2

\* w words, then pointers.
LEMMA AfterWords ==
  ASSUME NEW f, NEW fields, NEW last \in Nat, Starts(f, fields, last),
         NEW w \in 1 .. last - 1, NEW p \in {4, 8},
         \A j \in 1 .. w : fields[j][2] = 4,
         \A j \in w + 1 .. last : fields[j][2] = p
  PROVE  f[last] = RoundUp(p, 4 * w) + (last - w - 1) * p
<1>1. f[1] = 0
  BY StartsNext
<1>2. f[w] = 4 * (w - 1)
  <2>1. OfSize(fields, 4, 1, w) /\ 1 \in 1 .. last /\ w \in 1 .. last
    BY DEF OfSize
  <2>2. f[w] = f[1] + (w - 1) * 4
    BY <1>1, <2>1, Run
  <2>3. QED
    BY <1>1, <2>2
<1>3. f[w + 1] = Align(4 * w, p)
  BY <1>2, StartsNext
<1>4. /\ f[w + 1] = RoundUp(p, 4 * w)
      /\ f[w + 1] \in Nat /\ f[w + 1] % p = 0
  BY <1>3, AlignRounds
<1>5. PICK i \in 1 .. last : i = w + 1
  OBVIOUS
<1>6. f[last] = f[i] + (last - i) * p
  <2>1. OfSize(fields, p, i, last) /\ last \in i .. last
    BY <1>5 DEF OfSize
  <2>2. f[i] \in Nat /\ f[i] % p = 0
    BY <1>4, <1>5
  <2>3. QED
    BY <2>1, <2>2, Run
<1>7. last - i = last - w - 1
  BY <1>5
<1>8. QED
  BY <1>4, <1>5, <1>6, <1>7

\* w words and two half words, then pointers.
LEMMA AfterHalves ==
  ASSUME NEW f, NEW fields, NEW last \in Nat, Starts(f, fields, last),
         NEW w \in 1 .. last - 3, NEW p \in {4, 8},
         \A j \in 1 .. w : fields[j][2] = 4,
         \A j \in w + 1 .. w + 2 : fields[j][2] = 2,
         \A j \in w + 3 .. last : fields[j][2] = p
  PROVE  f[last] = RoundUp(p, 4 * w + 4) + (last - w - 3) * p
<1>1. f[1] = 0
  BY StartsNext
<1>2. f[w] = 4 * (w - 1)
  <2>1. OfSize(fields, 4, 1, w) /\ 1 \in 1 .. last /\ w \in 1 .. last
    BY DEF OfSize
  <2>2. f[w] = f[1] + (w - 1) * 4
    BY <1>1, <2>1, Run
  <2>3. QED
    BY <1>1, <2>2
<1>3. f[w + 1] = 4 * w
  <2>1. f[w + 1] = Align(4 * w, 2)
    BY <1>2, StartsNext
  <2>2. QED
    BY <2>1, Aligned
<1>4. f[w + 2] = 4 * w + 2
  <2>1. w + 1 \in 1 .. last - 1 /\ (w + 1) + 1 = w + 2
    OBVIOUS
  <2>2. f[w + 2] = Align(4 * w + 2, 2)
    BY <1>3, <2>1, StartsNext
  <2>3. QED
    BY <2>2, Aligned
<1>5. f[w + 3] = Align(4 * w + 4, p)
  <2>1. w + 2 \in 1 .. last - 1 /\ (w + 2) + 1 = w + 3
    OBVIOUS
  <2>2. QED
    BY <1>4, <2>1, StartsNext
<1>6. /\ f[w + 3] = RoundUp(p, 4 * w + 4)
      /\ f[w + 3] \in Nat /\ f[w + 3] % p = 0
  BY <1>5, AlignRounds
<1>7. PICK i \in 1 .. last : i = w + 3
  OBVIOUS
<1>8. f[last] = f[i] + (last - i) * p
  <2>1. OfSize(fields, p, i, last) /\ last \in i .. last
    BY <1>7 DEF OfSize
  <2>2. f[i] \in Nat /\ f[i] % p = 0
    BY <1>6, <1>7
  <2>3. QED
    BY <2>1, <2>2, Run
<1>9. last - i = last - w - 3
  BY <1>7
<1>10. QED
  BY <1>6, <1>7, <1>8, <1>9

\* Where the fields are that the code uses.
LEMMA RecentFields ==
  ASSUME NEW s \in 24 .. 33, NEW p \in {4, 8}
  PROVE  /\ OffsetOf("flags", s, p) = 4
         /\ OffsetOf("interp", s, p) = 0
         /\ OffsetOf("quick", s, p) = Layout(s, p).quick
<1> DEFINE fields == Fields(s, p)
           w == IF s \in 31 .. 33 THEN 3 ELSE 4
           last == CASE s \in 31 .. 33 -> 7 [] s \in 28 .. 30 -> 8
                  [] s \in 26 .. 27 -> 9 [] s \in 24 .. 25 -> 10
<1>1. /\ w \in 3 .. 4 /\ last \in w + 4 .. 10
      /\ DOMAIN fields = 1 .. last
      /\ fields[2] = <<"flags", 4>> /\ fields[last] = <<"quick", p>>
      /\ \A j \in 1 .. last : j \notin {2, last} => fields[j][1] \in {"word", "half", "pointer"}
      /\ \A j \in 1 .. w : fields[j][2] = 4
      /\ \A j \in w + 1 .. w + 2 : fields[j][2] = 2
      /\ \A j \in w + 3 .. last : fields[j][2] = p
  <2>1. CASE s \in 31 .. 33
    <3>1. /\ DOMAIN fields = 1 .. 7
          /\ fields[1] = <<"word", 4>> /\ fields[2] = <<"flags", 4>>
          /\ fields[3] = <<"word", 4>> /\ fields[4] = <<"half", 2>>
          /\ fields[5] = <<"half", 2>> /\ fields[6] = <<"pointer", p>>
          /\ fields[7] = <<"quick", p>>
      BY <2>1 DEF Fields
    <3>2. w = 3 /\ last = 7
      BY <2>1
    <3> HIDE DEF fields, w, last
    <3>3. QED
      BY <3>1, <3>2
  <2>2. CASE s \in 28 .. 30
    <3>1. /\ DOMAIN fields = 1 .. 8
          /\ fields[1] = <<"word", 4>> /\ fields[2] = <<"flags", 4>>
          /\ fields[3] = <<"word", 4>> /\ fields[4] = <<"word", 4>>
          /\ fields[5] = <<"half", 2>> /\ fields[6] = <<"half", 2>>
          /\ fields[7] = <<"pointer", p>> /\ fields[8] = <<"quick", p>>
      BY <2>2 DEF Fields
    <3>2. w = 4 /\ last = 8
      BY <2>2
    <3> HIDE DEF fields, w, last
    <3>3. QED
      BY <3>1, <3>2
  <2>3. CASE s \in 26 .. 27
    <3>1. /\ DOMAIN fields = 1 .. 9
          /\ fields[1] = <<"word", 4>> /\ fields[2] = <<"flags", 4>>
          /\ fields[3] = <<"word", 4>> /\ fields[4] = <<"word", 4>>
          /\ fields[5] = <<"half", 2>> /\ fields[6] = <<"half", 2>>
          /\ fields[7] = <<"pointer", p>> /\ fields[8] = <<"pointer", p>>
          /\ fields[9] = <<"quick", p>>
      BY <2>3 DEF Fields
    <3>2. w = 4 /\ last = 9
      BY <2>3
    <3> HIDE DEF fields, w, last
    <3>3. QED
      BY <3>1, <3>2
  <2>4. CASE s \in 24 .. 25
    <3>1. /\ DOMAIN fields = 1 .. 10
          /\ fields[1] = <<"word", 4>> /\ fields[2] = <<"flags", 4>>
          /\ fields[3] = <<"word", 4>> /\ fields[4] = <<"word", 4>>
          /\ fields[5] = <<"half", 2>> /\ fields[6] = <<"half", 2>>
          /\ fields[7] = <<"pointer", p>> /\ fields[8] = <<"pointer", p>>
          /\ fields[9] = <<"pointer", p>> /\ fields[10] = <<"quick", p>>
      BY <2>4 DEF Fields
    <3>2. w = 4 /\ last = 10
      BY <2>4
    <3> HIDE DEF fields, w, last
    <3>3. QED
      BY <3>1, <3>2
  <2>5. QED
    BY <2>1, <2>2, <2>3, <2>4
<1> HIDE DEF fields, last, w
<1>2. OffsetOf("interp", s, p) = 0
  BY <1>1 DEF OffsetOf, fields
<1>3. OffsetOf("flags", s, p) = 4
  <2>1. 2 \in DOMAIN fields /\ \A j \in DOMAIN fields : fields[j][1] = "flags" <=> j = 2
    BY <1>1
  <2>2. PICK f : Starts(f, fields, 2) /\ OffsetOf("flags", s, p) = f[2]
    BY <2>1, OffsetIs DEF fields
  <2>3. f[1] = 0 /\ f[2] = Align(f[1] + 4, 4)
    BY <1>1, <2>2, StartsNext
  <2>4. QED
    BY <2>2, <2>3, Aligned
<1>4. OffsetOf("quick", s, p) = RoundUp(p, 4 * w + 4) + (last - w - 3) * p
  <2>1. last \in Nat /\ last \in DOMAIN fields /\ \A j \in DOMAIN fields : fields[j][1] = "quick" <=> j = last
    BY <1>1
  <2>2. PICK f : Starts(f, fields, last) /\ OffsetOf("quick", s, p) = f[last]
    BY <2>1, OffsetIs DEF fields
  <2>3. w \in 1 .. last - 3
    BY <1>1
  <2>4. f[last] = RoundUp(p, 4 * w + 4) + (last - w - 3) * p
    BY <1>1, <2>1, <2>2, <2>3, AfterHalves
  <2>5. QED
    BY <2>2, <2>4
<1>5. Layout(s, p).quick = RoundUp(p, 4 * w + 4) + (last - w - 3) * p
  <2>1. CASE s \in 31 .. 33
    BY <2>1 DEF Layout, Unset, w, last
  <2>2. CASE s \in 28 .. 30
    BY <2>2 DEF Layout, Unset, w, last
  <2>3. CASE s \in 26 .. 27
    BY <2>3 DEF Layout, Unset, w, last
  <2>4. CASE s \in 24 .. 25
    BY <2>4 DEF Layout, Unset, w, last
  <2>5. QED
    BY <2>1, <2>2, <2>3, <2>4
<1>6. QED
  BY <1>2, <1>3, <1>4, <1>5

LEMMA EarlyFields ==
  ASSUME NEW s \in 21 .. 23, NEW p \in {4, 8}
  PROVE  /\ OffsetOf("interp", s, p) = Layout(s, p).interp
         /\ OffsetOf("quick", s, p) = Layout(s, p).quick
<1> DEFINE fields == Fields(s, p)
           w == CASE s = 23 -> 7 [] s = 22 -> 9 [] s = 21 -> 6
           q == IF s = 21 THEN 8 ELSE p
<1>1. /\ w \in 6 .. 9 /\ q \in {4, 8}
      /\ DOMAIN fields = 1 .. w + 3
      /\ fields[w + 1] = <<"interp", q>> /\ fields[w + 3] = <<"quick", q>>
      /\ \A j \in 1 .. w + 3 : j \notin {w + 1, w + 3} => fields[j][1] \in {"word", "pointer"}
      /\ \A j \in 1 .. w : fields[j][2] = 4
      /\ \A j \in w + 1 .. w + 3 : fields[j][2] = q
  <2>1. CASE s = 23
    <3>1. /\ DOMAIN fields = 1 .. 10
          /\ \A j \in 1 .. 7 : fields[j] = <<"word", 4>>
          /\ fields[8] = <<"interp", p>> /\ fields[9] = <<"pointer", p>>
          /\ fields[10] = <<"quick", p>>
      BY <2>1 DEF Fields
    <3>2. w = 7 /\ q = p
      BY <2>1
    <3> HIDE DEF fields, w, q
    <3>3. QED
      BY <3>1, <3>2
  <2>2. CASE s = 22
    <3>1. /\ DOMAIN fields = 1 .. 12
          /\ \A j \in 1 .. 9 : fields[j] = <<"word", 4>>
          /\ fields[10] = <<"interp", p>> /\ fields[11] = <<"pointer", p>>
          /\ fields[12] = <<"quick", p>>
      BY <2>2 DEF Fields
    <3>2. w = 9 /\ q = p
      BY <2>2
    <3> HIDE DEF fields, w, q
    <3>3. QED
      BY <3>1, <3>2
  <2>3. CASE s = 21
    <3>1. /\ DOMAIN fields = 1 .. 9
          /\ \A j \in 1 .. 6 : fields[j] = <<"word", 4>>
          /\ fields[7] = <<"interp", 8>> /\ fields[8] = <<"pointer", 8>>
          /\ fields[9] = <<"quick", 8>>
      BY <2>3 DEF Fields
    <3>2. w = 6 /\ q = 8
      BY <2>3
    <3> HIDE DEF fields, w, q
    <3>3. QED
      BY <3>1, <3>2
  <2>4. QED
    BY <2>1, <2>2, <2>3
<1>2. /\ Layout(s, p).interp = RoundUp(q, 4 * w)
      /\ Layout(s, p).quick = RoundUp(q, 4 * w) + 2 * q
  <2>1. CASE s = 23
    <3>1. Layout(s, p) = [Unset EXCEPT !.interp = RoundUp(p, 28), !.quick = RoundUp(p, 28) + 2 * p]
      BY <2>1 DEF Layout
    <3>2. w = 7 /\ q = p /\ 4 * 7 = 28
      BY <2>1
    <3> HIDE DEF w, q
    <3>3. QED
      BY <3>1, <3>2 DEF Unset
  <2>2. CASE s = 22
    <3>1. Layout(s, p) = [Unset EXCEPT !.interp = RoundUp(p, 36), !.quick = RoundUp(p, 36) + 2 * p]
      BY <2>2 DEF Layout
    <3>2. w = 9 /\ q = p /\ 4 * 9 = 36
      BY <2>2
    <3> HIDE DEF w, q
    <3>3. QED
      BY <3>1, <3>2 DEF Unset
  <2>3. CASE s = 21
    <3>1. w = 6 /\ q = 8
      BY <2>3
    <3>2. RoundUp(8, 24) = 24
      BY DEF RoundUp
    <3>3. Layout(s, p) = [Unset EXCEPT !.interp = 24, !.quick = 40]
      BY <2>3 DEF Layout
    <3> HIDE DEF w, q
    <3>4. QED
      BY <3>1, <3>2, <3>3 DEF Unset
  <2>4. QED
    BY <2>1, <2>2, <2>3
<1> HIDE DEF fields, w, q
<1>3. OffsetOf("interp", s, p) = RoundUp(q, 4 * w)
  <2>1. /\ w + 1 \in Nat /\ w + 1 \in DOMAIN fields
        /\ \A j \in DOMAIN fields : fields[j][1] = "interp" <=> j = w + 1
    BY <1>1
  <2>2. PICK f : Starts(f, fields, w + 1) /\ OffsetOf("interp", s, p) = f[w + 1]
    BY <2>1, OffsetIs DEF fields
  <2>3. f[w + 1] = RoundUp(q, 4 * w) + ((w + 1) - w - 1) * q
    <3>1. w \in 1 .. (w + 1) - 1 /\ \A j \in w + 1 .. w + 1 : fields[j][2] = q
      BY <1>1
    <3>2. QED
      BY <1>1, <2>1, <2>2, <3>1, AfterWords
  <2>4. (w + 1) - w - 1 = 0 /\ 0 * q = 0 /\ RoundUp(q, 4 * w) \in Nat
    <3>1. 4 * w \in Nat
      BY <1>1
    <3>2. RoundUp(q, 4 * w) \in Nat
      BY <1>1, <3>1, RoundUpNat
    <3>3. QED
      BY <1>1, <3>2
  <2>5. QED
    BY <2>2, <2>3, <2>4
<1>4. OffsetOf("quick", s, p) = RoundUp(q, 4 * w) + 2 * q
  <2>1. /\ w + 3 \in Nat /\ w + 3 \in DOMAIN fields
        /\ \A j \in DOMAIN fields : fields[j][1] = "quick" <=> j = w + 3
    BY <1>1
  <2>2. PICK f : Starts(f, fields, w + 3) /\ OffsetOf("quick", s, p) = f[w + 3]
    BY <2>1, OffsetIs DEF fields
  <2>3. f[w + 3] = RoundUp(q, 4 * w) + ((w + 3) - w - 1) * q
    <3>1. w \in 1 .. (w + 3) - 1
      BY <1>1
    <3>2. QED
      BY <1>1, <2>1, <2>2, <3>1, AfterWords
  <2>4. (w + 3) - w - 1 = 2
    BY <1>1
  <2>5. QED
    BY <2>2, <2>3, <2>4
<1>5. QED
  BY <1>2, <1>3, <1>4

LEMMA QuickSmall ==
  ASSUME NEW s \in 21 .. 33, NEW p \in {4, 8}
  PROVE  Layout(s, p).quick \in 0 .. 127
<1>1. /\ RoundUp(p, 16) \in 0 .. 40 /\ RoundUp(p, 20) \in 0 .. 40
      /\ RoundUp(p, 28) \in 0 .. 40 /\ RoundUp(p, 36) \in 0 .. 40
  <2>1. CASE p = 4
    BY <2>1 DEF RoundUp
  <2>2. CASE p = 8
    BY <2>2 DEF RoundUp
  <2>3. QED
    BY <2>1, <2>2
<1>2. CASE s \in 31 .. 33
  <2>1. Layout(s, p) = [Unset EXCEPT !.flags = 4, !.quick = RoundUp(p, 16) + p]
    BY <1>2 DEF Layout
  <2>2. QED
    BY <1>1, <2>1 DEF Unset
<1>3. CASE s \in 28 .. 30
  <2>1. Layout(s, p) = [Unset EXCEPT !.flags = 4, !.quick = RoundUp(p, 20) + p]
    BY <1>3 DEF Layout
  <2>2. QED
    BY <1>1, <2>1 DEF Unset
<1>4. CASE s \in 26 .. 27
  <2>1. Layout(s, p) = [Unset EXCEPT !.flags = 4, !.quick = RoundUp(p, 20) + 2 * p]
    BY <1>4 DEF Layout
  <2>2. QED
    BY <1>1, <2>1 DEF Unset
<1>5. CASE s \in 24 .. 25
  <2>1. Layout(s, p) = [Unset EXCEPT !.flags = 4, !.quick = RoundUp(p, 20) + 3 * p]
    BY <1>5 DEF Layout
  <2>2. QED
    BY <1>1, <2>1 DEF Unset
<1>6. CASE s = 23
  <2>1. Layout(s, p) = [Unset EXCEPT !.interp = RoundUp(p, 28),
                                     !.quick = RoundUp(p, 28) + 2 * p]
    BY <1>6 DEF Layout
  <2>2. QED
    BY <1>1, <2>1 DEF Unset
<1>7. CASE s = 22
  <2>1. Layout(s, p) = [Unset EXCEPT !.interp = RoundUp(p, 36),
                                     !.quick = RoundUp(p, 36) + 2 * p]
    BY <1>7 DEF Layout
  <2>2. QED
    BY <1>1, <2>1 DEF Unset
<1>8. CASE s = 21
  <2>1. Layout(s, p) = [Unset EXCEPT !.interp = 24, !.quick = 40]
    BY <1>8 DEF Layout
  <2>2. QED
    BY <1>1, <2>1 DEF Unset
<1>9. QED
  BY <1>2, <1>3, <1>4, <1>5, <1>6, <1>7, <1>8

(***************************************************************************)
(* The machine code of a trampoline takes the displacement that it was     *)
(* patched with, as long as it is not negative for any ABI.                *)
(***************************************************************************)
LEMMA DisplacementPatched ==
  ASSUME NEW a \in Abis, NEW n \in 0 .. 127
  PROVE  Displacement(a, Patched(a, n)) = n
<1>1. CASE a \in {"i386", "x86_64"}
  BY <1>1 DEF Displacement, Patched, Signed
<1>2. CASE a = "arm"
  BY <1>2 DEF Displacement, Patched
<1>3. CASE a = "aarch64"
  <2>1. Patched(a, n)[1] \div 16 = n % 16 /\ Patched(a, n)[2] % 32 = n \div 16
    BY <1>3 DEF Patched
  <2>2. Displacement(a, Patched(a, n)) = Signed(9, (n % 16) + (n \div 16) * 16)
    BY <1>3, <2>1 DEF Displacement
  <2>3. (n % 16) + (n \div 16) * 16 = n
    OBVIOUS
  <2>4. QED
    BY <2>2, <2>3 DEF Signed
<1>4. QED
  BY <1>1, <1>2, <1>3 DEF Abis

-----------------------------------------------------------------------------
(***************************************************************************)
(* The layout is set once, from the API level, before anything is hooked.  *)
(***************************************************************************)
LayoutSet ==
  /\ abi \in Abis
  /\ phase # "start" =>
       layout = Layout(sdk, P) /\ template = Patched(abi, layout.quick)

LEMMA StepLayoutSet ==
  ASSUME LayoutSet, [Next]_vars
  PROVE  LayoutSet'
<1>1. CASE SetOffsets
  BY <1>1 DEF SetOffsets, LayoutSet, input, P
<1>2. CASE Callback \/ EndOfLibs
  <2>1. phase # "start" /\ UNCHANGED <<sdk, abi, layout, template>>
    BY <1>2 DEF Callback, EndOfLibs, input
  <2>2. QED
    BY <2>1 DEF LayoutSet, P
<1>3. ASSUME NEW t \in Threads, Step(t) PROVE LayoutSet'
  <2>1. UNCHANGED <<sdk, abi, layout, template, phase>>
    BY <1>3 DEF Step, visiblyInit, Check, Find, SetLinker, SetMake, Invoke,
       Fail, input, setup
  <2>2. QED
    BY <2>1 DEF LayoutSet, P
<1>4. CASE UNCHANGED vars
  BY <1>4 DEF vars, LayoutSet, P
<1>5. QED
  BY <1>1, <1>2, <1>3, <1>4 DEF Next, Setup

LEMMA LayoutFound ==
  ASSUME LayoutSet
  PROVE  EntryPointFound
<1>1. SUFFICES ASSUME phase # "start", sdk \in 21 .. 33
               PROVE  /\ layout.quick = OffsetOf("quick", sdk, P)
                      /\ layout.interp = OffsetOf("interp", sdk, P)
                      /\ sdk >= 24 => layout.flags = OffsetOf("flags", sdk, P)
                      /\ Displacement(abi, template) = layout.quick
  BY DEF EntryPointFound
<1>2. /\ layout = Layout(sdk, P) /\ template = Patched(abi, layout.quick)
      /\ abi \in Abis /\ P \in {4, 8}
  BY <1>1, PointerSizes DEF LayoutSet, P
<1>3. Displacement(abi, template) = layout.quick
  BY <1>1, <1>2, QuickSmall, DisplacementPatched
<1>4. CASE sdk \in 21 .. 23
  BY <1>2, <1>3, <1>4, EarlyFields
<1>5. CASE sdk \in 24 .. 33
  <2>1. Layout(sdk, P).flags = 4 /\ Layout(sdk, P).interp = 0
    BY <1>5 DEF Layout, Unset
  <2>2. QED
    BY <1>2, <1>3, <1>5, <2>1, RecentFields
<1>6. QED
  BY <1>1, <1>4, <1>5

(***************************************************************************)
(* On API levels 21 to 33 and every ABI the offsets that init computes are *)
(* those of the fields of ArtMethod as ART aligns them, and trampolines    *)
(* jump through the word that replaceMethod writes (hook_main.c:51-112,    *)
(* trampoline.c:200-213).                                                  *)
(***************************************************************************)
THEOREM EntryPointAlwaysFound == Spec => []EntryPointFound
<1>1. Init => LayoutSet
  BY DEF Init, LayoutSet
<1>2. LayoutSet /\ [Next]_vars => LayoutSet'
  BY StepLayoutSet
<1>3. LayoutSet => EntryPointFound
  BY LayoutFound
<1>4. QED
  BY <1>1, <1>2, <1>3, PTL DEF Spec
=============================================================================
