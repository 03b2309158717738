---------------------------- MODULE MC_YafyaInit ----------------------------
(***************************************************************************)
(* Processes for TLC: the memory of a runtime with objects that are easily *)
(* mistaken for the JavaVM or the class linker, at the ends of the ranges  *)
(* that are searched too, and libraries in different orders.               *)
(***************************************************************************)
EXTENDS YafyaInit, TLC

Lib(name, exports) == [name |-> name, exports |-> exports]
Linker == Lib("linker", {"__loader_dlopen", "__loader_dlsym"})
NativeLoader == Lib("nativeloader", {})
Other == Lib("other", {})

(***************************************************************************)
(* A process where the class linker is at offset linkerAt of the runtime,  *)
(* after the intern table, and has the intern table at internIn.  The      *)
(* decoy comes after the intern table too, is nearer to the JavaVM, and    *)
(* has a virtual table of its own.                                         *)
(***************************************************************************)
Device(p, libs, exports, vmAt, linkerAt, internIn) ==
  [libs |-> libs,
   exports |-> exports,
   runtime |-> "runtime",
   vm |-> "vm",
   linker |-> "linker",
   memory |->
     [runtime |-> (linkerAt - p :> "intern") @@ (linkerAt :> "linker")
                    @@ (vmAt - 3 * p :> "intern") @@ (vmAt - 2 * p :> "decoy")
                    @@ (184 :> "vm") @@ (vmAt :> "vm"),
      vm |-> <<>>,
      linker |-> (0 :> <<"ClassLinker", 2 * p>>) @@ (internIn :> "intern"),
      intern |-> <<>>,
      decoy |-> (0 :> <<"ThreadList", 2 * p>>) @@ (200 - p :> "intern")
                  @@ (500 :> "intern")]]

All == {"instance", "vtable", "make"}
NoVTable == {"instance", "make"}

DevicesOf(p) ==
  {Device(p, <<Other, Linker, NativeLoader, Other, Other>>, All, 440, 240, 320),
   Device(p, <<NativeLoader, Linker>>, NoVTable, 440, 240, 200),
   Device(p, <<Linker, Other, NativeLoader, Other>>, NoVTable, 200, p, 496),
   Device(p, <<NativeLoader, Other, Linker, Other>>, All, 2000, 1000, 320),
   Device(p, <<Linker, NativeLoader>>, All \ {"make"}, 440, 240, 320),
   Device(p, <<Linker, Other>>, All, 440, 240, 320),
   Device(p, <<Lib("linker", {"__loader_dlopen"}), NativeLoader>>, All, 440,
          240, 320),
   [Device(p, <<Linker, NativeLoader>>, All, 440, 240, 320)
      EXCEPT !.runtime = Null]}

DevicesAll == [p \in {4, 8} |-> DevicesOf(p)]
SdksAll == 21 .. 34
=============================================================================
