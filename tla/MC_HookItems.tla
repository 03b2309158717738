----------------------------- MODULE MC_HookItems -----------------------------
(* A class A and a subclass B for TLC, a plugin with hook items for them and *)
(* a class with annotated methods, some of which do not fit or throw.        *)
EXTENDS HookItems

\* m is an instance method with a String parameter, s a static one.
Declared(class, name, kind, params, ret) ==
  [class |-> class, name |-> name, kind |-> kind, params |-> params, ret |-> ret]

MCDecl ==
  [Am |-> Declared("A", "m", "instance", <<"String">>, "String"),
   As |-> Declared("A", "s", "static", <<"String">>, "int"),
   Ai |-> Declared("A", "<init>", "constructor", <<"String">>, "void"),
   Bm |-> Declared("B", "m", "instance", <<"String">>, "String"),
   \* hook items
   Mh |-> Declared("ItemM", "hook", "static", <<"Object", "String">>, "String"),
   Mb |-> Declared("ItemM", "backup", "static", <<"Object", "String">>, "String"),
   Sh |-> Declared("ItemS", "hook", "static", <<"String">>, "int"),
   Nh |-> Declared("ItemN", "hook", "static", <<"B", "String">>, "String"),
   Ih |-> Declared("ItemI", "hook", "static", <<"Object", "String">>, "void"),
   Ib |-> Declared("ItemI", "backup", "instance", <<"String">>, "void"),
   Eh |-> Declared("ItemE", "hook", "static", <<"String">>, "int"),
   \* annotated methods
   Xh |-> Declared("X", "mHook", "static", <<"A", "String">>, "String"),
   Xg |-> Declared("X", "mHookToo", "static", <<"A", "String">>, "Object"),
   Xb |-> Declared("X", "mBackup", "static", <<"A", "String">>, "String"),
   Xi |-> Declared("X", "init", "static", <<"A", "String">>, "Void"),
   Xs |-> Declared("X", "sHook", "static", <<"String">>, "int"),
   Xt |-> Declared("X", "sBackup", "static", <<"String">>, "int"),
   Xw |-> Declared("X", "sHook", "static", <<"A", "String">>, "int"),
   Yh |-> Declared("Y", "sHook", "static", <<"String">>, "String"),
   Yi |-> Declared("Y", "iHook", "static", <<"A", "String">>, "void"),
   Yb |-> Declared("Y", "mBackup", "static", <<"A", "String">>, "String")]

MCSuper ==
  [t \in {"Object", "String", "A", "B", "ItemI", "int", "void", "Void"} |->
     CASE t \in {"String", "A", "ItemI", "Void"} -> {t, "Object"}
       [] t = "B" -> {"B", "A", "Object"}
       [] OTHER -> {t}]

MCLoad ==
  [c \in {"A", "B", "Gone", "ItemM", "ItemS", "ItemN", "ItemI", "ItemE", "Info",
          "NoInfo", "BadInfo", "X", "Y", "Z"} |->
     CASE c \in {"Gone", "NoInfo"} -> "exception"
       [] c \in {"BadInfo", "ItemE", "Z"} -> "error"
       [] OTHER -> "ok"]

Annotated(kind, class, name) == [kind |-> kind, class |-> class, name |-> name]

MCAnnotation ==
  [Xh |-> Annotated("MethodHook", None, "m"),
   Xg |-> Annotated("MethodHook", None, "m"),
   Xb |-> Annotated("MethodBackup", None, "m"),
   Xi |-> Annotated("ConstructorHook", None, "<init>"),
   Xs |-> Annotated("StaticMethodHook", "A", "s"),
   Xt |-> Annotated("StaticMethodBackup", "A", "s"),
   Xw |-> Annotated("MethodHook", None, "s"),
   Yh |-> Annotated("StaticMethodHook", "A", "s"),
   Yi |-> Annotated("ConstructorHook", None, "<init>"),
   Yb |-> Annotated("MethodBackup", None, "m")]

Sig(name, ret) == [name |-> name, params |-> <<"String">>, ret |-> ret]
Item_(item, class, sig) == [item |-> item, class |-> class, sig |-> sig]

ItemM == Item_("ItemM", "A", Sig("m", "String"))
ItemS == Item_("ItemS", "B", Sig("s", "int"))      \* B inherits s
ItemN == Item_("ItemN", "A", Sig("m", "String"))   \* its hook takes a B
ItemI == Item_("ItemI", "A", Sig("<init>", "void"))
Wrong == Item_("ItemS", "A", Sig("m", "int"))
Gone  == Item_("ItemS", "Gone", Sig("s", "int"))
Nowhere == Item_("ItemS", None, Sig("s", "int"))
Bare  == Item_("Info", "A", Sig("m", "String"))
ItemE == Item_("ItemE", "A", Sig("s", "int"))

Plugin(info, is) == [kind |-> "plugin", info |-> info, items |-> is]
Class(c) == [kind |-> "class", class |-> c]
Call(c, sig, h, b) ==
  [kind |-> "method", class |-> c, sig |-> sig, hook |-> h, backup |-> b]

MCCalls ==
  {Plugin("Info", <<Gone, ItemM, Nowhere, ItemS>>),
   Plugin("Info", <<Wrong, ItemN, Bare, ItemI, ItemE, ItemS>>),
   Plugin("NoInfo", <<>>), Plugin("BadInfo", <<>>),
   Class("X"), Class("Y"), Class("Z"),
   Call("B", Sig("m", "String"), "Mh", None),
   Call("A", Sig("m", "String"), "Nh", None),
   Call(None, Sig("s", "int"), "Sh", None),
   Call("A", Sig("m", "String"), None, None)}
=============================================================================
