---------------------------- MODULE MC_XhRefresh ----------------------------
(***************************************************************************)
(* Libraries and registrations for TLC.                                    *)
(***************************************************************************)
EXTENDS XhRefresh

\* An old layout, the layout of lld, a file that is not an ELF file and a
\* damaged one; the path of a contains that of b.
LibDef == [
  a |-> [segments |-> <<"rx", "rw">>, header |-> TRUE, dynamic |-> TRUE,
         imports |-> {"fork", "open"}, contains |-> {"a", "b"}],
  b |-> [segments |-> <<"r", "rx", "rw">>, header |-> TRUE, dynamic |-> TRUE,
         imports |-> {"fork"}, contains |-> {"b"}],
  data |-> [segments |-> <<"none", "rx">>, header |-> FALSE, dynamic |-> FALSE,
            imports |-> {}, contains |-> {"data"}],
  stripped |-> [segments |-> <<"shared", "r", "rx">>, header |-> TRUE,
                dynamic |-> FALSE, imports |-> {}, contains |-> {"stripped"}] ]

Hook(paths, symbol, new) == [paths |-> paths, symbol |-> symbol, new |-> new]
Ignore(paths, symbol) == [paths |-> paths, symbol |-> symbol]

All == {"a", "b", "stripped"}

\* Two hooks for all libraries, as start (hook_main.c) registers them.
Plain == [hooks |-> <<Hook(All, "fork", "new_fork"),
                      Hook(All, "open", "new_open")>>,
          ignores |-> <<>>]

\* One library only; the second hook is ignored in it, everything in another.
Ignoring == [hooks |-> <<Hook({"a", "b"}, "fork", "new_fork"),
                         Hook({"a"}, "open", "new_open")>>,
             ignores |-> <<Ignore({"a"}, "open"), Ignore({"b"}, None)>>]

\* Two functions for one symbol, the first for one library only.
Stacked == [hooks |-> <<Hook({"b"}, "fork", "new_fork"),
                        Hook({"a", "b"}, "fork", "my_fork")>>,
            ignores |-> <<>>]

\* The first hook is ignored in a library that the second one is for.
IgnoringFirst == [hooks |-> <<Hook({"a"}, "fork", "new_fork"),
                              Hook({"a"}, "open", "new_open")>>,
                  ignores |-> <<Ignore({"a"}, "fork")>>]

SetupsAll == {Plain, Ignoring, Stacked}
SetupsIgnored == {IgnoringFirst}
=============================================================================
