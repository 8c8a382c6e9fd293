---------------------------- MODULE MCCallStack ----------------------------
(* Small programs for CallStack: their callables and the sizes of the machine. *)
EXTENDS CallStackRefinement

Callable(kind, arity, locals) == [kind |-> kind, arity |-> arity, locals |-> locals]

\* Functions, natives, classes and callable instances, of different windows.
CallKindsOnly == {Callable("function", 1, 2), Callable("native", 1, 0),
                  Callable("constructor", 2, 2), Callable("instance", 2, 2)}

\* Methods, operators, modules and classes, with functions and constructors whose
\* windows all have the same size.
MethodKinds == {Callable("method", 2, 2), Callable("module", 0, 1), Callable("class", 0, 0),
                Callable("function", 1, 2), Callable("constructor", 2, 2)}

\* One function, smaller than the program that calls it.
OneFunction == {Callable("function", 0, 1)}
=============================================================================
