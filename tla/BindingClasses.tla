--------------------------- MODULE BindingClasses ---------------------------
(***************************************************************************)
(* How the classes of the C++ bindings are described.  An object is a      *)
(* sequence of parts, each holding one handle of a bucket of the ML side:  *)
(* one part per base class, the object's own part last (a Channel has two  *)
(* members instead).  What the program can do with an object is            *)
(*   makes   the static functions and                                      *)
(*   calls   the methods that return an object of a class of their own,    *)
(*   asks    the functions that return a number, a string or nothing,      *)
(*   hands   the objects each callback wraps its handles in,               *)
(*   refuses the functions that answer what the program passed them, as    *)
(*           they would a bad handle, with ~1 (or an unread exception).    *)
(***************************************************************************)
EXTENDS Sequences

None == "none"                   \* HANDLE_NONE, and no object

\* A function that takes handles of the classes args and returns an object.
Returns(args, class) ==
    [args |-> args, gives |-> class, empty |-> FALSE]

\* The function may also return ~2, an empty object.
ReturnsOrNone(args, class) ==
    [args |-> args, gives |-> class, empty |-> TRUE]

NoFunctions == [name \in {} |-> Returns({}, None)]

\* A class with one handle of its own.
Single(bucket) ==
    [parts |-> <<bucket>>, frees |-> <<bucket>>, bases |-> {},
     makes |-> NoFunctions, calls |-> NoFunctions,
     asks |-> {}, hands |-> {}, refuses |-> {}]
=============================================================================
