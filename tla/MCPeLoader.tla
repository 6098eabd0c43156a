----------------------------- MODULE MCPeLoader -----------------------------
(***************************************************************************)
(* Instances of PeLoader for TLC: a program that imports two dlls which    *)
(* import each other, and dlls that are loaded by name: c and stub reach   *)
(* a dll of the program through a forwarded function and import the other, *)
(* d imports c.  drv is a name like WINSPOOL.DRV, for which the search     *)
(* finds stub.                                                             *)
(***************************************************************************)
EXTENDS PeLoader, TLC

CONSTANTS main, t1, t2,
          exe, a, b, c, d, drv, stub

Needs(dll) == [dll |-> dll, must |-> TRUE]
Forwards(dll) == [dll |-> dll, must |-> FALSE]

ImportsOf == exe :> <<Needs(a)>> @@ a :> <<Needs(b)>> @@ b :> <<Needs(a)>>
             @@ c :> <<Forwards(b), Needs(a)>> @@ d :> <<Needs(c)>>
             @@ drv :> <<>> @@ stub :> <<Forwards(b), Needs(a)>>

ImportTable == [f \in File |-> ImportsOf[f]]
SearchPath == [f \in File |-> IF f = drv THEN stub ELSE f]
=============================================================================
