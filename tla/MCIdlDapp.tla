----------------------------- MODULE MCIdlDapp -----------------------------
(* An instance of IdlDapp: of four uploads two have a file of the same name,
   and two an IDL of the same program and version. *)
EXTENDS IdlDapp

Names  == <<"idl.json", "idl.json", "other.json", "more.json">>
Hashes == <<"h1", "h2", "h3", "h3">>
=============================================================================
