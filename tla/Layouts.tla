------------------------------ MODULE Layouts -------------------------------
(***************************************************************************)
(* How the tables of the API types and of their conversions are written. A *)
(* struct is the sequence of its fields, in the order in which the source  *)
(* declares them: a conversion by unsafe.Pointer takes a value for another *)
(* struct field by field in that order, whatever the names are. The        *)
(* TypeMeta of a kind is left out: the scheme sets it.                     *)
(***************************************************************************)
EXTENDS Naturals, Sequences, TLC

\* A field that holds a value, a struct (or a list of, or a pointer to it), an embedded struct.
F(name) == [name |-> name, of |-> "value"]
S(name, struct) == [name |-> name, of |-> struct]
E(struct) == S(struct, struct)

\* What a generated conversion does with the fields of a struct, the same in both
\* directions; a field in none of the three is left to the hand-written conversion.
Moves(copied, cast, converted) ==
    [copied |-> copied, cast |-> cast, converted |-> converted]

\* A hand-written conversion sets the field at path, respelling the value if need be.
Same == <<>>
Sets(path, spelling) == [path |-> path, spelling |-> spelling]
=============================================================================
