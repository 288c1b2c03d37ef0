------------------------------ MODULE Outcome ------------------------------
(* The outcome of a conversion, as PeerId and Wire use it. Of an error only*)
(* the variant is kept.                                                    *)
Ok(x)       == [tag |-> "ok", val |-> x]
Error(kind) == [tag |-> "error", val |-> kind]
Panic       == [tag |-> "panic", val |-> "panic"]
=============================================================================
