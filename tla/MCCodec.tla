------------------------------ MODULE MCCodec ------------------------------
(***************************************************************************)
(* Frames for CodecExchange: what the compositor may send or a test may    *)
(* hold.  For every enum that is decoded at the top level, every variant,  *)
(* a variant of a later version and a key that pydantic's RootModel also   *)
(* uses, above every leaf.                                                 *)
(***************************************************************************)
EXTENDS CodecExchange, TLC

Extra == {"FutureVariant", "root"}
Leaves(e, name) ==
  {"{}", "junk", "scalar", "two", "FutureVariant"}
    \cup (IF name \in Table(e).newtype /\ Inner(e, name) = "none" THEN {"value"} ELSE {})
    \cup (IF name \in Table(e).struct THEN {"fields"} ELSE {})

Bare(e)   == {Wire(<<>>, leaf) : leaf \in Known(e) \cup Extra \cup {"{}", "scalar", "two"}}
Tagged(e) == UNION {{Wire(<<name>>, leaf) : leaf \in Leaves(e, name)} : name \in Known(e) \cup Extra}
Flat(e)   == Bare(e) \cup Tagged(e)

Above(name, ws) == {[w EXCEPT !.tags = <<name>> \o @] : w \in ws}
Wires(e) ==
  Flat(e) \cup
  UNION {Above(name, Flat(Inner(e, name))) : name \in {n \in Known(e) : Inner(e, n) # "none"}} \cup
  Above("FutureVariant", Tagged("Action"))

MCFrames == UNION {{[enum |-> e, wire |-> w] : w \in Wires(e)} : e \in Roots}
=============================================================================
