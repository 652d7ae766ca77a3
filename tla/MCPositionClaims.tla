---- MODULE MCPositionClaims ----
(* A window of three transactions and three events of twelve shapes: every  *)
(* quote, basis and continuation, fees of an acquisition, of a disposal and   *)
(* shared ones.                                                               *)
EXTENDS PositionClaims

Shape(kind, q, how, of) == [kind |-> kind, q |-> q, how |-> how, of |-> of]

MCShapes ==
    {Shape("ACQUISITION", 1, "EXACT", 0), Shape("ACQUISITION", 2, "EXACT", 0),
     Shape("ACQUISITION", 1, "OTHER_MINT", 0),
     Shape("DISPOSAL", 1, "EXACT", 0), Shape("DISPOSAL", 1, "UNRESOLVED", 0),
     Shape("TRANSFER_IN", 1, "KNOWN", 0), Shape("TRANSFER_IN", 1, "UNKNOWN", 0),
     Shape("TRANSFER_OUT", 1, "CONTINUING", 0), Shape("TRANSFER_OUT", 1, "UNRESOLVED", 0),
     Shape("FEE", 1, "UNALLOCATED_SHARED", 0), Shape("FEE", 1, "ACQUISITION", 1),
     Shape("FEE", 1, "DISPOSAL", 2)}

Change(account, kind, units, own_) == [account |-> account, kind |-> kind, units |-> units, own |-> own_]

\* The wallet buys into one account and closes it, a stranger's transfer fills
\* another, and accounts come up that the decoder refuses.
MCChanges ==
    {Change("first", "target", 1, TRUE), Change("first", "closed", 0, TRUE),
     Change("second", "target", 1, FALSE), Change("second", "wrapped", 0, TRUE),
     Change("second", "extended", 0, FALSE)}
====
