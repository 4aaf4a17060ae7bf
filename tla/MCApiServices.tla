--------------------------- MODULE MCApiServices ---------------------------
(* Small instances of ServiceCaches, the calls that go through a cache or a *)
(* transaction, and ProjectRecords, documents and boundaries.               *)
EXTENDS ServiceCaches, ProjectRecords, TLC

CONSTANTS r1, r2, w1, w2, u1, u2

MCTtl == [k \in Key |-> IF k \in {"order", "bond", "bonds", "providers"} THEN 2 ELSE 1]
MCScene ==
  {[keys |-> {"order"}, ops |-> {"listBondTokens", "buyBondTokens"}, callers |-> {w2}],
   [keys |-> {"order"}, ops |-> {"buyBondTokens", "cancelOrder"}, callers |-> {w1, w2}],
   [keys |-> {"orders"}, ops |-> {"cancelOrder"}, callers |-> {w1}],
   [keys |-> {"pricefeed"}, ops |-> {"listBondTokens"}, callers |-> {w1}],
   [keys |-> {"portfolio"}, ops |-> {"depositQuote"}, callers |-> {w2}],
   [keys |-> {"portfolio"}, ops |-> {"withdrawQuote"}, callers |-> {w2}],
   [keys |-> {"portfolio"}, ops |-> {"transfer"}, callers |-> {w1}],
   [keys |-> {"bond"}, ops |-> {"mature"}, callers |-> {w1}],
   [keys |-> {"bond"}, ops |-> {"subscribe"}, callers |-> {w1}],
   [keys |-> {"bond"}, ops |-> {"create", "claimCredits"}, callers |-> {w1}],
   [keys |-> {"bonds"}, ops |-> {"distributeCoupon", "sweepUndistributed"}, callers |-> {w1}],
   [keys |-> {"projects"}, ops |-> {"approve", "reject"}, callers |-> {w1}],
   [keys |-> {"providers"}, ops |-> {"registerProvider", "challengeReport"}, callers |-> {w1}],
   [keys |-> {"project"}, ops |-> {"register"}, callers |-> {w1}]}

\* Files that are taken, and one for every reason to refuse a file.
F(size, ext, mime, content, safe) ==
  [size |-> size, ext |-> ext, mime |-> mime, content |-> content, safe |-> safe]
Report == F(1, "pdf", "pdf", "pdf", TRUE)
Photo == F(2, "jpg", "jpeg", "jpeg", TRUE)
Note == F(1, "md", "text", "plain", TRUE)
Refused == {F(0, "pdf", "pdf", "pdf", TRUE), F(3, "png", "png", "png", TRUE), F(1, "sh", "text", "plain", TRUE),
            F(1, "doc", "word", "plain", TRUE), F(1, "txt", "png", "png", TRUE), F(1, "png", "png", "svg", TRUE),
            F(1, "bin", "", "plain", FALSE)}
MCFile == {Report, Photo, Note} \cup Refused
MCBatch == {<<Report, Photo>>, <<Note>>} \cup {<<Note, f>> : f \in Refused}
Ring(points, inRange, closed, area) == [points |-> points, inRange |-> inRange, closed |-> closed, area |-> area]
Square(area) == Ring(5, TRUE, TRUE, area)
Ground(type, polygons, declared) == [type |-> type, polygons |-> polygons, declared |-> declared]
MCBoundary == {Ground("Polygon", <<<<Square(14), Square(3)>>>>, 10), Ground("Polygon", <<<<Square(12)>>>>, 10),
               Ground("MultiPolygon", <<<<Square(9)>>, <<Square(1), Square(2)>>>>, 10),
               Ground("Polygon", <<<<Ring(3, TRUE, TRUE, 10)>>>>, 0), Ground("Point", <<>>, 0)}
MCPrefix == <<2, 3>>

MCSymmetry == Permutations({r1, r2}) \cup Permutations({u1, u2})

VARIABLE part

ServicesInit ==
  /\ part \in {"calls", "records"} /\ SvcInit /\ RecordsInit
  /\ part = "records" => scene = (CHOOSE s \in Scene : TRUE) /\ ledger[1].status = "open"
ServicesNext ==
  \/ part = "calls" /\ SvcNext /\ UNCHANGED <<part, recordVars>>
  \/ part = "records" /\ RecordsNext /\ UNCHANGED <<part, svcVars>>

ServicesSpec == ServicesInit /\ [][ServicesNext]_<<part, svcVars, recordVars>>
=============================================================================
