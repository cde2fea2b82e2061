-------------------------- MODULE MCManualVersions --------------------------
(* Instances of ManualVersions for TLC. *)
EXTENDS ManualVersions, TLC

CONSTANTS i1, i2, i3, r1, r2, c1, c2, x1, x2, t1, t2, mA, mB, mC

PublishOps == {"upload", "publish", "unpublish", "delete", "abort"}
AllOps     == PublishOps \cup {"edit", "drop", "path", "reembed", "model"}
EmbedOps   == {"upload", "publish", "reembed", "model"}
EditOps    == {"upload", "publish", "unpublish", "edit"}
LiveOps    == {"upload", "publish", "unpublish", "delete", "reembed"}

\* the models that the writes of the setting name
OneModel  == <<mA>>
Changing  == <<mA, mB>>
Back      == <<mA, mB, mA>>
Returning == <<mA, mB, mA, mC>>

RowSym  == Permutations({i1, i2, i3}) \cup Permutations({r1, r2}) \cup Permutations({t1, t2})
EditSym == Permutations({i1, i2, i3}) \cup Permutations({x1, x2})
CallSym == Permutations({r1, r2}) \cup Permutations({c1, c2})
=============================================================================
