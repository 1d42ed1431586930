-------------------------- MODULE MCIncidentControl --------------------------
EXTENDS IncidentControl

\* Two rows for the incidents of the probe: a resolved and an active one, or
\* two calls about to open ...
TwoRows == {"i1", "i2"}
ProbeRows == [i \in TwoRows |-> "probe"]

\* ... or one row for each callback.
CallbackRows == [i \in TwoRows |-> IF i = "i1" THEN "verify" ELSE "bundle"]
=============================================================================
