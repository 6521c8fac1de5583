-------------------------- MODULE MCAlertPipeline --------------------------
(* Small instances of AlertPipeline for TLC.                               *)
EXTENDS AlertPipeline, TLC

CONSTANTS t1, s1, n1, k1

\* Source s1 is of tenant t1, any other source of another tenant.
MCTenantOf == [s \in Source |-> IF s = s1 THEN t1 ELSE CHOOSE t \in Tenant : t # t1]

MCRow(ts, ok) == [ts |-> ts, key |-> k1, valid |-> ok]

\* One file of one row: all uploads carry the same evidence.
MCOneRow == {<<MCRow(1, TRUE)>>}

\* The same row as MCRow by index and timestamp, of another key.
MCOther(ts) == [MCRow(ts, TRUE) EXCEPT !.key = CHOOSE k \in Key : k # k1]

\* Two files whose first rows have one identity and different contents, the
\* first with a new row behind it, and one that validation refuses.
MCFiles == {<<MCRow(1, TRUE), MCRow(2, TRUE)>>, <<MCOther(1)>>, <<MCRow(2, FALSE)>>}

\* A raw event POSTed for tenant t1 under the id an upload of s1 would make,
\* but with another data source.
MCDirect == {[tenant |-> t1, source |-> CHOOSE s \in Source : Source = {s} \/ s # s1,
              sid |-> [ts |-> 1, source |-> s1, nonce |-> n1, index |-> 1],
              payload |-> MCRow(1, TRUE), by |-> None]}

\* Uploads are alike, and so are nonces as long as MCDirect is not used.
Symmetry == Permutations(Upload) \cup Permutations(Nonce)
=============================================================================
