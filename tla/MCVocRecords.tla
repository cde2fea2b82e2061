---------------------------- MODULE MCVocRecords ----------------------------
EXTENDS VocRecords

\* A behaviour is about commits of upload 1 (several of one row, or one of two rows) while the other
\* uploads come and go, or about one import beside edits and one classification, or about edits and
\* several classifications.
Previewed == \E u \in Uploads : prev[u] # "none"
Edited1   == \E i \in Ids : recs[i].batch = None \/ ~recs[i].live \/ recs[i].text # 1
Begun(r)  == req[r].at # "idle"

\* uploads, requests and runs are numbers, and begin in their order: their names do not matter
InOrder(Idle(_), S) == \A x, y \in S : x < y /\ Idle(x) => Idle(y)

Bounds ==
    /\ Previewed =>
         /\ ~Edited1 /\ \A s \in Runs : run[s].at = "idle"
         /\ \A r \in Reqs : /\ Begun(r) => req[r].u = 1
                            /\ Len(plan[r]) > 1 => (restarts = 0 /\ \A q \in Reqs : q > 1 => ~Begun(q))
    /\ Edited1 \/ (\E s \in Runs : run[s].at # "idle") => \A r \in Reqs : r > 1 => ~Begun(r)
    /\ \A s \in Runs : s > 1 /\ run[s].at # "idle" => \A r \in Reqs : ~Begun(r)
    /\ InOrder(LAMBDA u : prev[u] = "none", Uploads)
    /\ InOrder(LAMBDA r : req[r].at = "idle", Reqs)
    /\ InOrder(LAMBDA s : run[s].at = "idle", Runs)

MCInit == Init /\ \A u \in Uploads : u > 1 => sess[u].kind = "voc_table"
MCNext == Next /\ Bounds'
MCSpec == MCInit /\ [][MCNext]_vars /\ Fairness
=============================================================================
