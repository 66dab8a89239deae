------------------------------ MODULE MCFailover ------------------------------
(* Three mirrors of which each loop asks two, in four kinds of company.    *)
(* Their registry order is not the order of their names.                   *)
EXTENDS Failover

MCEnabled == <<2, 1, 3>>
MCNatures == {<<"sick", "sick", "reliable">>, <<"sick", "flaky", "reliable">>,
              <<"reliable", "flaky", "sick">>, <<"reliable", "sick", "reliable">>}
===============================================================================
