----------------------------- MODULE MCDashboard -----------------------------
(* Two datasources.  A dimension of ads is reserved, so that an administrator *)
(* and a user, who only has its time, are given two schemas.  Its one value   *)
(* has a double quote and before that a comma: the box hands back another     *)
(* value, of which a link makes a value of the other datasource's dimension.  *)
EXTENDS Dashboard, TLC

CONSTANTS shop, ads, country, brand, clicks, fr, quoted, pair

Both == {shop, ads}
AllDims == {country, brand, Time}
AllValues == {fr, quoted, pair}
Given(inAds) ==
    [names |-> Both, first |-> ads,
     dims |-> (shop :> {country}) @@ (ads :> inAds),
     mets |-> [ds \in Both |-> {clicks}]]
UserSchema == Given({Time})
AdminSchema == Given({Time, brand})
BothSchemas == {UserSchema, AdminSchema}
Stored == [ds \in Both |-> (country :> {fr}) @@ (brand :> {quoted}) @@ (Time :> {})]
UpToQuotes == [v \in AllValues |-> IF v = quoted THEN pair ELSE v]
AtCommas == [v \in AllValues |-> IF v = pair THEN {fr} ELSE {v}]
\* A report of one dimension, with a filter on it.
BrandReport ==
    [datasource |-> ads, dimensions |-> {brand}, metrics |-> {clicks},
     filters |-> [NoFilters EXCEPT ![brand] = {pair}], schema |-> AdminSchema,
     foreign |-> FALSE, strays |-> {}]
SharedLinks == {BrandReport}
=============================================================================
