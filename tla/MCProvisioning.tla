--------------------------- MODULE MCProvisioning ---------------------------
(* A host created with no label or with one, one insecure registry, one    *)
(* mirror and one arbitrary flag, so that every part of the template is    *)
(* rendered; three operations, enough to provision twice and run a         *)
(* service action in between.                                              *)
EXTENDS Provisioning

MCLabelChoices == {<<>>, <<"env=prod">>}
MCProvider == "provider=virtualbox"
MCInsecure == <<"registry.local:5000">>
MCMirrors == <<"https://mirror.local">>
MCFlags == <<"log-level=debug">>
MCMaxOps == 3
====
