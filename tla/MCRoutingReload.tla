-------------------------- MODULE MCRoutingReload ---------------------------
(* Small instances of RoutingReload for TLC. *)
EXTENDS RoutingReload

CONSTANTS u1, u2, u3, m1, m2, Broken

\* u1 and then u3 go by "docs"; a search for "docs" also finds u2, "docs-old".
MCRefOf  == (u1 :> "docs") @@ (u2 :> "docs-old") @@ (u3 :> "docs")
MCHits   == [t \in Refs |-> IF t = "docs" THEN Refs ELSE {t}]
MCListed == <<u2, u1>>

Inherit    == [x \in Fields |-> Unset]
MCDefaults == [x \in Fields |-> IF x \in {"on_missing"} THEN "delete" ELSE "do"]

\* A rule before a default, and a policy for pages.
Ruled == [rules     |-> <<[match |-> {m1, m2}, target |-> "docs-old"],
                         [match |-> {m1}, target |-> "docs"]>>,
          default   |-> Unset,
          overrides |-> ("page" :> [Inherit EXCEPT !["on_missing"] = "ignore"])]
\* One library for everything, and a policy for images.
Plain == [rules     |-> <<>>,
          default   |-> "docs",
          overrides |-> ("image" :> [Inherit EXCEPT !["on_changed"] = "skip"])]

MCConfigs == {Ruled, Plain}
MCFiles   == MCConfigs \cup {Broken, Unset}
=============================================================================
