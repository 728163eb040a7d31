--------------------------- MODULE MCAptPackages ---------------------------
(* An installation for TLC.                                                  *)
EXTENDS AptPackages

\* The obsolete "app" depends on "base" by the name "soname"; "base" depends on
\* "lib", which depends on "base", and on a package that no longer exists.
MCPkgs == {"app", "base", "lib"}
MCDepends == [p \in MCPkgs |-> CASE p = "app" -> {"soname"}
                                 [] p = "base" -> {"lib", "gone"}
                                 [] p = "lib" -> {"base"}]
MCProvider == [v \in {"soname"} |-> "base"]

\* "base" and the first version of "lib" share a file; the second version drops
\* it and brings a postinstall script.
MCContents ==
    [k \in MCPkgs \X {1} \cup {<<"lib", 2>>} |->
        CASE k[1] = "app" -> {}
          [] k = <<"base", 1>> \/ k = <<"lib", 1>> -> {"shared"}
          [] k = <<"lib", 2>> -> {"lib.sh"}]

MCInitial == SUBSET {"base", "lib"}
MCRequests == {{"app", "gone"}, {"base", "lib"}}
============================================================================
