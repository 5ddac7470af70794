--------------------------- MODULE MCProjectSetup ---------------------------
(* Small instances of ProjectSetup for TLC. *)
EXTENDS ProjectSetup

\* A recommended file with the structure of recommended-gitignore.txt: plain
\* entries, and two sections.
MCComments == {"# Hardhat files", "# Deployments"}
MCRecommended ==
  <<"node_modules", "", "# Hardhat files", "/cache", "", "# Deployments",
    "chain-31337", "">>
MCLines == ToSet(MCRecommended) \cup {"mine", "cache", "cache/"}
MCForms ==
  [l \in MCLines |-> IF l = "/cache" THEN {l, "cache", "cache/"} ELSE {l}]

\* No file; the user's own lines with another form of a recommended one; what
\* earlier commands left.
MCUserIgnores ==
  {<<>>, <<"mine", "cache/", "">>, MergeIgnore(MergeIgnore(<<>>))}

Owned(files) ==
  [f \in Files |-> IF f \in DOMAIN files THEN File("user", files[f])
                   ELSE Missing]

\* An empty directory; a plain package; an ESM package with a README; Hardhat
\* projects with the other dependencies and with a source; files only.
MCProjects ==
  {Owned(<<>>),
   Owned("package" :> {}),
   Owned("package" :> {"module"} @@ "readme" :> {}),
   Owned("package" :> {"extras"} @@ "config.ts" :> {}),
   Owned("package" :> {} @@ "config.js" :> {} @@ "source" :> {}),
   Owned("config.js" :> {} @@ "readme" :> {})}
=============================================================================
