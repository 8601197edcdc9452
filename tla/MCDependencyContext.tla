------------------------- MODULE MCDependencyContext -------------------------
(* Three packages: a depends on b and c, b on c or, in another resolution, *)
(* on a nested version of c; the same package is a root and a dependency.  *)
EXTENDS DependencyContext

MCArtifacts == {<<"a", 1>>, <<"b", 1>>, <<"c", 1>>}

Package(version, prod, peer) ==
    [name |-> None, version |-> version, prod |-> prod, dev |-> {}, peer |-> peer, optional |-> {}]

Project(dep) == [Package(None, {dep}, {}) EXCEPT !.version = 0]

\* What npm writes for a: b and c at the top, or b's own c below it.
LocksOfA ==
    {[path \in {<<>>, <<"a">>, <<"b">>, <<"c">>} |->
        CASE path = <<>> -> Project("a")
          [] path = <<"a">> -> Package(1, {"b", "c"}, {"c"})
          [] path = <<"b">> -> Package(1, {"c"}, {})
          [] path = <<"c">> -> Package(1, {}, {})],
     [path \in {<<>>, <<"a">>, <<"b">>, <<"b", "c">>} |->
        CASE path = <<>> -> Project("a")
          [] path = <<"a">> -> Package(1, {"b"}, {})
          [] path = <<"b">> -> Package(1, {"c"}, {})
          [] path = <<"b", "c">> -> Package(1, {}, {})]}

LockOfB ==
    [path \in {<<>>, <<"b">>, <<"c">>} |->
        CASE path = <<>> -> Project("b")
          [] path = <<"b">> -> Package(1, {"c"}, {})
          [] path = <<"c">> -> Package(1, {}, {})]

\* A lock file that holds a package without a version.
BadLockOfB == [LockOfB EXCEPT ![<<"c">>].version = None]

LockOfC ==
    [path \in {<<>>, <<"c">>} |->
        CASE path = <<>> -> Project("c") [] path = <<"c">> -> Package(1, {}, {})]

MCLocks ==
    [r \in MCArtifacts |-> CASE r[1] = "a" -> LocksOfA
                             [] r[1] = "b" -> {LockOfB, BadLockOfB}
                             [] r[1] = "c" -> {LockOfC}]

MCManifestDeps ==
    [p \in MCArtifacts |-> CASE p[1] = "a" -> {"b", "c"} [] p[1] = "b" -> {"c"} [] p[1] = "c" -> {}]

MCRequested == {<<"b", 1>>}

MCSnapshot == <<<<"a", 1>>, <<"b", 1>>, <<"c", 1>>>>
=============================================================================
