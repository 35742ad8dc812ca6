---------------------------- MODULE MCServerProcess ----------------------------
(***************************************************************************)
(* ServerProcess for TLC: the configurations servers are started with.     *)
(***************************************************************************)
EXTENDS ServerProcess, TLC

CONSTANTS s1, s2, own   \* two servers; an instance id that is given, perhaps ""

From(env, loads, driver, registry, instance) ==
    [env |-> env, loads |-> loads, driver |-> driver, registry |-> registry,
     instance |-> instance]

\* A redis and etcd named by the environment, the file unreadable; all of it named
\* by the file, with a random instance id; the same with the id of the file, which
\* in conf.yaml is ""; a file that cannot be read; a misspelt store, with which
\* nothing can be read either.
Redis    == From("redis", FALSE, "boltdb", "env", own)
Mysql    == From("unset", TRUE, "mysql", "file", NoId)
Alike    == From("unset", TRUE, "mysql", "file", own)
Unread   == From("unset", FALSE, "postgres", "file", NoId)
Misspelt == From("typo", FALSE, "redis", "env", NoId)

\* Two servers with one instance id; two with different ones; two that are
\* misconfigured.
Pairs == {s1 :> Redis @@ s2 :> Redis, s1 :> Redis @@ s2 :> Mysql, s1 :> Misspelt @@ s2 :> Unread}

\* Two servers started with one conf.yaml, whose instance id is "".
Replicas == {s1 :> Alike @@ s2 :> Alike}

\* One server without environment and file.
Plain == {s1 :> From("unset", TRUE, "boltdb", "none", NoId)}

=============================================================================
