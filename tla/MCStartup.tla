----------------------------- MODULE MCStartup -----------------------------
(* Instances of Startup for TLC. *)
EXTENDS Startup

\* A new installation as README.md describes it, and one as in production.
NewOnSqlite   == {[provider |-> "sqlite", found |-> {}]}
NewOnPostgres == {[provider |-> "postgres", found |-> {}]}
=============================================================================
