----------------------------- MODULE MCMigrator -----------------------------
(* Instances of Migrator for TLC: one game database and one shard. *)
EXTENDS Migrator

Databases == {1, 10}

GameFile(dir, id) == [cat |-> "game", dir |-> dir, id |-> id]
ShardFile(dir, id) == [cat |-> "shard", dir |-> dir, id |-> id]

Roots == {GameFile(0, 1), ShardFile(0, 1)}

\* The second directory is merged with the older timestamp.
Inverted == Roots \cup {GameFile(1, 3), GameFile(2, 2), ShardFile(1, 2)}

\* Two developers in the same second, for two versions.
SameSecond == Roots \cup {GameFile(1, 2), GameFile(2, 2)}
=============================================================================
