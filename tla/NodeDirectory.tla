---------------------------- MODULE NodeDirectory ----------------------------
(***************************************************************************)
(* The directory a server runs with (oxidesfu-server, config.rs): the        *)
(* in-memory registry or the Redis one.  The choice is made at start-up, and *)
(* callers only know the trait RoomNodeDirectory.                            *)
(***************************************************************************)
EXTENDS NodeRegistry

CONSTANTS Client    \* processes that share the Redis directory

VARIABLES
    backend,        \* "memory" or "redis"
    redis_nodes, redis_draining, redis_rooms, redis_client, redis_answer

redisVars == <<redis_nodes, redis_draining, redis_rooms, redis_client, redis_answer>>

Redis == INSTANCE RedisDirectory WITH
    Concurrent <- FALSE, nodes <- redis_nodes, draining <- redis_draining,
    room_nodes <- redis_rooms, client <- redis_client, answer <- redis_answer

room_node_directory_from_config ==
    /\ backend \in {"memory", "redis"}
    /\ Init
    /\ Redis!Init

Use ==
    /\ \/ backend = "memory" /\ Next /\ UNCHANGED redisVars
       \/ backend = "redis" /\ Redis!Next /\ UNCHANGED vars
    /\ UNCHANGED backend

DirectorySpec == room_node_directory_from_config /\ [][Use]_<<backend, vars, redisVars>>

\* As long as the operations of its clients do not overlap, the Redis directory keeps the
\* promise of the directory interface, although its operations are several commands and it
\* keeps the rooms of nodes that left.
RedisImplementsDirectory == Redis!ImplementsDirectory
=============================================================================
