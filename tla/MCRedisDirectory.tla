---------------------------- MODULE MCRedisDirectory ----------------------------
EXTENDS RedisDirectory

\* Two nodes suffice to choose differently; a third lets one come or go meanwhile.
TwoNodes == 1..2
ThreeNodes == 1..3
=============================================================================
