SPECIFICATION Spec
CONSTANT Pools <- MCPools
INVARIANTS TypeOK RootCommitsToAll ProofsVerify ProofsBind PeersRebuildTheRoot PeersSeeTheSame
CHECK_DEADLOCK FALSE
