SPECIFICATION IdSpec
CONSTANT MaxIds = 6
INVARIANTS IdTypeOK Partition Compact
PROPERTY ImplementsAllocator
