SPECIFICATION Spec
CONSTANTS
    Codes <- WarmCodes
    Calls <- TwoCalls
    Eras <- WarmEras
    Ceilings = {5}
    BytesPerUnit = 2
    maxMeteredCacheSize = 1
    maxBlockCacheSize = 1
INVARIANT CachesInvisible
INVARIANT CachesSound
INVARIANT CachesBounded
