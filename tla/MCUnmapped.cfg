CONSTANTS
  TIME_INDEX = 4
  TcpFlow <- MCTcpFlow
  UdpFlow <- MCUdpFlow
  NoFlow = NoFlow
  PoolSize = 1
  MapCount = 2
  IP_BITS = 4
  Carrier = {"I3DNET", "DECIX"}
  PEERING_POOL <- MCPeeringPool
  UNKNOWN_SOURCE_POOL <- MCUnknownSourcePool
  CACHE_IP_POOL <- MCCachePool
  SESSION_PKT_LIMIT = 2
  TCP_CLEAN_UP_TIMEOUT_SEC = 1
  UDP_CLEAN_UP_TIMEOUT_SEC = 1
  ShortReport = 0
  SecPerMin = 4
  SESSION_SCAN_FREQ_SEC = 2
  MaxReadLag = 2
  MaxLag = 0
  MaxSkew = 1
  FirstSec = 4
  LastPktSec = 5
  MaxSec = 11
  MaxFrames = 3
SPECIFICATION FairSpec
INVARIANTS FramesInPipeline OrientationAgrees FileFits
PROPERTIES EveryFrameSettled
CHECK_DEADLOCK FALSE
