\* stopClient followed by the destructor (DHCP6ExporterImpl::stopService).
SPECIFICATION Spec
CHECK_DEADLOCK FALSE
CONSTANTS
    Threads = {t1, t2}
    MaxStarts = 2
    MaxPosts = 1
    StopTwice = TRUE
PROPERTIES
    CallsReturn
