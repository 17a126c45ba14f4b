----------------------------- MODULE MCDevices ------------------------------
EXTENDS Devices

\* A, the prefix, the first byte of Pause, and the key that shows the time.
MCCodes    == {30, 224, 225, 12}
MCChars    == {"m", "\n"}
MCRates    == {0, 1, 10, 18, 19, 20, 23, 60, 100, 1000, 4242, 65535, 99991, 300000, 596591, 795455, 1193180, 1193181, 2000000}
MCChannels == {{14}, {14, 15}}
=============================================================================
