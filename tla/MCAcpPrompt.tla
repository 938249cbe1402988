---------------------------- MODULE MCAcpPrompt ----------------------------
EXTENDS AcpPrompt
=============================================================================
