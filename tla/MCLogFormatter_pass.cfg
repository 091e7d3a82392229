CONSTANTS
    Chars <- MCChars
    Alpha <- MCAlpha
    Keys <- MCKeys
    UninitError = {FALSE, TRUE}
    MaxPatternLen = 6
SPECIFICATION Spec
INVARIANT TypeOK
INVARIANT UnescapedParseSound
