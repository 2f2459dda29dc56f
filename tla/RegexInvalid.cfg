SPECIFICATION Spec
CONSTANTS
    Patterns = {"www", "w+", ".*", "[bad", "(bad"}
    Inputs = {"w", "www", "api"}
    MatchedBy <- MCMatchedBy
    Invalid = {"[bad", "(bad"}
    DNS_REGEX_CACHE_SIZE = 3
INVARIANT InvalidReturnsFalse
